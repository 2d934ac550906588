# Shiori server: models, checks and proofs

Shiori is a single-process media server written in Go. Clients submit URLs; a
pool of workers drives a Chromium browser through the site's pages, asks a
language model to turn them into structured data, downloads chapter images and
stores everything in a library. A page that asks for a human (a captcha, a
login) is handed over to a person through a remote browser view. Progress goes
to clients as server-sent events.

This directory models the parts of the server whose correctness depends on the
order in which things happen, checks the models with TLC on small instances and
proves what matters most with TLAPS for instances of every size. Paths below
are relative to `src/`. `PROJECT.json` relates each definition to the lines it
models, lists each run, the mutant that shows each property can fail, the
hazards and the theorems.

## 1. Inventory

| Component | State it keeps | Operations | Talks to |
|---|---|---|---|
| SQLite job queue (`internal/platform/queue/sqlitequeue`) | table `job_queue`: status, attempts, `scheduled_at`, `heartbeat_at` | Enqueue, Dequeue, Ack, Nack, Heartbeat, Cancel, Status; each one or two SQL statements | worker pool, job API |
| Worker pool (`internal/worker`) | goroutines, one job each; a watcher per job | `workerLoop`, `processJob` | queue, handlers |
| Job API (`internal/jobs/http.go`) | none | `EnqueueExtract`, `JobStatus`, `CancelJob`, `JobEvents` | queue, event hub |
| Process (`cmd/api/main.go`) | up, draining, down | signal, drain, exit | all |
| Challenge manager (`internal/platform/browser/challenge.go`) | map token -> status, connected flag, `done` channel, expiry | Create, Wait, Get, Acquire/ReleaseController, Begin/RejectVerification, Resolve, Cancel, Remove | extraction handler, challenge API |
| Challenge API (`internal/jobs/challenge_handler.go`) | a verification in progress, a socket | complete, cancel, status, WebSocket | challenge manager, browser |
| Event hub (`internal/platform/events/hub.go`) | per topic: last id, 512 retained events, subscribers' channels | Publish, SubscribeFrom, UnsubscribeEvent, eviction | handlers publish, SSE streams read |
| Extraction handler (`internal/jobs/extract.go`) | the run's pages, login phase, merged result | page loop, hand-off, merge, persist | browser, model, hub, library |
| Browser provider (`internal/platform/browser/chromedp`) | sessions, one lease per domain profile, shared cookies per profile | Navigate, Snapshot, Screencast, CloseSession, solver | extraction handler, challenge API |
| Valkey queue (`.../valkeyqueue`) | a stream, one key per job | the queue interface again | worker pool |
| Library (`internal/library`, SQLite and Postgres) | media, chapters, image rows, reading history; one pool of five connections | CRUD, cursor lists, deletion with files | API, import, storage |
| Storage (`internal/platform/storage`) | files by key | Put, Get, Delete | import, library |
| Chapter import (`internal/jobs/chapter_import.go`) | image files, chapter rows | fetch, store, upsert | library, storage |
| Unit URL discovery (`internal/jobs/unit_urls.go`) | none | read a page's links and route templates, merge them with the model's list | extraction handler |
| NuExtract (`internal/extraction/nuextract`) | none between calls | split by budget, extract per chunk, repair, retry, merge | LM Studio |
| FlareSolverr manager (`internal/platform/flaresolverr`) | a child process | start, readiness, early exit, close | process |
| HTTP server, configuration, logging, migrations, LM Studio client | none of interest | I/O and wiring | |

### What is hard about it, and what makes it right

- *Queue and pool.* Several workers, HTTP handlers and late watcher statements
  write the same rows, one statement at a time; the process may die between any
  two. Right: one runner per job, honest attempts, finished jobs stay finished,
  every job is settled, a cancel frees its worker, a shutdown ends.
- *Hand-off.* A person, several browser tabs, a timer and a job context race for
  the outcome of a challenge. Right: one outcome, told the same to everybody,
  one controlling socket, one verification, and a job that never waits for good.
- *Events.* Publishers send outside the lock while clients come and go. Right:
  no event twice on a stream, no gap behind a `Last-Event-ID`, and the end of
  the job reaches a client that keeps reconnecting.
- *Browser profiles.* A domain's profile is leased through a human login; cookies
  captured late overwrite newer ones. Right: sessions of one profile exclude each
  other, leases come back, workers are not starved for good.
- *Extraction.* One loop body serves the login page, the hand-off, the reopened and
  the requested page, follows URLs a model makes up, merges its lists with what the
  pages prove, and reports to a topic that outlives the attempt. Right: no page is read
  twice, no prompt is read as content, no proven unit is lost but to another one at its
  URL, each attempt tells its end once.
- *Chunks and answers.* Text is cut at runes, lines, blocks and headings; answers come
  truncated, decorated or not at all. Right: no text is lost, no limit exceeded, no
  whole answer changed by its repair, and no gap passes for a complete result.
- *Library and files.* Files are written before the rows that name them, and rows
  deleted before files, each step failing or cut off. Right: a row never names a file
  that is gone.
- *Cursor lists.* The library changes between two pages. Right: what stays listed is
  shown once, and nobody pages for ever.
- *Connections.* Requests, workers and the queue share a pool of five. Right: whoever
  holds a connection can finish. It is not so: see section 7.

`PROJECT.json`, "hazards", places each of these at a line.

## 2. Plan

The modules in the order of their weight; each is done.

1. `JobLifecycle` (what the queue promises), `JobQueue` (queue, pool, process),
   `JobQueueProofs`.
2. `Challenges`, `ChallengesProofs`.
3. `EventHub`, `EventHubProofs`, and `Filters` with `FiltersProofs`: the loops over
   lists that this module and the next ones use, and what is true of such loops.
4. `ExclusiveUse` (one Chromium on a profile directory at a time),
   `BrowserProfiles` (lease, sessions, `Snapshot`, the solver and the shared
   cookies of one domain), `BrowserProfilesProofs`.
5. `ExtractRun`, `ExtractRunProofs`: the handler from payload to return and its
   retries, over the promises of 1-4.
6. `LibraryStore`: imports, deletions, storage, cursor lists; `DbPool`: the
   connections those share; `LibraryProofs` about both.
7. `NuExtract`, `NuExtractProofs`: chunks, answers and their merge.

What could follow: how images are picked and stored (`chapter_import.go`) page by page;
and, if the Valkey queue is ever more than an option, its interface against
`JobLifecycle`.

## 3. The modules

Operators named `Bug_...` are plausible mistakes in the operator they precede.
No specification uses them; the mutants of `PROJECT.json` put one in place of
the original and the named property must then fail.

### Filters

`Filter` keeps the elements of a list that are in a set, and `Iterate` is a loop over a
list: a start and a step. Both are recursive functions. The community modules have the
same as `SelectSeq` and `FoldLeft`, but those are recursive operators or take operators,
and the proof system can say nothing of them. A step of `Iterate` is a curried function
(`step[state][element]`) for the same reason.

### JobQueue and JobLifecycle

A step is one SQL statement or one decision of a goroutine. The row is
`status`, `attempts`, `wait` (time until `scheduled_at`) and `age` (time since
`heartbeat_at`, capped where the lease ends). A worker's `pc` follows
`workerLoop` and `processJob`: `poll`, `run`, `returnedOk/Err` (the status check
is next), `ack`, `nack`, `nackWrite` (between Nack's SELECT and UPDATE).
`WatchStatus` is the watcher's status poll; the heartbeat it sends is a separate
`Heartbeat` step, because the watcher is not waited for and its last statement
may land after the job was reported. `request` and `target` follow
`DELETE /jobs/{id}` through its two statements. `Shutdown`, `Exit`, `Crash` and
`Restart` are the process; `Die` is what is lost with it. `lost` counts, per job,
the runs that ended without a report.

`DequeueLost`, `CheckStatusFails` and `ReportFails` are statements that fail, in
the way the code drops the error. A heartbeat or a status poll of the watcher
that fails is not modelled: the code tries again a second later, and only five
minutes of failures in a row matter, which is the case of a suspended host below.

*Assumption `Suspends`.* The lease lasts five minutes and the watcher ticks each
second. `Tick` lets time pass only while no running worker has been quiet for
the life of a lease (`Prompt`), unless the constant `Suspends` says that the host
can be suspended, or its database can be out of reach, that long. All runs and
the theorems LeaseCorrect, Finality and Refinement are about hosts that are not;
TypeCorrect and CancelUndone need no such assumption. The assumption is about
workers that have a watcher: a worker whose context is done (cancelled job,
draining process) may take any time.

`JobLifecycle` is the same without clocks, statements and processes: jobs,
attempts and the set of workers that run a job. `JobQueue!ImplementsLifecycle`
instantiates it with `Runners`.

### Challenges

One step per method of `ChallengeManager` (each holds the mutex throughout), and
steps for what its callers do in between. `waiter` follows the job through
`Create`, `Wait` with the branches of its select, `Remove`, `CloseSession`;
`vpc` a `POST .../complete` through BeginVerification, the browser's snapshot,
and Resolve or RejectVerification; `ctok` is the token a WebSocket controls.
`clock` is the token's time: valid, late, late by more than the ttl. `accepted`
and `dropped` record the tokens for which a client was answered 200 or 204.
A lookup that finds an open token late finishes it as expired inside the call,
as `lookupLocked` does.

### EventHub

One topic. `Publish` is the part of the code under the mutex, each non-blocking
send after the unlock a `Send` of its own. `Connect` is `SubscribeFrom`; a stream
writes its replay, then what its channel collects, and ends with a final event.
`Disconnect` loses what was not written; the client comes back with the last id
it was sent. `Evict` is the deletion of the idle topic. Events carry a serial
number the code does not have, to tell them apart when ids start again. The window and
the replay are loops over the history (`Filter`).

### BrowserProfiles and ExclusiveUse

One domain, because nothing in the provider is shared between two. The lease is
Go's channel of capacity one: `full`, the jobs that hold a release closure
(`owes`) and the jobs `blocked` on it; a release lets a blocked job in at once.
`pc` follows a job through `Navigate` (`navigate`, `start`, `load`, and after a
page that did not load `fallback` and `merge`), its `Snapshot`, a hand-off, and
CloseSession in the order of the code: the map entry (`close`), Chromium
(`quit`), the lease (`release`). An error return of Navigate enters the same
sequence at `quit`. `plan` is what the caller does next: an ordinary page, the
page reopened after a hand-off, or the end. The extraction's pages, its login
page and the imported units are all "pages": what they do to the provider is the
same, and an import goes on after an error where the extraction ends.

`snap` is a Snapshot call, of the job or of a verifying client; each read or
write of the shared cookies and each exchange with Chromium is a step. A client
keeps the session it looked up (`on`) although the job may close it; the calls it
makes to that Chromium then fail, but a captured cookie may still be stored.
`SolverJobs` are the jobs without login: they never touch the profile, but read
and merge the shared cookies. The cookies are one login cookie with a version;
FlareSolverr is taken to answer with the cookie it was sent, which is what a site
does that changes its cookie only on login.

`ExclusiveUse` opens and leaves a directory; `OneBrowserAtATime` instantiates it
with `alive`.

### ExtractRun

The handler is one goroutine, so its state is its local variables: `url`, `phase`
(`loginPhase` and `loginConfirmed`), `visited`, the result; `pc` is where it is between
two calls that can fail or be cancelled. `Snapshot` decides as the code does whom the
page asks for (`AsksFor` adds the login page that looks like none), `WaitEnds` and
`WaitFails` are the two ends of `cm.Wait`, `LookAgain` is the reopened page. `Extract` is
the whole stretch from the cleaned HTML to the next URL: `discoverUnitURLs`,
`enrichExtractedUnitURLs`, the merge (`Merged`, with the three things it does to a list),
`NextPage`. `Save` is what follows the loop; it says `done` whether or not the media was
stored, as the code does. `events` is the job's topic, in which `Retry`'s attempts follow
one another.

`sendError` looks for a cancellation in two places, the job's context and the error. The
second is another matter: Chromium has a context of its own, and a call to a Chromium that
dies fails with that context's `context.Canceled`. `BrowserFails` lets it happen to any
call of the browser in a job that has one; `died` remembers the attempts it ended,
`ctxDone` those that really were cancelled. `Retry` follows every attempt alike: the
queue knows nothing of the event.

Pages and answers are values from small sets. What an answer has under the key of its
units is a list, nothing, or something else (`List`, `Nothing`, `Other`), and so is
`result`; the units are the only list of the answer that anything later reads.
`extracted`, `proven` and `given` are history for the properties. `PagesAssumption` gives
the pages and answers their types and says that a page shows a number once, as the code
keeps what it shows in a map by the number's normal form.

### NuExtract

`chunker.go` as functions on sequences of runes, of which one takes two bytes, and
`provider.go`'s repair as functions on sequences of JSON tokens. The loops over an answer
that look for the end of the object, for trailing commas and for what is left open each
keep a part of the state of one walk (`After`, what it knows behind each prefix); `Parse`
and `IsJSON` stand for `encoding/json`, with a stack of its own. The state machine is
`Extract`: `Split`, then for each chunk `Infer`, one strict `Retry`, `Accept` or `GiveUp`,
and `Finish`. The model answers any of `Outputs`: an object whole in a fence, with
trailing commas, or cut after any token. The texts of the chunks are dropped when they are
sent, because any answer may follow any chunk. Each loop of the chunker is an `Iterate`
over runes, lines, parts or blocks, nested as in the code. `Runes` may be any set that
holds the line end, the space and "#", and `Blocks` any texts of them. `Objects` may be
any set of objects with no field or one (`ObjectsAssumption`), of any value: fields are
merged one by one, and a list of objects or of lists is a value too. The reference
definitions are in the properties: the page's own blocks, and what the parser still
expects behind a truncated text.

### LibraryStore

One source URL: what is shared between two is only the database. A step is a statement, a
transaction or a call of the storage. `imp` follows an import through
`importExtractedUnits` and `saveChapterImages`, `del` a deletion of the media or of one
chapter's images through its statements and then file by file. `PutFails` leaves the file
it created; `DeleteFails` is an error or a client that disconnects; `Crash` ends all of
them. `raced` is the set of units that were imported while their images were being
deleted: for them the code promises nothing. `walk` is a client that follows the cursors.

### DbPool

Which calls hold a connection while they wait for another. Only `ListChapters` does; the
clients in `OneStatement` are all the others.

## 4. The runs

| Run | Question | Bounds |
|---|---|---|
| `JobQueueSafety` | Can two workers run a job, attempts be lost or a finished job change? Does the queue implement `JobLifecycle`? | 2 jobs, 2 workers, 1 cancel, 2 attempts, lease of 2 units, 2 stops, 1 failed statement |
| `JobQueueEnds` | Is every job settled, does a cancel free its worker, does a shutdown end? | 2 jobs, one of them hanging until its context ends, 2 workers, 1 cancel, 1 attempt, 1 stop, 1 failed statement |
| `CancelIsFinal` (violation) | Is a cancellation final? No: a Nack in progress overwrites it | 1 stop |
| `Challenges` | Is a challenge's outcome final, and what clients were told? Are sockets and verifications exclusive, does every wait end? | 1 token, 2 verifiers, 2 sockets |
| `EventHub` | Do replay and live events fit, does the end of the job arrive? | 2 publishers, 1 client, window 3, buffer 2, 5 events, 1 eviction |
| `ProfileSafety` | Is the profile directory used by one Chromium at a time, the lease truthful, a verified session reopened? | 2 login jobs, 1 verifier, 2 pages each, 2 logins |
| `ProfileEnds` | Does every job end and leave nothing behind? | 2 login jobs, 1 public job, 1 verifier, 1 page (and its reopening) each, no login |
| `ExtractRun` | Does each attempt end and say so once, read no page twice and no prompt, keep what pages prove? | 7 URLs, 3 documents, 6 answers, 2 attempts |
| `NuExtract` | Are chunks within limits and complete, answers repaired and merged without loss? | pages of up to 3 of 6 blocks, 5 limits, 2 contexts, 3 chunks, 7 objects and all their truncations |
| `BlocksKeptApart` (violation) | Do the blocks of a chunk stay apart? No: their separator is not written | as `NuExtract` |
| `LibraryStore` | Do rows name stored files, do cursors work under changes? | 2 units, 2 imports, 1 deleter, 1 image each, pages of 1, 2 media rows |
| `PoolNeverBlocks` (violation) | Can the connections run out for as long as clients wait? Yes, with five lists of chapters | 5 lists, 1 other client, 5 connections |

*Why the bounds are enough.* A job meets at most two actors at once that matter (its
runner and one that could take it over, a reporter and a canceller), so two workers and a
second job that keeps a worker busy show the races; two attempts are one retry and the
last try; a lease of two units has an age at which it is not yet stale; two stops are a
crash during recovery. `JobQueueEnds` has a single attempt, which two jobs of which one
hangs need to stay small enough: that a retry and its back-off end in a settled job too is
not in what it checks; what a retry may do to a job is in `JobQueueSafety`. (With a single
job that does not hang and `MaxAttempts = 2` the configuration has 9,139 states and
`EverySubmittedJobSettles` holds.) Calls for different tokens touch nothing in common but
the clean-up in `Create`, which looks at each token by itself; two verifiers and two
sockets on one token are the competition for it. A window of three and a buffer of two
overflow within five events. Two jobs on one profile are a holder and a waiter; two pages
show a lease that is given back and taken again, two logins an older and a newer cookie,
which is all a stale write needs. Without logins the cookies of `ProfileEnds` stay empty:
nothing it asks depends on them. The documents of `ExtractRun` hold a link written twice,
templates that tie, a better one against a more frequent one, and a unit at another's URL;
its answers hold no list, something else, or a list whose items lack numbers or URLs or
give one URL to two units, and chain to a new page, to a unit's, to one seen already, to a
relative URL or to none: every case of the merge, every exit of the page loop and every
exception of `ProvenUnitsKept` occurs. Its two attempts are one that is tried again, after
whatever end, and the last. The URLs are finitely many, which `EveryAttemptReturns`
depends on (section 7). Three blocks are a heading, a block that does not fit behind it
and one that carries the heading over; the limits make a block fit, be split between
lines, and be split inside a line at a rune of two bytes. The objects hold numbers, lists
in lists and strings with brackets, commas and escapes in them, which the repair must not
take for structure. Three chunks are the first, whose failure is fatal, and two whose
lists meet. In `LibraryStore` the second media row is the one that is created after a
deletion with the same URL, the second import one that runs beside the first or after it.

*Symmetry* is used in `JobQueueSafety`, `ProfileSafety`, `LibraryStore` and
`PoolNeverBlocks`, over jobs and workers, over login jobs, over units, imports and
deletions, and over lists; nothing in them singles one out and no liveness property is
checked there.

*Deadlock* is checked in the runs of the queue and in `Challenges`. It is not in
`EventHub`, where all events may be published and the client be done, nor in the
others, where all jobs, chunks, imports or requests end.

## 5. Fairness

- `JobQueue`: goroutines are scheduled and statements end (weak fairness of each
  worker's steps, of the watcher of a process that is up, of heartbeats in
  flight); handlers end, on their own or, the `Hanging` ones, with their context;
  the process is restarted; time passes (strong: the watchers' ticks disable
  `Tick` again and again for a moment). No fairness for clients, crashes, faults
  or signals.
- `Challenges`: the job's goroutine is scheduled and time passes. Nothing is
  assumed of clients, the page or the user.
- `EventHub`: a publisher's loop ends, a client whose connection broke comes back,
  and a stream between two breaks gets to write (strong). A client that never
  reconnects is promised nothing.
- `BrowserProfiles`: each call of a job returns. Navigate has 30 seconds, the
  solver 65, a challenge its ttl; Chromium's answers to a Snapshot have no limit
  in the code, so `EveryJobEnds` assumes that they come or fail. A blocked job is
  assumed to be let in only by a release, and nobody need cancel anything.
- `ExtractRun`: each call of the handler returns (what the modules above show of theirs;
  a challenge expires). Nothing is assumed of the user, who need not finish a
  challenge, or of the queue, which need not retry.

## 6. Proofs

What follows is proved for every number of jobs, workers, requests, tokens, sockets,
pages, logins, units, imports, deletions, connections, publishers, streams, texts, chunks,
answers and objects in them, every attempt limit, back-off, lease length, window, buffer
and page size, from the named assumptions on the constants alone; what a theorem assumes
beyond them is in its statement.

*JobQueue.* `OneRunner`, `RetryBudget` and `AttemptsAccounted` are not inductive.
`LeaseInv` adds: a held job is running, or cancelled, and in a process that is up
its lease is younger than stale because its age is bounded by the quiet time of
its holder or a heartbeat is under way (`HeldIsLeased`); the attempts Nack read
are still the row's (`NackReadsHold`); a leased job without runner is on the
account of `lost` (`OrphanAccounted`). `LeaseStep` shows that each step keeps it;
`LeaseCorrect`, `Budget` and `Accounting` read off the three properties.
`Finality` follows: Nack's unguarded write comes from a holder, and a held job is
neither succeeded nor failed. `Refinement` maps each step to a step of
`JobLifecycle` or to none (`LifecycleStep`), again from `LeaseInv`. All of it is
for a host that is not suspended, except `CancelUndone`, which needs no lease.

*Loops and lists.* The library's induction theorems take an operator as a parameter,
which the provers cannot instantiate; `FiltersProofs` states induction over sets instead.
From the least element of a set of numbers (`LeastNumber`) follow `NatInductionSet` and
`SeqInductionSet`: a set of numbers, or of lists, that holds the first one and with each
one the next holds all of them. `Recursion` says that a recursive function is defined
everywhere, and from it come the facts the other modules cite: `FilterPlaces` (what is
kept stands at increasing places and nothing is missing), `FilterAppend`, `FilterConcat`,
`IterateSteps` (the states the loop goes through), `IterateKeeps` (an invariant of the
step is one of the loop) and `IterateAppend` (one more element is one more step).

*Challenges.* `BookKept` relates an open challenge's status and flag to the
requests under way, its `done` channel to its status, and its outcome to what
clients were told; with the exclusion and outcome properties it is inductive
(`ChallengeInv`, `ChallengeStep`). `Exclusive` and `Verification` read off the two
exclusions.

*Event hub.* `WrittenOnce` and `NoGap` lean on each other's facts. `HubInv` is the types
(`Typed`), `NoGap`, the former for each open stream (`Apart`), and what makes an event new
when it is published (`Numbered`): no serial in use is ahead of those given out, no two
events of the history or of two publishers share one, and a stream that may start again
has an empty channel. `Publish` is harmless because its serial is new and the trimmed
window is the end of the old one (`RetainEnd`); `Connect` because what it replays is in
the history and what is still in flight goes to streams that were there before; `Send`
moves a serial from one set to another. `NothingTwice` and `NothingMissed` read off the
two properties.

*Browser profiles.* `OneBrowserAtATime` needs the lease: `LeaseInv` says that the
job that owes the release is the one inside Navigate ... CloseSession, that the
channel is full exactly then, and that Chromium runs only between the start and
the release. It is inductive with `TypeOK`, one lemma for each kind of step
(`AcquireLease`, `ReleaseLease`, `HoldingLease`, `SolverLease`,
`VerifierLease`); `ReleaseLease` is the interesting one, where the lease passes
on without being free. `NothingLeaks` follows from it, and `StepsExclude` maps
each step to one of `ExclusiveUse` or to none.

The last part of the module adds the cookies. `Reopening` is `ReopensVerified` under
`OneClient`: one verifying client, no public job. The cookie of the profile, the shared
one and every one a call still carries are then at least the one that was verified
(`Kept`), because whoever reads one of them may write it to another. The step that needs
the lease is `Resolves`: at that moment no job carries a cookie (`JobsCarryNothing`), and
what is shared is what the client captured (`Verifying`).

*Extraction.* `PagesOnce` and `PromptsKept` hold for any site and any answers: `PageInv`
says that what the model was given was visited, that the current page was not given to it
yet, and that nothing was before the login phase ended. `ExtractPage` is the step that
matters: a next page is a page not visited. On a site of finitely many URLs the loop then
ends, which is checked as `EveryAttemptReturns`; on any other it need not.

`TruthfulEnds` is `OneEndPerAttempt`. `EndInv` says of every attempt that it is running
and has told no end, or has returned and its one end is its last event and agrees with
what it returned and stored; `Returns` ties the attempts' results to where the handler is
and the open session and challenge to the places that close them (`EndStep`). An attempt
that failed before the save has told "cancelled" if and only if its context had been
cancelled or Chromium had died under it: a context that ends later, or that of another
attempt, does not count, because `ctxDone` and `died` name the attempts.

`UnitsKept` is `ProvenUnitsKept`, numbers and URLs. `KeptInv` is the property over every
unit proven so far, with two facts that make it inductive: a unit is stored under its
number with the page's URL or with one the model listed for the number, and whatever is
stored was proven or listed (`Gathered`, `Claimed`); so what takes a unit's URL is a unit
that somebody gave. The proof follows a page's links and routes through `discoverUnitURLs`
(the units it finds have distinct numbers, and enumerating them loses none),
`enrichExtractedUnitURLs` (each is added or is covered by an item of the answer; `Parsed`),
the three cases of the merge (`ExtractKeeps`) and the removal of duplicates, which keeps
the first item of each URL (`SaveKeeps`).

*Library.* `RowsHaveFiles` needs to know why nobody removes a file while it is about
to be named. `StoreInv` adds: what an import has saved for the present media is stored
(`SavedStored`); and a deletion that holds a key of the present media works on the
key's own unit, which no import saves, and whose image rows are either still those it
read or gone (`DeletionsApart`). A media deleted and created again has a new id, so
keys of an earlier one match nothing (`ImportsOwn`, `TypeOK`). `raced` is exactly what
the argument cannot exclude. One lemma per part: `TypedStep`, `OwnStep`, `StoredStep`,
`ApartStep`, `FilesStep`.

`DownloadsWalked` is the completeness of the cursor list. `Shown`, the part of `WalkInv`
about the downloads, says that what was shown is in falling order and above the cursor,
and holds every chapter above it that stayed listed; a chapter that appears meanwhile has
a newer id and cannot come between. `WalksMoveOn` needs no order at all: a query returns
what is below the cursor (`QueryBelow`), so the history cannot go in circles either.

*Extraction provider.* `LimitKept` is `LimitRespected`, for pages of any text.
`Splittable` is the invariant: an unsplit page has a limit of at least two bytes, and the
chunks of a split one fit. Each loop keeps its parts below the limit it is given
(`PartsFit`, `PiecesFit`, `AppendFits`, `BlockFits`, `ChunksFit`), and a heading is carried
over only where it leaves room. The hypothesis, that the configured limit is not 1, makes
room for the widest rune, which takes two bytes here (four in Go): a part holds at least
one rune, so with a narrower limit the code's "the hard limit is always respected" is not
so. A limit taken from the context is at least 768.

`TextKept` is `NoTextLost`, for any limit. `GathersTexts` and `GathersRunes` say that a
step of a loop adds its element's letters to a measure of the state; from them follows that
lines (`LinesLetters`), parts (`PartsLetters`), pieces (`PiecesLetters`) and blocks
(`BlocksLetters`) hold the letters of what they are cut from, exactly. The loop over the
blocks is only an inclusion, because headings are repeated: `Within` has the places at
which one text stands in another, and each part is appended behind everything that was
(`AppendSends`, `PartsSent`, `BlockSent`, `BlocksSent`). `WithinEmbeds` shows that the
greedy search of the property finds such places if there are any.

`RepairKept` is `RepairFaithful`, for any set of objects. What makes the repair right is
that its walk, which knows of brackets and quotes only, agrees with the parser for as long
as the text is JSON so far (`Agree`, `AgreeSoFar`): the same open brackets, in a string at
the same places. So a whole object ends where the walk says (`EndFound`) and has no comma
before a closing bracket (`AfterComma`, `StripObject`). A truncated one has no end
(`NoEnd`); closing what the walk left open parses exactly when the parser was behind a
value or in an open one that a quote ends (`ClosingWorks`, `ClosingFails`), and a comma it
ends in is dropped, which leaves the object cut one token earlier (`TrailingCut`,
`CommaDropped`). What is closed holds no comma the object has not, so it counts no more
items (`FewerCommas`, `CutField`). With a comma before each closing bracket,
`SpacedWell` says token by token that the walk is where the object's own is and that what
is stripped so far is the object so far.

`NothingLost` and `GapsTold` read off `MergeInv`: every chunk behind the present one has
given a field or is skipped, never the first (`Accounted`), and the merged list holds the
items that chunks gave in the order of chunk and item, unless the first gave a scalar
(`Merged`). `MergeInv` is a formula about the present chunk, so no fold is needed.

*DbPool.* `ListersWait` and `FewListersNeverBlock` are in `LibraryProofs`: only a
list of chapters waits for a second connection, so fewer lists than connections
leave one whose holder will return it. The bound is sharp: `PoolNeverBlocks` fails with
as many lists as connections.

*Only model-checked.* Liveness (settling, draining, cancelling, waiting, reaching the
client, ending, returning), which needs fairness and ENABLED; and the three violations.
Every invariant, every action property and the refinements of the passing runs have their
theorems.

## 7. What the checks say about the code

Three runs end in a violation and are listed as findings.

- `CancelIsFinal`: Nack reads the attempts and then writes the status without looking
  at it; a cancellation acknowledged between the two is undone, and the job runs again.
- `BlocksKeptApart`: the chunker counts the two characters that separate blocks but never
  writes them, so the last word of a block and the first of the next become one.
- `PoolNeverBlocks`: `ListChapters` queries the images of each chapter while the rows of
  its own query are open; five such requests hold all five connections and wait for a
  sixth, and every other user of the database waits behind them until one of the five
  clients gives up.

What the properties had to admit shows more limits, none of which the code excludes:

- a job that loses its process over and over runs beyond `max_attempts`: a stale lease is
  taken over without a look at the attempts (`AttemptsAccounted` counts those runs);
- a completion acknowledged just as the timer fires may still fail the job as expired:
  Wait picks any branch that is ready (`OutcomeMatchesAnswers` asks only that a job that
  goes on was completed);
- `ReopensVerified` is checked, and proved, for one verifying client and without public
  jobs, because it fails with more: a verification that outlives its session may store
  what it captured over a newer login, and so may the answer of a public page's solver;
- the page loop counts no pages: `EveryAttemptReturns` is about a site of finitely many
  URLs, and a model that makes up ever new values of `next_page_url` is followed until
  the job is cancelled;
- a job whose Chromium dies under a call tells its topic `cancelled`, with that status,
  although nobody cancelled it; the queue Nacks it and may run it again
  (`OneEndPerAttempt` allows the event for an attempt in `died`);
- two units at one URL become one, whichever comes first, because duplicates are told by
  their URLs (`ProvenUnitsKept` allows it for a unit whose URL another one holds);
- when the first answer has something else than a list under the key of the units, and
  its page proves none, the lists of all later pages are dropped without a warning;
- a page that asks for a login in a way the detector does not know passes for content if
  it is reopened after a captcha, or is what the requested URL redirects to: only the first
  look in the login phase compares its URL (`NoPromptExtracted` is about what the detector
  says);
- an event dropped by a full channel, overtaken by another publisher's or evicted with its
  topic may never reach a client: `NoGap` and `FinalReachesClient` say what holds besides;
- a scalar that only later chunks give is dropped by the merge, and a number or a string
  that a truncated answer breaks off is kept as far as it goes: `NoItemLost` is about
  lists, and `RepairFaithful` counts items;
- a configured content limit narrower than a rune is exceeded, by that rune
  (`LimitKept` excludes it);
- images deleted while their unit is imported may leave rows without files (`raced`).

Everything else holds as the code is written, including several things that look
fragile: the unguarded Nack never touches a finished job; the flag cleared by token never
frees another socket's slot; Publish's sends after the unlock neither repeat nor lose an
event; none of Navigate's error returns leaves the profile leased or Chromium behind; the
page loop reads no page twice, however the model chains them; the repair of a truncated
answer adds no item to it; and the history's list, continued by a column it is not
ordered by, may skip entries but never goes in circles.

## 8. Not modelled

The Valkey queue (another implementation of the queue's interface, an option); the
FlareSolverr manager (a child process, started once and watched); LM Studio, HTTP
plumbing, configuration, logging, migrations and S3: input and output without state of
the server's own. Of the library: collections, settings, presets, profiles and browser
history, one statement per request on rows nothing else reads. Of the content: how HTML
is cleaned into blocks, which of a page's images are the chapter's, an episode's video,
what a file holds, and Chromium itself.

In the modelled parts: priorities, payloads, idempotency keys (always fresh), the lease
token (written, never read), the debug handlers with their legacy subscriptions, SSE
comments, the frames and input events of the remote view, the user agent that travels
with the cookies. `FetchAsset` only reads the shared cookies.

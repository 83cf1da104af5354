# The avatar service in TLA+

This directory specifies `my-avatars-service`: an HTTP server that takes avatar
uploads, a worker that is meant to make thumbnails of them, and the database,
object store and message broker they share. The specifications are translated
from the Go code, model-checked with TLC on small instances, and their most
important properties are proved with TLAPS for instances of any size.

Paths below are those of the repository (`internal/...`, `cmd/...`).

## 1. Inventory

| Part | State | Operations | What is hard about it |
|---|---|---|---|
| Upload and deletion (`internal/service/avatar_service.go`, `internal/api/handler`) | the request in progress | `UploadAvatar`, `DeleteAvatar`, called by the handlers | three stores are written one after the other without a transaction; a crash, an error or a lost reply between any two; two replicas on one avatar |
| Reads (`internal/api/handler`) | none | `GetAvatar`, `GetUserAvatars`, `GetUserAvatar`, `GetAvatarMetadata` | they show whatever rows there are, those of failed uploads included |
| Postgres repository | table `avatars`, soft deletion | `Create`, `GetByID`, `GetByUserID`, `Update`, `Delete` | only some statements test `deleted_at`; `Update` writes back what was read before |
| In-memory repository | a map | the same | used with env `test` only; deletes for good where the table marks, and lists in any order |
| MinIO storage | objects of the bucket | `Save`, `GetObject`, `SaveFromBytes`, `Delete` (called by nobody) | the file exists before its row does |
| Publisher, RabbitMQ | one channel per process; exchange, queue `avatar.processing` | `PublishAvatarUploaded`, `PublishAvatarDeleted` | no reconnection; a nil publisher in an interface; transient messages; a key no queue is bound to |
| Worker (`internal/worker`) | the message being processed, unsettled deliveries | `Start`, `processImage`, `updateAvatarStatus` | redelivery after crashes and lost channels; a worker that works on without a channel; errors that are swallowed; the loop ends and the process stays |
| Rate limiter (`internal/api/middleware/rate_limit.go`) | visits by address, a mutex | `RateLimit` | the clock is read before the mutex is taken; the mutex is held during the handler |
| Metrics | gauge `avatar_storage_objects_total`, per process | `Inc`, `Dec` | counted in and out by different processes, under different conditions |
| Processes (`cmd/server`, `cmd/worker`) | where `main` is, the pool, the connections | start, exits, signal, graceful shutdown | all processes make the bucket at once; the server starts without RabbitMQ, the worker does not; tracer and server share one deadline; resources are closed under a request the deadline has cut |
| Configuration (`internal/config`) | the settings | `New`: defaults, JSON file, `.env`, environment, `Validate` | an error in the file is a warning; a variable set to nothing hides `.env` |
| Authentication (`internal/api/middleware/auth.go`, `internal/service/jwt.go`) | none | `JWTAuth`, `GetUserID` | two identities: the token's on upload and list, `X-User-ID`'s on deletion, which nobody compares |
| Probes (`k8s`, `helm`) | what the kubelet counts | `GET /health` | they go through the limiter, from one address |
| Logging, tracing, request metrics | nothing that is read back | | |

How they interact: a replica of the server calls MinIO, Postgres and RabbitMQ in
the order of the code; the worker consumes what the replicas publish, reads
MinIO and Postgres, writes thumbnails to the one and a status to the other. No
process calls another; everything goes through the three stores.

What makes each part correct:

* upload and deletion: a row that says `ready` has its file; what was answered
  201 stays; a deletion succeeds once; events come after commits; the whole does
  nothing that a simple catalogue would not. (That users delete their own avatars
  only is what the comments say and the code does not see to, see section 3);
* worker: no work is forgotten, nothing is `ready` without thumbnails, nothing
  comes back from deletion, every message is settled in the end;
* limiter: at most the limit in every window, bounded slices, an announced wait
  that suffices (the one in the body of the 429 does, the one in its header may be
  half a second short), every request answered;
* metrics: the gauge says how many avatars are stored (it does not, see
  `GaugeDrifts`);
* API: no answer but the listed ones, a refusal leaves no row, an upload is shown
  to others, and env `test` behaves as the deployed service does;
* processes: what is up has all it needs, the race for the bucket has no losers,
  a shutdown answers the requests it can and always ends.

## 2. The modules

| Module | Models |
|---|---|
| `AvatarStores` | what the processes share: `rows` (Postgres), `originals` and `thumbs` (MinIO), `queue` and `bound` (RabbitMQ), and the statements on them |
| `AvatarServer` | the replicas of `cmd/server`: requests, publisher, gauge, restarts |
| `AvatarWorker` | the processes of `cmd/worker` |
| `AvatarSystem` | the two composed over the stores, with the restart of the broker; the properties; the refinement mapping |
| `AvatarCatalogue` | the abstract specification: a catalogue of avatars and their files |
| `AvatarClaims` | what comments, documents and tests say and the code does not do |
| `WorkerAlone` | the worker against rows still to be processed, with fairness |
| `Processing` | the abstract specification of the worker: thumbnails, then the status, and work that lasts until both are done |
| `RateLimiter` | the middleware of one replica |
| `LimiterHeader` | its `Retry-After` header, in whole seconds |
| `SlidingWindow` | the abstract specification of the limiter: a log of every request served |
| `ProbedReplica` | `RateLimiter` under the probes of the Deployment |
| `Repositories` | the table and the map of env `test`, every operation applied to both |
| `AvatarApi` | all routes of `/api/v1` of one replica, with every answer, over `Repositories` |
| `Gallery` | the abstract specification of the API: avatars that come with a 201 and go with a 204 |
| `Configuration` | `config.New` as operators over what each source says |
| `ProcessLife` | both `main`s from the configuration to the exit, with requests in progress |
| `AvatarSystemProofs`, `AvatarWorkerProofs`, `WorkerAloneProofs`, `RateLimiterProofs`, `LimiterHeaderProofs`, `ProbedReplicaProofs`, `AvatarApiProofs`, `ProcessLifeProofs` | theorems |
| `MCSystem`, `MCWorker`, `MCLimiter`, `MCProbes`, `MCApi`, `MCLife` | instances for TLC |

Operators marked `Mutant:` in the modules are variants of the definition after
them with a plausible bug. No specification uses them: they are there to be
substituted for that definition, to see that the property they are paired with
in `PROJECT.json` notices.

### Server

A replica is a *sequential* process in the model. That is what the code makes of
it: the rate limiter is a global middleware and keeps its mutex until `c.Next`
returns (`rate_limit.go:31-32`, `:64`), so one handler runs at a time in each
replica. `RateLimiter` states this as `OneHandler` and it is proved. Deployments
run two replicas (`k8s/base/deployment-server.yaml:7`), and these interleave
freely.

`req[r].pc` is where a request is; each action is one call that leaves the
process, with what the code does up to the next one:

| Action | Code (`avatar_service.go` unless named) |
|---|---|
| `UploadStart` | the handler and the tests of size and type, `NewAvatar` (`:71`) |
| `UploadSave` | `storage.Save` (`:80`) |
| `UploadCreateFailed` | the error branch (`:81-86`) |
| `UploadCreate` | `repo.Create` and the metrics (`:92-103`) |
| `UploadPublish` | the event and the answer (`:105-122`) |
| `DeleteBegin` | the handler's read and test of the owner (`avatar_handlers.go:199-234`), with the two users of the request: the caller, who is the subject of the token, and the one named in `X-User-ID`, whom the test is about |
| `DeleteLoad`, `DeletePublish`, `DeleteRow` | `:132-140`, `:147-158`, `:160-176` |
| `ConnectionLost`, `Restart` | the life of the process |

Calls to Postgres and MinIO end `ok`, `error` (not applied) or `lost` (applied,
reply lost: the caller sees an error). A run chooses which of these, and which
failures of processes and connections, may happen (`Mishaps`) and how often
(`MaxMishaps`). A request that is refused before `NewAvatar`, and a GET, changes
nothing that is shared and has no action; `UserAvatar` is what a GET shows.

An avatar's id is its place in the order of `NewAvatar`. Ids are therefore in
the order of `created_at`, which takes the replicas' clocks to agree; only
`Latest`, the choice of `GetUserAvatar`, depends on it. Owners do not change,
file sizes and error texts are left out, an URL is whether there is one, and a
file is a `picture` (the worker can decode it), `opaque` (declared as an image,
not decodable by the worker: webp, for which no decoder is imported, or a PDF
declared as an image; `validateFileType` accepts both) or a `document` (declared
otherwise).

### Worker

`Deliver` is the broker's: the channel has no prefetch limit, so deliveries pile
up in `unacked[w]` while the worker handles one (`job[w]`). `Lookup` is the loop
body up to `processImage`; `Fetch`, `SaveThumb`, `Reload`, `WriteStatus` are the
calls of `processImage` and `updateAvatarStatus`. Every way of settling is
`Ack` (acknowledged, or rejected for good) or `Requeue`. When a channel is lost
the broker takes back what is unsettled, and the worker goes on with the file it
has in hand; the deliveries buffered in the client library are dropped by it.
`LoopEnds` and `StartFails` lead to a process that is up and does nothing, for
`main` waits for a signal only (`cmd/worker/main.go:76`). A message is
identified by its avatar: no avatar is published twice, so a set of messages
loses nothing. An `amqp091` frame that is written to a dying connection is the
case of a closed publisher: nothing is queued, 201 all the same.

`AvatarSystem` shows (and `WorkerHasNothingToDo` proves) that in the deployed
system the worker never gets past its test of the status: the server commits the
row as `ready` before it publishes. `processImage` is therefore checked in
`WorkerAlone`, whose initial rows are `uploading` (the status of `NewAvatar` and
the default of the column) or `ready` with their messages in the queue, and where
the server is reduced to the one statement of it that races with the worker, the
owner's deletion.

`Processing` is what is left of the worker for somebody who sees neither
messages nor crashes: a thumbnail is made, a status becomes `ready` once they all
are, an avatar is asked for until it is ready or deleted. The mapping takes the
avatars of the messages that are still held, by the broker or by a worker, for
those asked for. A worker that dies, a message that is delivered again, a file
that is fetched in vain are steps that change nothing there.

### Rate limiter

`Arrive` reads the clock, `Reject` and `LetThrough` take the mutex, purge and
decide, `Finish` is the deferred `Unlock`. A slice of times is the set of its
elements, each with its number in the order of appending: `valid[0]` is the
one with the least number, and appending needs no sequence. The history
`served` keeps every visit ever appended, so that the limit can be stated over
windows the code has forgotten. `RetryAfter` is the exact wait, which the body of
a 429 has; `LimiterHeader` adds the header, which has it in whole seconds
(`RetryAfterHeader`), with a tick that is a part of a second.

`SlidingWindow` has no slices, no purge and no mutex, but only that log, and
judges a request by what the log says of the window before it. A slot asks while
its request waits for the mutex. A request that a later one of the same address
has *overtaken* on the way to the mutex may be admitted beyond the limit: that is
all the purge takes from the limiter.

`ProbedReplica` puts the kubelet before it: a clock of five-second ticks, the two
probes at the times the manifest gives, one failure for each answer that is not
200, and a replica that is not sent requests after `FailureThreshold` of them
(Kubernetes' default, for the manifest sets none).

### The API of one replica

The limiter makes a request one step with regard to other requests of the same
replica, so `AvatarApi` has one action per route and is about answers, not
interleavings; what several replicas do to each other is in `AvatarSystem`.

| Action | Code |
|---|---|
| `TooMany` | 429 of the limiter, on any route |
| `UploadRefused`, `UploadUnread`, `Upload` | `JWTAuth`, the handler (`avatar_handlers.go:38-73`), the tests of `UploadAvatar` and `validateFileType`, and the rest of the service with the failing calls |
| `GetAvatar`, `GetAvatarMetadata`, `GetUserAvatar`, `GetUserAvatars` | the handlers of these names |
| `DeleteAvatar` | the handler and the service, with the two reads of the row, the event and the UPDATE |

Every action is applied to both implementations of `AvatarRepository`, and
`answer` has the answer with each. A header is what comes of it (`missing`,
`unprefixed`, `invalid`, ..., or a user), a file is what the tests tell of it, a
redirect is where it leads to. `fresh` and `faithful` are history: which upload
a user was last told 201 of, and whether table and map have been told the same
so far. A content type of more than 100 characters is where they differ without
a failure: the column refuses it, the map takes it. `files` is the bucket: an
upload saves its file before its row, and takes nothing back; storage and
database may fail in the same request.

`Gallery` is told from the answers alone: 201 adds an avatar that is ready, 204
takes one away for good, what is shown is there, a list shows all there is of a
user, and nothing else changes anything. The table implements it with the rows
that are not marked as deleted (`OfTable`), the map with its entries (`OfMap`).

### Processes and configuration

`ProcessLife` has one action per call of the two `main`s, with the order of the
calls (the worker connects to RabbitMQ before it makes the bucket, the server
after) and every `os.Exit`. `phase[p]` is where `main` is:

| Phase | Code |
|---|---|
| `config`, `pool`, `make`, `check`, `broker` | `config.New`, `postgres.New`, `MakeBucket` and `BucketExists` of `NewMinIOStorage`, `NewRabbitMQ` |
| `launched`, `serving`; `running` | the server before and after `signal.Notify` (`main.go:169-170`); the worker |
| `tracer`, `drain` | `tracerProvider.Shutdown` and `srv.Shutdown`, which get the same context (`main.go:175-187`) |
| `release`, `leave` | the deferred calls |

`ListenFails` is the goroutine of the listener: any error of `ListenAndServe`
that is not `ErrServerClosed`, one of `Accept` included, ends in `os.Exit(1)`
whatever is in progress, until `srv.Shutdown` has begun (`main.go:163-166`).

A request is an upload, which needs everything there is, call by call; only one
is past the limiter. `Expire` is the deadline of the shutdown. The configuration
is one that `Configuration` takes or refuses: there a value is known by its
source and by what `Validate` and `ParseDuration` can tell of its text. Flags
that cannot be parsed end the process in `flag.Parse`, for `flag.CommandLine` is
an `ExitOnError` set (`config.go:82`).

## 3. Runs

All runs are on instances bounded by `MaxUploads`, `MaxMishaps`, `MaxTime`,
`MaxFaults`, `MaxSignals`, and the sets of users, replicas, processes and slots
in their `.cfg`. Deadlock is checked in `Life`, where processes are started
again for ever; elsewhere the bounded models really come to an end (no upload is
left, the clock is at its bound, every message is settled). Symmetry is used for
safety only, over processes and users, which nothing tells apart.

| Run | Shows | Why the bounds are enough |
|---|---|---|
| `Deployed` | `StoredBeforeReady`, `AckedIsDurable`, `AtMostOneRemoval`, `EventAfterCommit`, `NothingToProcess`, `SystemInv`, and that `AvatarSystem` implements `AvatarCatalogue`, with errors, lost replies, restarts of replicas and of the broker, crashes of workers and broken connections | two replicas suffice for a race on one avatar, two avatars for a mix-up of ids, two users for one of owners; two workers pass messages to each other by crashing or losing channels; two mishaps hit both writes of an upload, or an upload and its deletion |
| `WorkerCrashes` | `SettledMeansDone`, `ReadyHasThumbs`, `NoResurrection`, and that `WorkerAlone` implements `Processing`, with crashes and lost channels | two workers on one message, two thumbnails to be half done, files of every kind, two breaks |
| `WorkerLive` | `DocumentsKept`, `EveryMessageSettled`, with failing calls | one message, a garbled one beside it, two workers of which one may be lost |
| `Limiter` | `RateBound`, `BodyWaitSuffices`, `HeaderHalfSecondShort`, `OneHandler`, `BoundedVisits`, `OverrunBounded`, `EveryRequestAnswered`, and that `RateLimiter` implements `SlidingWindow` | an address with one request in flight beside one with two; limit 2 and window 2 against a clock of 3: windows that overlap, purge and fill again, and a request with the older clock that comes after a purge; three ticks a second, so that the header rounds a wait down (to 0) and another up |
| `Api` | `OnlyListedCodes`, `SameAnswers`, `FreshIsShown`, `RefusalLeavesNoRow`, and that `AvatarApi` implements `Gallery` over either repository: every sequence of requests of two users | three avatars: an older, a newer and another user's; one request of which calls fail, at any place, of an upload storage and database both |
| `Life` | `HighestSourceWins`, `UpHasAll`, `ExitHasCause`, `ResourcesOutliveRequests`, `NoRequestCut`, `StopsInTheEnd`, `AllUpInTheEnd` | three processes race for the bucket; two requests, one inside and one waiting; two failures and two signals: a start or a listener that fails and one that is stopped; every deployment that is refused for its secret, one for its TTL, one for its flags, one that is accepted |

The remaining runs end in a counterexample; each is a finding:

| Run | Finding |
|---|---|
| `FilesStay` | files of deleted avatars stay in the bucket, though the comment and the test speak of their deletion: nothing consumes `avatar.deleted` |
| `AllSkipped` | no uploaded avatar is ever processed: it is `ready` before its event is published |
| `NilPublisher` | without RabbitMQ an upload panics after it has been stored, though the publisher is written not to: the nil pointer is inside a non-nil interface |
| `EmptyRedirect` | after a failed upload the user's avatar redirects to an empty location |
| `ProbesRefused` | a replica nobody uses is taken out of service: its probes come from one address, twelve a minute and later eighteen, and the limiter allows ten |
| `GaugeDrifts` | a failed upload is not counted in and its deletion is counted out: the "total number of avatar objects in storage" is -1. One replica, one failing call |

Four more disagreements were met while modelling, which have no run of their own.
The models have what the code does, and no property claims the contrary:

* A deletion compares the owner with the user of `X-User-ID`
  (`avatar_handlers.go:207`, `:231`), and nobody compares that user with the
  subject of the token (`auth.go:38`), though the handler's comment (`:188`) says
  that one can delete one's own avatars only. `DeleteBegin` has both users,
  `caller` and `named`.
* 413 is documented for a file that is too large (`avatar_handlers.go:36`,
  `docs.go:112`); the handler answers 400, like every error of the service, and
  its test expects that.
* A declared content type of more than 100 characters passes the tests and is
  refused by the column: 400, with the file in the bucket (`avatar_service.go:80`,
  `:92`) and no row that names it, although no call failed. `files` of
  `AvatarApi` keeps it.
* The header `Retry-After` is rounded to whole seconds (`rate_limit.go:51`), down
  to 0 in the last half second; a client that obeys it may be refused again. The
  body of the same answer has the exact wait.

### Conditions of the properties that hold

* `StoredBeforeReady` and `AckedIsDurable` are about rows and files. That an
  event arrives is asked by no property: the code accepts that one is lost, with
  a warning in the log or without one.
* `Consistent`, the part of `SystemInv` about requests in progress, says nothing
  of who asked for a deletion.
* `SettledMeansDone` is about runs in which no call fails; with failing calls it
  holds of documents (`DocumentsKept`) and fails for pictures: an image whose
  status cannot be written is acknowledged all the same (`worker.go:205`) and
  stays `uploading`. The code logs this and promises nothing else, so it is not
  listed as a finding.
* `ReadyHasThumbs` is about runs in which no call fails: a thumbnail that cannot
  be saved is skipped by intention.
* `ImplementsProcessing` is about runs in which no call fails, for the same two
  reasons; crashes, lost channels and deletions at any moment are in.
* `RateBound` needs one request of an address in flight at a time; what holds
  without that is `OverrunBounded`: the clock is read before the mutex is taken,
  and one that read it before another purged the slice is counted against what
  the purge has left. `ImplementsSlidingWindow` names that request: one that was
  overtaken. Of all others `SlidingWindow` decides as the code does.
* `BodyWaitSuffices` is about the wait in the body of a 429. Of the one in the
  header `HeaderHalfSecondShort` says what is so: half a second more is enough.
* `OnlyListedCodes` says that no other code is given than `docs.go` lists, and
  names what `docs.go` leaves out: 429 on every route, the 401 of the list, and
  every 500. It says nothing of codes that are listed and never given; 413 is
  one, as said above.
* `SameAnswers` holds while `faithful`, that is, until a call fails or the column
  refuses a content type, and not of which avatar of a user comes first: the map
  lists in any order.
* `TableImplementsGallery` and `MapImplementsGallery` let a 400 or 500 of an
  upload leave an avatar behind (the row is stored, its status is not, or its
  reply is lost), and a 500 of a deletion remove one (its reply is lost). A name
  that was given is not given again, even for an upload that came to nothing.
* `FreshIsShown` is about one replica; with several it takes their clocks to
  agree.
* `RefusalLeavesNoRow` is about steps in which no call fails, of a server that has
  its publisher: without one the row of an upload is there before the panic. Of
  the bucket it speaks only up to `NewAvatar`: the file of an upload that is
  refused after that, by the column, stays.
* `NoRequestCut` has three exceptions, all real: the deadline, a signal between
  the start of the listener and `signal.Notify`, and an error of the listener
  itself, whose goroutine exits under the requests in progress.
  `ResourcesOutliveRequests` has the first only: after a forced `Shutdown` the
  deferred calls close channel and pool under requests that still run, with
  "exited gracefully" in the log.
* `ExitHasCause` lets a process exit for an earlier failure of its own, which is
  why `MakeBucket` is not fatal by itself: the `BucketExists` after it decides.
* `HighestSourceWins` has one exception: a variable set to nothing counts as set
  for `godotenv` and as unset for `overwriteFromEnv`, and so hides the `.env`
  file.
* `EveryMessageSettled` needs a worker that keeps its channel, and files that
  can be decoded: a message about an `opaque` file is requeued for ever.

### Fairness

* `WorkerAlone`: weak fairness of each call of a running worker (the loop is a
  plain Go loop), of the broker's delivery of a queued message to some open
  channel, and of starting a process that is down (the orchestrator does).
  Strong fairness of taking a given message from the deliveries: while the
  worker is busy with others this is not enabled, but the client library hands
  deliveries out in order, so each has its turn. No fairness makes a process
  whose loop has ended consume again: nothing in the code does.
* `RateLimiter`: strong fairness of getting the mutex, because Go's mutexes hand
  over to the longest waiter once it has waited for a millisecond; weak fairness
  of a handler's end, an assumption on the handler (the server sets no
  timeouts).
* `ProcessLife`: weak fairness of each process's `main` and of the calls of a
  handler (sequential Go code), of the deadline (a timer), and of the start of a
  process that is down: `restart: unless-stopped` in `docker-compose.yml`, a
  Deployment in `k8s`. None for failures, signals or new requests.
  `StopsInTheEnd` rests on the deadline and, of the handlers, on an INSERT only:
  `dbPool.Close` waits for a connection that is in use. `AllUpInTheEnd` rests on the bounds
  on failures and signals, that is, on their coming to an end.

The specifications of the other runs have no fairness, and only safety is
claimed of them.

## 4. Proofs

`AvatarSystemProofs` is about `AvatarSystem` with any number of uploads, users,
replicas and workers, any set of failures and any number of them. It assumes
only what the modules assume of their constants: the kinds of files, that the
two bounds are natural numbers, and that a publisher starts `nil` or `open`.

1. `TypeCorrect`: `TypeOK` is inductive.
2. `Invariance`: `SystemInv` is inductive relative to `TypeOK`. The properties
   are not inductive by themselves: `StoredBeforeReady` needs that an upload about
   to write its row has its file stored, and that nothing else writes that row
   meanwhile; `EventAfterCommit` that a request about to publish has committed;
   `AtMostOneRemoval` that what has been counted as removed is marked. These are
   `RequestsConsistent`, `OwnIds` and `RemovedIsDeleted`. `NothingToProcess` and
   `EventAfterCommit` hold each other up: a worker that finds every row of its
   messages ready writes no status, and a system in which no worker writes leaves
   the rows ready. The proof has a step for each action; lemmas (`StoresKept`,
   `RequestsKept`, `RemovalsKept`, `OwnIdsKept`, `NothingWritten`) say once what
   most actions leave alone.
3. `FilesAreStored`, `UploadsAreDurable`, `RemovedOnce`, `EventsFollowCommits`,
   `WorkerHasNothingToDo`: the properties of the runs, from the invariant.
4. `CatalogueImplemented`: by the lemma `Effects`, a step
   changes the table and the bucket in one of four ways, each of which is a step
   of the catalogue or none.

`RateLimiterProofs` is about `RateLimiter` with any slots, addresses, limit,
window and clock bound. `SlicesAreBounded` and `OneAtATime` hold without
condition. `RateIsBounded` is about each address with one request in flight,
whatever the others do, and rests on `OrderIsKept`: its visits are appended in the
order of their clocks, and what a purge has forgotten is older than the window of
every request still to come. So of a window that gets a new visit the slice has
everything, and the code's test counts all of it. `OverrunIsBounded` takes
finitely many requests in flight. Its invariant has two cases (`WindowCounted`):
until a request from after a window has purged the slice, the slice has all that
was served in that window; from then on only those can be added to it that were
waiting before, and the one that purged is none of them. `WaitIsLongEnough`, of
the exact wait that the body of a 429 has, needs
that `valid[0]` exists, by well-foundedness of the numbering, and that taking it
out of a slice of at most the limit leaves room. `NothingIsMissed` and
`SlidingWindowImplemented` hold of any number of requests in flight. A visit is
forgotten only when one is served that is a window younger
(`ForgottenForGood`), so a request that misses it is either out of its window or
was overtaken; for one that was not, the slice after the purge *is* the window of
the log, and both decide alike.

`LimiterHeaderProofs` has `HeaderIsNearlyEnough`, for any length of a second in
ticks: rounding to the nearest second takes half a second at most from the wait
(`RoundedNearly`), and a request made later than the exact wait finds no less
room than one made after it (`LaterIsEmptier`).

`ProbedReplicaProofs` is about `ProbedReplica` with any limit, window and clock
bound, and says where the finding of `ProbesRefused` ends. A probed replica is a
limiter, so that everything above holds of it (`LimiterStill`). Under the
hypothesis `Affordable`, that no window has more probes than the limit, no probe
is refused and `ReadyForTraffic` holds (`ReadyIfAffordable`): the invariant gives
every visit of the node the probe it was (`Explains`), so the visits of a window
and the probe in progress are as many probes of that window. `EighteenSuffice`
counts them for the periods of the manifest: eighteen a minute, where the router
allows ten.

`AvatarWorkerProofs` has the typing lemmas of the worker, which two modules use.
`WorkerAloneProofs` is about `WorkerAlone` with any rows, workers, sizes and
failures. `MessagesAreTruthful` (a message says of a file what its row says) is
what the rest stands on; the lemma `HeldKept` says that a step lets go of a
message only if it is done with, garbled, or, not being a document's, had a call
that failed.
From it follow `DocumentsAreKept` and, under the hypothesis `CallsSucceed`
(calls do not fail and replies are not lost, while workers may crash and
channels break), `WorkIsKept`. `ThumbsComeFirst` strengthens by `ThumbsSaved`:
what the job of a worker has no longer to do is in the bucket.
`NothingComesBack` holds whatever fails. `ProcessingImplemented` brings these
together, under `CallsSucceed`: its invariant adds that a job is about a row that
is there and of the kind the message says (`RowsThere`, `JobsSound`), for
otherwise writing a status could finish an avatar nobody can decode. Every step
of a worker either lets go of no message, or of one that is done (`WorkSettled`),
or finishes an avatar and lets go of its message in one
(`WriteStatusFinishes`).

`AvatarApiProofs` is about `AvatarApi` with any users, uploads and failing
calls. The invariant is `TypeOK`, `StoresInv` and `AnswersOK`. `StoresInv` says
of the stores that nothing has a row before it is made (`Unmade`), that table
and map agree while they were told the same (`Mirrored`), and that an upload
answered 201 comes first (`FreshFirst`); a lemma for each of the two actions
that write shows it kept. `AnswersOK` says that the last answer is documented
and that the two repositories agree on it; a lemma for each route shows that.
For the default avatar the two must agree on whether a user has any: the newest
exists when there is one, by `Greatest`, for ids are bounded. `TableIsGallery` and
`MapIsGallery` share one argument: `Moves` says what a request may do to a
collection given its answer, a lemma for each route shows that both repositories
move so, from the same reading of the same code, and the two refinements only
read `Moves` as steps of `Gallery`.

`ProcessLifeProofs` is about `ProcessLife` with any processes, slots,
deployments and bounds. `LifeInv` says of each process what its `main` has
behind it in each phase (`Has`), that channel and pool are closed in the
deferred calls only (`ClosedLast`), and that there are requests only while it
listens or drains, or after the deadline (`RequestsInTime`). `UpIsComplete` and
`ResourcesAreKept` follow from it; `NoRequestIsCut`, with its three exceptions,
and `ExitsExplained` with the lemma `Exits`, which lists the steps that end a
process. `SettingsAreHeard`
is a fact about the operators of `Configuration`, for any settings.

Only model-checked: everything under fairness (`EveryMessageSettled`,
`EveryRequestAnswered`, `StopsInTheEnd`, `AllUpInTheEnd`), which is out of the
reach of the prover. Every invariant, every action property and every refinement
that a run checks is a theorem. The runs that end in a counterexample have
nothing to prove.

## 5. Not modelled

* Logging, tracing and request metrics: output that nothing reads back. Of the
  tracer only the time its shutdown takes matters, and that is in `ProcessLife`.
  Of the counters: a request the limiter refuses is counted twice, by it and by
  the metrics middleware, and one that panics not at all; a property would
  restate the code.
* The static web page, Swagger, the mocks, `TestToken`.
* `Update` of the in-memory repository: only the worker calls it, and shares no
  memory with a server. `Storage.Delete`: nothing calls it.
* What the kubelet does to a replica it finds dead: a restart, after which the
  limiter counts from nothing and everything `ProbesRefused` shows happens
  again.
* Signing and parsing of tokens, decoding and scaling of images, the client
  libraries: what the code makes of their results is modelled, not they
  themselves.
* Deadlines as time: the two minutes of `processImage`, and those of single
  calls, are a call that fails; the deadline of the shutdown passes when it
  passes.

## 6. Plan

Done: every component of the inventory but those of section 5, the composition of
server, worker and stores with its refinement of the catalogue, the limiter with
and without the probes, the API against its documents, the life of the processes,
abstract specifications of the catalogue, the worker, the limiter and the API
with their refinements, proofs of every safety property, and the limit the probes
would need. Left:

1. `ProcessLife` with requests that read, and a worker with a file in hand.
2. A second replica in `AvatarApi`, with clocks that disagree.

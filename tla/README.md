# A verification project for beast-examples

`beast_server` (`src/src/main.cpp`) is a small HTTP server on Boost.Beast:
sessions with pipelining and a timer, a WebSocket upgrade, a cache that gathers
posted pictures into previews, a bounded list of previews that clients poll, a
mock of a sampling service, and a small client library. This directory holds TLA+ specifications of its
parts, TLC configurations that check them on small instances, and theorems about
them that TLAPS checks for every value of the constants. `PROJECT.json` lists
components, runs, hazards and theorems, and maps every definition to the source
lines it stands for.

All paths below are relative to the repository's root, `src/src/...` being the
source directory of the server.

## 1. The system

### Components

| Component | State | Operations | Interacts with |
|---|---|---|---|
| HTTP session (`HttpSession.*`) | socket, parser of the next request, queue of responses, timer | `run`, `doRead`, `onTimer`, `onRead`, `onWrite`, `doClose`; `Queue::operator()`, `Queue::onWrite` | made by the listener; gives requests to the router's handler and the socket to a WebSocket session |
| WebSocket session (`WebsocketSession.*`) | stream, timer, ping state, queue of messages, worker thread | `doAccept`, `onAccept`, `onTimer`, `activity`, `onPing`, `onControlCallback`, `doRead`, `onRead`, `processProc` | made by the HTTP session on an upgrade |
| Picture cache (`PictureCache.*`) | the latest face and the lines of bodies of every object | `addPicture` = `cleanup`, add, `process` | called by the POST handler; calls `createPreview` |
| Preview handler (`PicturePreviewHandler.*`) | `seq`, `ids`, `pictures` | `createPreview`, `listPreview`, `visitPreview` | called by the picture cache and by two routes |
| Sampling service (`main.cpp:25-206, 222-313`) | samplings, next ids, a thread for each sampling | `start`, `stop`, `isRunning`, `getStatus`, `generateSnap`, `SamplingBlock::run` | three routes |
| Listener (`HttpListener.*`) | acceptor, socket | constructor, `run`, `doAccept`, `onAccept` | makes HTTP sessions |
| Router, JSON and static handlers (`HttpUriRouter.*`, `JsonApiRequestHandler.*`, `StaticRequestHandler.*`, `Utils.*`) | the list of routes, fixed at start-up | `resolve`, `handleRequest` | between a session and the services |
| Posted pictures (`PostPicture.*`) | a picture and its bytes | `to_json`, `from_json`, `createPicture`, `freePicture` | codec of server and client |
| Clients (`HttpClient.*`, `democlient.*`, `testclient.c`) | a connection | `post`, `postPictures` | another process |
| Start-up (`main.cpp`) | threads of the `io_context` | registers routes, runs, stops on a signal | all of the above |

The vendored libraries under `src/third-part`, the test of the codec under
`src/src/testing` and the build file are listed in `PROJECT.json` and are not
modelled.

### How they interact

All handlers run on the threads of one `io_context` (`main.cpp:418-438`): as
many as there are processors. A session's handlers are bound to a strand, so
that one session's handlers never overlap, while two sessions' do. The services
behind the router (picture cache, preview handler, sampling service) are shared
by all sessions; each has a mutex of its own, and several of their operations
take it more than once, or leave it out. Two kinds of threads run outside the
`io_context`: the loop of a sampling and the worker of a WebSocket session.

### What is hard

- **Completion order.** A session has up to three operations outstanding (read,
  write, timer wait). A completed operation whose handler has not run is beyond
  the reach of a cancellation; a timer that fires as the deadline moves must do
  nothing.
- **Backpressure.** Reading pauses at 16 responses and must resume exactly when
  one is written.
- **Upgrade under pipelining.** The socket may move away with responses queued.
- **Several critical sections in one operation.** `addPicture` takes the mutex
  three times and creates the preview outside it; `createPreview` increments
  `seq` outside it; the start handler tests and starts in two sections.
- **Bounded collections.** List and map of previews must lose the same entry;
  clients poll with ids that have been evicted since.
- **Threads that are joined or detached.** `stop` joins a loop with a mutex held;
  the WebSocket worker waits on a condition variable without looking again; main
  joins the threads of the `io_context`, unless an exception comes first.
- **A chain without a strand.** Every accept starts the next one, on whatever
  thread it completes, and all of them use one socket.
- **Agreements by hand.** The URLs in a listing, the regular expressions of the
  routes, the order of the routes and the mask of a preview are written in four
  places that must agree; encoder and decoder of a picture round differently.
- **Connections that break.** A client whose connection breaks cannot tell
  whether its picture has been taken.

`PROJECT.json` lists these as hazards at the line where they bite, each with the
properties that would notice it going wrong.

## 2. Modules

| Module | What it is |
|---|---|
| `ResponsePipeline` | abstract: what one connection promises its client |
| `HttpSession` | one HTTP connection; implements `ResponsePipeline` |
| `WebsocketSession` | one WebSocket connection with its worker thread |
| `PictureCache`, `MCPictureCache` | the gathering of pictures; symmetry for TLC |
| `PicturePreviewHandler` | the list of previews and the clients polling it |
| `PreviewFeed` | abstract: what the preview service promises those who post and poll |
| `PreviewService` | `PictureCache` and `PicturePreviewHandler` composed; implements `PreviewFeed` |
| `PreviewPictures` | the contents of one preview, its URLs and its mask, as operators |
| `RequestDispatch` | from a request to the status of its response, as operators |
| `PostPicture` | the codec of a posted picture, as operators |
| `ApiClients`, `MCApiClients` | clients that list, visit and post, composed of the three above; a small instance |
| `SamplingMock` | the sampling service |
| `HttpListener` | the chain of accepts, main and its threads |
| `HttpSessionProofs`, `WebsocketSessionProofs`, `PictureCacheProofs`, `PicturePreviewProofs`, `PreviewServiceProofs`, `SamplingMockProofs`, `HttpListenerProofs`, `ApiClientsProofs` | the theorems |

In each module the names of actions and variables are those of the code where
possible. A block of "plausible errors" near the top of a module holds wrong
versions of single definitions; they are not part of the specification, and are
used to show that every checked property notices some error in the code.

### HttpSession

A handler is one action, with everything it calls: `OnReadRequest` is `onRead`
with the router's handler, the queue's `operator()`, the start of the write and
the next `doRead`. `reading`, `writing` and `wait` hold the state of the three
asynchronous operations; the value stays once the operation has completed until
the handler runs, and `Cancelled` leaves such a value alone. The timer's
`expiry` is relative to now; `MinTime` and `MaxTime` stand for the two extreme
time points that the code gives a meaning. `ReadCompletes`, `WriteSucceeds`,
`WriteFails`, `TimerFires` and `Tick` are the environment. The contents of a
response are reduced to its number and to whether it ends the connection.

The refinement of `ResponsePipeline` maps a request that has been handled to an
accepted one and the responses written to those on the wire.

### WebsocketSession

The strand's handlers as above, plus the worker with a step for every point at
which it tests the stream, tests the queue, waits or takes a message. The wait
on the condition variable may wake spuriously, which `spurious` records; taking a
message from an empty list is undefined in the code and leads to the worker
state `"undefined"`, and `PopsOnlyMessages` says that nothing else leads there. `ws.is_open()` is read by the worker without
synchronisation, which is modelled as a read before or after the change. The
first `onTimer` of `doAccept` runs in the HTTP session's strand: its wait is the
one that the deadline set next cancels, so `DoAccept` leaves the wait aborted.

### PictureCache

`addPicture` is a sequence of steps of a thread: `Post` (the body is parsed),
`Cleanup`, adding (`AddFace`, `AddBody`, `AddInvalid`), `ProcessNone` or
`ProcessReady`, and `Create`. What one critical section does is one action. The
order in which `process` visits the objects (an unordered map) and the cameras
that are long enough is nondeterministic. The test in `process` that decides
whether an object's pictures are removed looks at all that has been taken so
far, not at that object's (`PictureCache.cpp:132`); `Erased` does the same.

### PicturePreviewHandler

A creator goes through `Call`, `LoadSeq`, `StoreSeq` (the unsynchronised `++seq`),
`Name` (a random id, or one made of `seq` if the generator throws) and `Insert`
(the critical section with the eviction). `Poll` is a client's request with the
newest id that it has received. The history variables `fallback` and `overlap`
record whether the generator has ever failed and whether two creators have ever
been at work at once: `UniqueNames` (not both) is the condition on which the code
keeps ids apart, and the properties that need it say so.

### SamplingMock

Handlers of the three routes go through one step per critical section; a block's
loop has the steps `Begin`, `Test` and `Work`. `stop` clears `running` and then
joins with the mutex held, so that all other handlers wait (`samplingMutex`).
`running` is a plain `bool`, set again by `run()` when the thread begins:
`stopped = "early"` marks a stop that this undoes. `rival` records that another
handler had passed the test for a running sampling when this one was started.
The handler of the status route converts the target without its first slash,
ignores that the conversion fails, and goes by what it leaves in `sampleId`:
`Converted`, which is Boost's, not the repository's, is the number at the end.
`Progress` is `progress()`, in the integers: `elapsed * 100` is taken to fit an
`int`, which it does for as long as a sampling runs less than eight months.

### PreviewService and PreviewFeed

The state is that of the two components, the steps are theirs, and they are
joined where one calls the other: `CallMaker` is at once the last step of
`addPicture` (`Cache!Create`) and the first of `createPreview` (`Maker!Call`), and
a thread inside `createPreview` takes no other request. `PreviewFeed` knows
neither threads nor caches nor ids: pictures arrive, wait, may be dropped, are
made into a preview, which is shown, and a client that polls is given what is
new, or the newest of that. The refinement maps to `waiting` the pictures in the
two caches, to `made` the previews that a thread carries (between `process` and
the insertion into the list), to `shown` the history of insertions, and to `seen`
what each client's listings have held. The random generator is taken to work
here; what happens when it does not is the business of `PicturePreviewHandler`.

### PreviewPictures, RequestDispatch, PostPicture and ApiClients

The first three have no state: the code they model has none after start-up. A
target is its segments and its query, a picture's data its preview and place. A
regular expression is a predicate on targets (`Matches`), and `Resolve` takes the
first route that matches. `Outcomes` lists, for each JSON route, what its
function may do, and `JsonAnswer` what becomes of that; `PictureAnswer` is
`visitPreview`. `PostPicture` regroups bits as Boost's iterators do (external
code), rounding up when it encodes and down when it decodes, with the equal signs
decoded as zeros; the number that some bits make is written as the sum of its
terms, at most the eight of a byte.

`ApiClients` puts them to use: `ListPreviews` records the URLs that clients have
been given, with the data behind them, while `MakePreview` adds and evicts;
`PostPictures`, `Connect`, `Write`, `Read` and `Throw` are the client of
`democlient.cpp`, any call of which may throw, and `Handle` is the server's side
of its connections. `sent` are the pictures of the calls so far, of which the last
is in progress (`phase`), and `requests` those that are written and not handled:
a request survives the call that has written it, and may be handled after that
has returned an error, even during a later call or after it. A response reaches
only the call whose request it answers, and only if that call still reads.

### HttpListener

`main` is where main's thread is before and after `io_context::run`; `at` holds
the handler that each thread of the `io_context` is in, and `ready` the handlers
that wait for a thread, in order. `AcceptFails` is any error of an accept;
`OnAcceptThrows` is the constructor of a session that asks a peer which is gone
for its address; `StartFails` is `reserve` with no processors reported, or the
constructor of a thread. An exception in main's `try` block destroys the vector of
runners: that ends the process if there are any (`ThrownInMain`), as does an
exception in a runner. Whatever sessions do is one kind of handler, `"session"`.

## 3. What the runs check

Every run is listed in `PROJECT.json` with its properties; all are exhaustive.
The inductive invariants that the runs check (`SessionInv`, `CacheInv`,
`PreviewInv`, `SamplingInv`) hold the module's type invariant, `TypeOK`, as their
first part, and several of the properties proved from them (`Backpressure`,
`TimerGuards`, `UpgradeIsFinal`, `NoLostNotification`, `IdsAreRecent`,
`NoOrphans`, `NoneLeftReady`, `NoPictureTwice`) as conjuncts or consequences.

| Run | Instance | Shows |
|---|---|---|
| `http_session` | Limit 3, Timeout 2, 7 requests | the inductive invariant, no lost wakeup, no early timeout, refinement of `ResponsePipeline`; the connection is let go of |
| `previews` | 2 creators, 1 client, limits 3 and 2, 4 previews | where ids are unique, list and map agree and a client is given all that is new, once; where they are not, nothing is orphaned; the inductive invariant; a polling client catches up |
| `cache_threads` | 2 threads, 2 objects, 5 pictures, clock | the inductive invariant, with no picture taken twice; every loss of a picture has a reason and is of an object that it may be of; what is ready is shown |
| `cache_lines` | 1 thread, 2 cameras, 2 objects, 7 pictures | every preview is well formed and shows one object, also with two long lines |
| `sampling` | 2 handlers, 2 blocks | the inductive invariant; two samplings at a time only if both were asked for before the first began; snaps, limits, prompt stop; a finished sampling is complete and stays so; every request is answered |
| `sampling_two_starts` | 2 handlers | *violation*: two samplings run |
| `websocket` | Timeout 2, 4 frames, spurious wakeups | the queue is not overrun, no early close, the inductive invariant; the strand's work ends, messages are taken, errors end the worker |
| `preview_service` | 2 threads, 1 object, 1 client, 5 pictures, 1 tick, limits 2 and 2 | refinement of `PreviewFeed`; no picture is told twice; what is ready reaches the client |
| `api` | 4 previews of 22 or 3 views, limits 2 and 1 | listed URLs lead to their pictures or nowhere; mask and URLs agree; no target has two routes |
| `posts` | 2 calls with pictures of up to 3 bytes, for two cameras, one of them unknown | what is posted arrives as sent, once at most, also when it is handled late; lost without an error only if refused |
| `client_result` | 1 byte, no previews | *violation*: `postPictures` returns 0 for a refused picture |
| `listener` | 0 to 3 processors, 3 connections, 2 failed accepts | one chain of accepts, main returns alone; a signal ends the process, connections are taken |

### Bounds

- Limits of the code (16 responses, 30 previews, listings of 10, 6 pictures, 4
  cameras, 30 snaps) are constants, given small values that differ from each
  other where the code compares them (`ReturnLimit` 2 below `CacheLimit` 3). The
  theorems do not depend on them.
- `MaxRequests` 7 with `Limit` 3 fills the queue, drains it and fills it again.
  `MaxPreviews` 4 evicts once, and lets two threads race twice for `seq`.
  `MaxPictures` 5 with `Needed` 2 and one camera completes an object (a face and
  two bodies) and leaves the other without one of its pictures, while two threads
  are at it; `MaxPictures` 7 with one thread and two cameras completes an
  object, with one long line or with two, beside another that lacks one picture.
- Time advances in ticks with `Timeout` 2, so that a deadline can be missed,
  met and moved half way. `quiet` saturates where no property distinguishes
  greater values.
- `MaxSnaps` and `MaxSamplings` end the sampling runs; `Exhausted` marks states
  that stop only because a bound is used up. `SnapCounts` 1 and 3 with `SnapsKept` 2
  and `Timeouts` 3 end a sampling by its snaps, or, as the list never holds as many
  as it asks for, by its timeout. `MaxFrames` bounds what the peer
  sends.
- `preview_service`: with `Needed` 1 and one camera a face and a picture of a body
  make a preview, so that 5 pictures make two, which the threads may carry at the
  same time and a listing (2) returns at once; pictures left over expire when the
  tick has passed. More than the limits hold is left to `previews` (which
  evicts and cuts) and to the proof, which is for any limits.
- `api`: 22 views are two blocks, the most that make indexes of two digits; 3
  views are fewer than there are snaps; 4 previews evict twice.
- `posts`: two calls are enough for a request to be handled during a later call,
  and after it. 0 to 3 bytes are all the remainders that
  base64 distinguishes, with bytes of all zeros and of mixed bits.
- `listener`: three threads are main and two runners, so that an exception finds
  none, one or two others; two failed accepts fail before and after a success,
  or twice in a row. `MaxReady` bounds only the handlers of sessions.
- Symmetry (of threads and objects) is used in `cache_lines` only, which checks
  invariants only.

### Fairness

`main.cpp:418-438` runs the `io_context` on several threads until a signal:
handlers that are ready do run, hence weak fairness of a session's handlers, of
a thread's steps inside the services and of the threads of samplings and
workers. Time passes and an expired timer fires. Nothing is assumed of a peer:
reads and writes may stay outstanding for ever, except that closing the socket
ends what is outstanding on it. `ClientsCatchUp` is about clients that keep
polling, and so assumes that they do. `ReadyIsShown` excepts behaviours in which
the clock passes `TimeLimit`: no fairness makes it do so. `RequestsAnswered` is
checked with limits that a sampling can reach: without
a limit a stop that `run()` undoes (`main.cpp:85`) would hold the mutex for ever.
`SignalEnds` and `ConnectionsTaken` assume that main's thread and every other
thread go on (their handlers return, and one that is between handlers takes the
next: the queue is served in order) and that the `io_context` notices a
connection when it polls; failed accepts are bounded by `MaxErrors`, so that a
listener which fails for ever and spins is not excluded by `ConnectionsTaken`, it
is outside its assumptions. `ReadyIsSeen` assumes what `ReadyIsShown` and
`ClientsCatchUp` do.

### Findings

1. **Two samplings at a time** (`sampling_two_starts`). The start handler asks
   `isRunning` and calls `start` in separate critical sections
   (`main.cpp:250-254`), so that two requests on two threads both pass the test
   that is to answer the second with "already running".
2. **0 does not mean success** (`client_result`). `democlient.h:50` promises 0 for
   success and others for an error. `postPictures` returns 0 when any response
   has been read; a picture of a body whose camera the cache has no line for is
   refused with 500, and reported as a success.

Observations that no run states, because nothing promises otherwise: the URLs of
tracks from 10 on are dead, as the route takes one digit (`main.cpp:320`;
`ListedUrlsServed` says exactly which are served); the decoder writes up to two
bytes beyond `picture.data` (`PostPicture.cpp:53, 76`; `PostedAsSent` says how
many); `/api/v1/version` is always answered with 500, since its handler returns a
string (`main.cpp:403`, `Utils.cpp:28`); `stop` of an unknown id is answered with
200, since `erase` does not throw (`main.cpp:179, 308`); the map of snaps grows
for as long as the process runs (`main.cpp:163`); the status handler looks for
the *first* slash of its target (`main.cpp:271`) and finds its sampling only
through what the failed conversion leaves behind; pictures whose connections broke
may be added after those of later calls, so that a face may replace a newer one;
and an object that is not ready loses its pictures if `process` comes to it after
one that is (`PictureCache.cpp:132-136`): `LossExplained` says that it may, and that no
other object does.

## 4. What is proved

TLAPS checks all proofs from nothing but the named assumptions on the constants.

**HttpSessionProofs.** `SessionInv` is inductive. The safety properties are not
inductive by themselves: that a request's response is the next one on the wire
needs `Bookkeeping` (queued and written responses are those of all the requests
handled, in order; the head of the queue counts once when it is written but not
yet removed); that the head is never written twice needs `WriteInv`; that the
timer is never early needs that `expiry` and `quiet` add up to a timeout
(`TimeInv`), which holds from one `doRead` to the next; and `ReadInv` says that
nothing moves the deadline after an upgrade. From it follow type correctness,
`Backpressure`, `NoLostWakeup`, `TimerGuards`, `UpgradeIsFinal`, the action
property `NoEarlyTimeout`, and that every session implements `ResponsePipeline`.

**WebsocketSessionProofs.** `SessionInv` joins: a sleeping worker has an empty
queue, and a woken one has a message unless it woke without cause
(`WorkerInv`); silence and the time to the deadline add up to one timeout, or to
two after a ping (`TimeInv`); and nothing is under way before the upgrade is
accepted (`StartInv`). From it follow `NoLostNotification`, `PopsOnlyMessages`,
`TimerGuards` and the action property `NoEarlyClose`.

**PictureCacheProofs.** `CacheInv` adds to the types where pictures are kept
(`KeptInv`: under their object and camera, and none from the future), that no
ready object is left without a thread about to process (`NoneLeftReady`), and
that no picture is in two places (`NoPictureTwice`). The lemmas say what
`cleanup`, each way of adding and `process` do to the set of cached pictures and
to the set of ready objects; each conjunct is then preserved by set reasoning.
`LossExplained` is an action property proved from the same lemmas: of the objects
that `process` erases, a ready one was taken, and the preview covers all that it
had (`TakenIsCovered`). And
`PreviewsWellFormed` is an invariant proved beside `CacheInv`: a preview is
well formed when it is taken, and pictures are not changed afterwards.
`PreviewOfOneObject` is proved for one thread, the condition under which it
holds: no object is ready when a picture is added, and so one at most after it
(`OneReady`). With more threads a preview may join what several of them completed
before the first came to `process`.

**PicturePreviewProofs.** `PreviewInv` needs the numbers of calls to be unique
(`CallsInv`), the ids to be unique where they can be (`NamesInv`: random ids, or
ids of `seq` while creators have never overlapped, in which case every id in use
is one that `seq` has reached or passed), and that what a client has received is no newer
than its `prev` (`SeenInv`). From it follow `IdsAreRecent` and `NoOrphans`
without condition, and `PicturesMatchIds` and `NextListingIsNew` under
`UniqueNames`; `NothingMissed`, also under that condition, needs `PreviewInv` and
that eviction takes only what is older than all that a listing may hold. A lemma
on bounded sets of naturals shows that the longest
listing that `Listing` chooses exists. Two more theorems say when the condition
holds and what follows for a reader: with one thread `UniqueNames` always holds
(`OneThreadNamesApart`), and under it the map serves each of the newest
`CacheLimit` previews by its own id, and no other (`NewestAreServed`). The latter
is what `ApiClients` takes for the map of previews.

**SamplingMockProofs.** `SamplingInv` follows each block: a loop that has not
begun or goes on agrees with `running`, its snaps and seconds with its limits,
and what was stopped with the second it is in (`BlockInv`); the mutex is held by
one handler, and a block that is being joined by the handler that stopped it
(`StoppedInv`); a block that is not over and has no rival is the newest, and no
handler is about to start another (`RivalInv`); and no snap is in two blocks
(`OwnSnaps`). From it follow the four safety properties and two action
properties: `NoOrphanLoop`, that a block goes only when its thread has ended, and
`FinishedIsFinal`. The latter needs that, without a stop, `running` is cleared at a
limit only; that a limit reached makes `Progress` 100 (`FullProgress`); and that a
handler which asks for a status has the mutex, so that no block it sees has been
stopped. `OneHandlerOneSampling` is the other side of the first finding: with
handlers on one thread no block has a rival, so that `OneRunning` holds.

**PreviewServiceProofs.** That `PreviewService` implements `PreviewFeed`, for any
threads, objects, clients and limits. The invariants of the two components
(`CacheInv`, `PreviewInv`) are proved again for the composition, from the lemmas
of `PictureCacheProofs` and `PicturePreviewProofs`, as its steps are theirs; what joins
them is that a thread inside `createPreview` carries a preview that the cache has
given away and the list has not yet. Each step then maps to a step of the feed:
adding to `Arrive`, cleaning up to `Drop`, taking to `Make`, inserting to `Show`,
polling to `Poll`, all others to stuttering. `NextIsNews` joins what is proved of
the two: the ids of a client's next listing are new to it (`NextListingIsNew`),
different ids are those of different calls (`CallsInv`), and different calls show
different pictures (`NoPictureTwice`).

**HttpListenerProofs.** `ListenerInv` adds to the types that a thread that has
returned, or is about to stop the others, has a signal behind it (`SignalInv`),
that what main has not started is nowhere (`StartedInv`), and where the chain's one
link is: with the acceptor, in the queue, or in a thread (`ChainInv`). `OneChain`
counts the three with cardinalities; `ReturnsAlone` needs the first two.

**ApiClientsProofs.** The codec first. `CodecRoundTrip` shows that the server
decodes what the client has encoded, for any bytes and any size: a number is the
sum of its bits (`ValueOfSix`, `ValueOfEight`, `ByteOfBits`); the bits of a
regrouped sequence are those of the original in the same order, zeros after the
last (`RegroupedBits`); so that regrouping 8 to 6 to 8 gives the bytes back, and the
two roundings differ by `EqualCount` bytes (`EncodedData`). Then the routes.
`RoutesAreApart` compares the forms of the paths that each regular expression
takes, for any target and not only those of `Targets`, and `ListedRoute` finds the
route of a listed URL. The theorems on the clients rest on three
invariants. `KeptInv`: the previews kept are the newest `CacheLimit`, one for each
uuid. `ListedInv`: every listed URL is that of a preview which was made, and which
lists it, with that data, for as long as it is kept. `PostInv`: each call has
returned or is the last one (`CallsInv`); a request under way is that of one call,
with its picture, and has not been handled (`RequestsInv`); what was added is the
picture of a call, decoded, once for each (`AddedInv`); and whoever has an answer,
or has returned 0, has been handled (`AnswersInv`). `ListedUrlsServed` assumes that the document root has
nothing called `api` (`FilesAssumption`; the static handler would serve its files for
the dead URLs, or fail to open them), and `MaskTellsData` that `SnapsLen` is at most 10, as the route takes
one digit and the code has 5. `KnownCamerasSucceed` is the other side of the
second finding: with a line for every camera that posts, 0 does mean that the
picture was taken.

**Only model-checked.** The liveness properties (`EventuallyLetGo`,
`ClientsCatchUp`, `ReadyIsShown`, `ReadyIsSeen`, `RequestsAnswered`,
`StrandReleased`, `MessagesTaken`, `ErrorEndsWorker`, `SignalEnds`,
`ConnectionsTaken`): liveness under fairness and `ENABLED` are beyond the prover
used here.

## 5. What is not modelled

- The vendored libraries under `src/third-part` (Catch2, nlohmann json, spdlog),
  most of the lines in the repository: the program uses them through their
  documented behaviour, and what it relies on (an `emplace` into a value that is
  no object throws, a missing key throws) is in the modules that use it. Boost
  is not in the repository; its completions, cancellations and base64 iterators
  are marked external.
- `WebsocketSession::write` and `onWrite`, and `WebsocketHandler`, which nothing
  uses; what Beast does with a second outstanding ping.
- Memory: who owns a picture's bytes (`createPicture`, `freePicture`, which
  releases with `free` what `from_json` has taken with `new[]`), and what the bytes
  written beyond the end of `picture.data` overwrite.
- MIME types, directories and paths of files, the wording of messages, logging,
  the command line, `testclient.c`, and the test of the codec (its round trip is
  `PostedAsSent`).

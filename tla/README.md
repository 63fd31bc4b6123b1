# A formal model of fulmine.js

fulmine.js answers Express 5 programs on top of uWebSockets.js ("uWS"). It
rewrites, in JavaScript, the parts of Express, of node's `http` and of node's
streams that a program can observe, over a server whose objects follow rules of
their own: a uWS response is freed the moment it ends, a write that does not fit
has to be tried again from a callback, a request is readable only in the turn
that delivered it. This directory holds TLA+ modules of the parts of the program
where order, failure and limits matter, TLC instances of them, and proofs, that
TLAPS checks, of what matters most for every value of their constants.

Paths below are relative to the repository: `src/response.js` is the library's
file, `docs/...` and `tests/...` are its documentation and its tests.

## 1. The system

| Component | Files | State | Operations |
|---|---|---|---|
| Response streaming | `response.js`, `socket.js`, `lazy-writable.js` | gathered small writes, the piece uWS has not taken, the callback node waits for, the parked `end()`, what is over | `write`, `end`, `destroy`, `_write`, the flush on a tick, onWritable, onAborted, `socket.close` |
| Answers | `response.js`, `response-utils.js` | header lines, status, whether the head is settled and out | `status`, `set`, `append`, `type`, `send`, `json`, `jsonp`, `redirect`, `writeHead`, `_finish` |
| File answers | `response.js` | the stat a call began with, the stream it pipes | `sendFile` |
| Static files | `static.js` | twins and stats remembered for a time | `serveStatic` |
| Declarative responses | `declarative.js` | none after registration | `compileDeclarative` |
| Compression | `compression.js` | the decision, the stream and its room, a kept encoder | `compression`, `reusableCompressor` |
| Application life | `application.js`, `server-shape.js` | `listening`, `_draining`, the list of responses in flight, its timers | `listen`, `close`, `handleRequest`, `_unlinkPending` |
| Settings | `application.js`, `hot-settings.js`, `router.js` | settings of each application, the hot fields and their epoch | `set`, `use`, `_hot`, the 'mount' listener |
| File cache | `application.js`, `worker.js` | reads in flight by path, cached entries and their size, the keys of the thread's tasks | `readSmallFile`, `createWorkerTask`, the thread's read and its answer |
| Views | `view.js`, `application.js`, `response.js` | engines, views kept by name | `render`, `engine`, `lookup` |
| Cluster | `cluster.js`, `application.js` | the index of each worker, who supervises, the handle of a call | `forkWorkers`, `stop`, the exit of a worker, a signal |
| Route dispatch | `walk.js`, `router.js`, `router-utils.js` | the walk's position at each level of routers, the error it carries, the request's rewritten url, mounts | `dispatch`, `step`, `runRoute`, `errorHop`, `leaveHop`, `enterMount`, `leaveChain` |
| Route compilation | `optimizer.js`, `router.js` | the chain of a route that uWS matches natively | `compileOptimizedRoutes`, `createRoute`, `registerUwsRoute` |
| Path patterns | `utils.js`, `router.js` | none | `patternToRegex`, `_pathMatches`, `pathsCanOverlap` |
| Literal index | `router.js`, `router-utils.js` | routes by literal path and the patterns between them, the flags frozen with them | `buildLiteralIndex`, `_scanFrom` |
| Parameters | `router.js`, `router-utils.js` | `req.params`, those of the mounts above, the values whose callbacks ran | `_preprocessRequest`, `_runParamCallbacks` |
| Route builder | `route.js` | the handlers of a Route made by hand | `dispatch` |
| End of a request | `router.js`, `router-utils.js` | the verbs counted for OPTIONS, the error nobody handled | `nativeDone`, `nativeFail`, `_endUnmatched`, `_handleError` |
| Tracing | `tracing.js`, `walk.js` | the errors reported of a request | `traceHandler`, `traceErrorHandler`, `traceMount`, `report` |
| Request head | `request.js`, `request-utils.js` | entries copied from uWS, the headers object once built | the constructor, `get`, `fresh`, `protocol`, `host` |
| Client address | `request.js`, `request-utils.js`, `node-shim.js` | the bytes read, whether an application is read late | `parsedIp`, `formatIPv6`, `addressToBytes` |
| Query | `parse-query.js`, `request.js` | the snapshot of the raw query | `parseQuery`, `req.query` |
| Request body | `request.js`, `lazy-readable.js` | body chunks, paused or flowing, received, aborted | `_subscribeBody`, `_read`, `_settleBody` |
| Body parsers | `body-parser.js`, `multipart.js` | bytes so far against the limit, the decoder, the one settlement | `collectNativeBody`, `collectStreamedBody`, `parseMultipart` |
| Websockets | `websocket.js` | the deferred upgrade, aborted or settled | `makeUpgradeHandler` |
| Light routes | `uws-lite.js`, `uws-utils.js`, `uws-route.js`, `application.js` | the light request and response, the raw routes of every router | `app.uwsLite()`, `app.uws()`, `express.uwsUtils`, the table at `listen` |
| Node shim | `node-shim.js` | node's response under uWS's interface | `tryEnd`, `write`, `end`, `onWritable` |
| Handler analysis | `usage.js` | what a handler was seen to use | a recogniser over source text |
| Tools and glue | `cli.js`, `adopt.js`, `create.js`, `verify.js`, `testing.js`, `nest.js`, `server-timing.js` | files of a project | not part of a request's path |

How they interact. A request enters through a route uWS matched, in
`registerUwsRoute` or the application's catch-all; `handleRequest` makes the
request and the response and puts the response in front of the application's
intrusive list. The dispatch asks the literal index for the next layer, gives it
its parameters and calls the program's handlers, which read the request and write
to the response; a walk that runs out is ended by the router. A response leaves the
list when it ends, from `_finish` or from its 'close' event, and `close()` of the
application waits for the list to empty. `sendFile` asks the application for the
bytes of a small file, which come from the cache, from a read in flight, or from a
file thread. Compression stands between a handler and the response, the node shim
between the response and node where uWS is not there. Some requests pass all this
by: a handler compiled into a declarative response answers from inside uWS, and
raw and light routes answer on uWS's own response. With `{ cluster }` the primary
forks workers instead of binding a port.

What is hard. Nothing runs in parallel within a process, and yet: small writes
wait for a tick, uWS calls back when a socket drains, a client goes away at any
time between two callbacks, a body comes before anybody asked for it, an upgrade
waits for a hook, a timer walks a list others unlink from, the answer of a thread
settles a promise joined by callers that knew different stats of a file, a worker
dies while its primary is being stopped. And much is decided early, for speed, that
Express decides late: chains, indexes, hot settings, header skips and compiled
answers are computed once and must come out as if they had not been. The hazards are
listed one by one, each at its line, in `PROJECT.json`.

What makes each component correct.

- *Response*: the bytes arrive whole and in order; uWS is not touched once it is
  over; an `end()` is carried out; a writer told to wait is woken.
- *Answers*: head and body fit; what the program last said before the head was out
  is what goes out; a HEAD is told what its GET would have been; a declarative
  answer is the one its handler would have given.
- *Files*: the bytes that go out are those the head tells of, of the file asked
  for, of a version as new as promised.
- *Application*: the list is a list; the drain ends; nobody served is killed; a
  mounted application has the settings Express would give it.
- *Cluster*: each place is held by one worker; a stop reaches everyone.
- *Routing*: patterns match what path-to-regexp matches; the index gives the layer
  the loop would give; a compiled chain answers what the ordinary walk answers; an
  error reaches the handlers Express would give it to; what a level pushed is
  popped; exactly one answer to what nobody answered.
- *Requests*: whenever and however a header, the query, the address or the body is
  read, it is what was sent; a body parser answers once and within its limit.
- *Light routes*: uWS's response is not touched once it is over; everything is told
  once.

## 2. Modules

| Module | What it is |
|---|---|
| `Pieces` | runs of bytes by their position in the body; a sequence of them that starts where the last one stopped (`Chain`) |
| `BodyDelivery` | abstract: a response carries a growing prefix of the body, and ends on all of it or is closed |
| `ResponseStream`, `ResponseStreamProofs` | the write path of a response, over node's Writable and uWS's HttpResponse; its theorems |
| `AppLifecycle`, `AppLifecycleProofs` | `listen()`, `close()`, the drain and the list of pending responses; its theorems |
| `Answer`, `AnswerProofs` | what a program says of its answer and what goes out, a GET and its HEAD side by side; its theorems |
| `Declarative` | a handler compiled where it is registered, next to the same calls run through `Answer` |
| `UwsAnswer`, `UwsHandler`, `LiteRoute`, `UwsRoutes` | raw and light routes: an answer on uWS's own response, one request of either kind, the table they share with Express routes |
| `UwsAnswerProofs` | theorems about raw and light requests |
| `SendFile`, `StaticFiles` | `res.sendFile`; `express.static` |
| `FileCache`, `FileProofs` | the cache of small files with its thread; theorems about it and about `res.sendFile` |
| `Walk` | the entries of a route table, how paths match and overlap, the compilation at listen, and the dispatch of one request over such tables or a compiled chain |
| `ExpressOrder` | abstract: the handlers Express runs for a request, and how it ends |
| `Patterns` | `patternToRegex` and `pathsCanOverlap`, next to path-to-regexp |
| `RouteScan` | the literal index and the scan, next to the loop of Express's router |
| `Params` | `req.params` and param callbacks, down the mounts and up |
| `StandaloneRoute`, `RequestEnd`, `Tracing` | a Route driven by hand; the end of a request nobody answered; what a tracer is told |
| `RequestHead`, `Query`, `PeerAddress` | header lines, the query, the client's address, however and whenever they are read |
| `RequestBody`, `RequestBodyProofs` | a body, its readers and its parsers; their theorem |
| `Multipart` | a form read out of a body |
| `Settings`, `Views`, `Cluster` | what stands around the requests: inherited settings, views, workers |
| `Compression`, `ShimResponse`, `Upgrade` | what lies between a response and its wire, the kept encoder among it |
| `ServerProofs` | theorems about the workers and the handshake |
| `DataLemmas` | facts several proofs rest on: induction over the naturals, sums over finite sets, chains of pieces |
| `MC...` | the TLC instances. `ResponseStream` and `AppLifecycle` are checked as they are; `MCWalk` extends `Walk` and serves programs; `MCServer` extends `Cluster` and `Upgrade`, `MCFiles` `FileCache` and `SendFile`, `MCRequest` `RequestBody` and `MCAnswer` `Answer` and `LiteRoute`, and these, with `MCMatching`, put several modules in one specification, each in behaviours of its own (`part`) |

Where Express, node, path-to-regexp or uWS is the reference, it is a definition of
its own beside the code's (`ExpressOrder`, `ExpressFrom`, `ExpressResolve`,
`NodeReads`, `Sources`...), written from what the repository's comments and
differential tests say of it, and the property compares the two.

Operators marked as a bug (`\* A bug: ...`) next to a definition are plausible slips in
the code it models: a forgotten handler, an offset added twice. No specification
uses them. They document what each property is sensitive to: put in the place
of the definition that follows them, each one makes TLC report the property
that `PROJECT.json` pairs it with.

### ResponseStream

One response. A byte is its position in the body and a piece is a run
`[from, upto)`, so that "in order, none lost, none twice" is a statement about
the pieces laid end to end. The variables are the code's fields under their own
names where it has them: `queued`, `queuedBytes`, `deferredEnd`,
`pendingCallback`, `writingChunk`, `headOut`, `finished`, `aborted`; node's
Writable is `buffered`, `writing`, `needDrain`, `destroyed`, `closeEvent`; uWS's
response is `wire`, `held`, `full`, `handler`, `uws`, `armed`.

`Sink(p)` is `_write`: five ways a piece can go (`RefuseWrite`, `Gather`,
`FlushWith`, `SkipEmpty`, `TryEnd`), with uWS's answer a nondeterministic
choice. uWS never says "yes" to a write while the socket is still full. A
callback in which several things happen (a held piece went out, and node pushes
the buffered ones, and then a parked `end()` runs) is split at each answer of
uWS, and `turn` keeps everything else out until the callback is over.

`length` is the Content-Length, or `NoLength` for a chunked body. `DoneAfter`
and `SkipEmpty` are uWS's convention that an empty `tryEnd` ends the response.
Two paths leave a response without a 'close' of its own, and the model has both:
`DrainTryEnd` that reaches the length, and `SocketClose` before the abort
handler is armed.

### AppLifecycle

`head`, `next`, `prev` and `linked` are `_pending`, `_pendingNext`,
`_pendingPrev` and `_pendingLinked`. `Close` is the whole of `close()`:
`CloseStopped` and `CloseListening` are its two branches. `sweeps` counts the
interval timers of the drains that have begun; `SweepBegin`, `SweepOne`,
`SweepEnd` are one turn of one of them, the walk one response at a time with
nothing else running, so that the code's order (read `next`, then unlink) is
what is checked. `ticks` is node's queue of `process.nextTick`.

A response ends in four ways: `End` through `_finish`, `EndQuietly` (the two
paths above, which ResponseStream shows), `EndOnError`, `Abort`. `out` says where
the bytes of its answer are: uWS may still buffer them when JavaScript is done.

### Answer, Declarative

`Answer` has one action per method a program calls on a response before its body is
out, each carried out on two responses, `get` and `head`, that differ only in the
method of the request. `headers` is `res.headers` in the order of its keys;
`statusCode` and `status` are the public field and the private one, `headersSent`
the moment the head is settled and `headOut` the moment it is written; `lines` and
`framing` are what uWS, or the shim, was told. A body is a kind and a size.

`Declarative` reads the same calls off a handler's source. A call carries what the
recogniser tells apart (literal or not, returned or not, which value), `Compiles` is
its answer, `Lines`, `StatusCode` and `Parts` what it hands to uWS; `Ran` is the
handler run through `Answer`'s operators. `CompiledAsRun` compares what they send,
`CompiledAsRunWhateverItIs` without the exceptions of section 5.

### UwsAnswer, UwsHandler, LiteRoute, UwsRoutes

`uws` is the raw response: open, ended or aborted, corked or not, who registered for
its abort. Touching it when over and writing outside a cork are `Fault`s, which
`UwsAnsweredOnce` says never happen, with one head and one end to an answer. `LiteRoute`
runs the middleware and the handler of a light route
on JavaScript's stack (`chain`) or `later`; what they do is any order of `next()`, an
answer, a piece, a throw, a listener, a body read. `UwsHandler` is a raw handler that
uses `express.uwsUtils` as its documentation asks. `UwsRoutes` writes programs of raw
and Express routes in mounted routers and compares what uWS calls, the most specific
pattern of the table, with what the program registered.

### SendFile, StaticFiles, FileCache

`SendFile` is one call: `Call` checks the path, stats, answers the conditional
headers and picks the range; the read is small (`ReadSmall`) or piped (`Open`,
`Piece`, `SourceEnds`), and between any two steps the file may be replaced or
removed (`Replace`) and the client leave (`Abort`). `body` names version, first byte and
count, so that a head of one version with the bytes of another is seen.

`StaticFiles` picks the file and its twin: `Entry` is a remembered twin with the
instant it was learnt, `Look` and `Find` the request's way through index, extensions
and twins, `Write` the disk changing under it. `FileCache` is `readSmallFile`: a version
of a file stands for its mtime, its size and its bytes; `Ask` is one piece of
JavaScript, from `stat` to the cache, the read in flight or a new message;
`ThreadReads` is the `readFileSync` of the thread, later, of whatever version is on
the disk by then; `Settle` is the message coming back, with the promises it settles,
`clear` and `Store`. `taskKey` is the code's counter with its limit scaled down from a
million.

### Walk, ExpressOrder, MCWalk

A path is a sequence of segments and a program a sequence of registrations, whose
positions are the `routeKey`s. `MCWalk` builds the tables of its routers and, with
`CompileOptimizedRoutes`, the chain uWS gives a request, if it gives it one: `Ahead`
and `Blocks` are the two answers of `optimizeRoute` about an earlier layer,
`GuardsInside`, `ShadowsLeaf` and `IsFollowedByAnOverlap` what keeps a route inside
a mount off uWS, `CompileFrom` the walk into the mounted routers.

The rest of `Walk` is `walk.js`, one action per call of one of its methods that changes
something: nothing else runs between two hops, so `todo` names the next one.
`walks` are the Walk objects, a mounted router's pointing to the one that waits
for it; `original`, `consumed`, `stack` and `assigned` are the request's path as
the mounts cut it and as handlers rewrite it; `errorKey` is where the error came
from; `nextOf` is whose `next` is in `req.next`. What a handler does (answer,
`next()`, `next("route")`, `next("router")`, an error, a rejection, an assignment to
`req.url`) is chosen when it first runs and is the same ever after.

`ExpressOrder` knows none of this. It is a recursive definition over layers, in
the order they were written, of the handlers that run for what each has been
seen to do. `AsExpress` compares the two in every state: the handlers that ran,
with the `req.app`, `req.path` and error each was given, and how the request ended.
Express itself is not in the repository; the reference is what the code's
comments and its differential tests, which run every program on both, say of it.

### Patterns, RouteScan, Params, StandaloneRoute, RequestEnd, Tracing

`Patterns` compiles a pattern, a sequence of tokens, as `patternToRegex` does, one token
at a time with what it knows of those behind, into a regular expression with
an order of preference, and matches paths with it as a backtracking engine would.
Beside it path-to-regexp writes every choice of optional groups out (`Written`) and
compiles each (`SourceOf`). `AsExpress` compares acceptance and parameters; `Seen`
says that two patterns that match one path overlap for `pathsCanOverlap`.

`RouteScan` builds a table while settings change, freezes what `createRoute` and
`_freezeRoutingFlags` freeze, and compares `ScanFrom`, from every place a scan may
resume, with `ExpressFrom`. `Params` takes one request down mounts and up;
`called` is `req._paramCalled`. `StandaloneRoute` is `route.js`: `stack` its
handlers, `sync` the count after which it lets the stack unwind. `RequestEnd` is
`nativeDone`, `nativeFail` and the router's last word: `walk` settles once, `task` is
the microtask in which the epilogue waits, `OptionsReply` the automatic answer of the
router that counted the verbs.

`Tracing` keeps JavaScript's stack explicitly (`stack`, a call and its phase), because
`next()` runs the layers after from inside the layer that called it: `Throw` is the
catch of the wrapper, with the walk going on before the end is published, `Reject` and
`Settled` the two sides of a rejection's, `HandBack` the `then` of `enterMount`. What a
handler passes to `next()` is nothing, an error of its own or the one it was given.
Handlers that throw after `next()`, or call it twice, are left out.

### RequestHead, Query, PeerAddress

The constructor's decisions (`Collect`, `CopyHeaders`, `SkipHeaders`, `HeadOf`) are taken
from the wire's lines once; questions (`AskOne`, `AskParser`, `AskAll`) come in any
order after, since building the headers object changes where the answer is read.
`Query` parses as `parse-query.js` scans, character by character, and `Read` is the
getter with its snapshot and its replay. `PeerAddress` has three requests that arrive,
finish, are left by their client, are upgraded and are asked for their peer. Each is a
route's, made with the root (`Maker`), or a websocket's, made with its owner: `hooked`, with a
response that the client's leaving does not finish, or `bare`, upgraded as it arrives and
without a response to ask. `Ask` is `parsedIp`, the throw included. `FormatIPv6` and
`AddressToBytes` are the two conversions, group by group.

### RequestBody, Multipart

The program is a sequence of steps: a parser, a listener, an await of a tick or of the
stream's end, the answer; between its pauses the transport delivers a piece
(`UwsPiece`, `ShimPiece`), the stream flows (`Flow`) and ends (`EmitEnd`), the client
leaves (`Abort`). A parser's closures are `OnData`, `OnEnd` and `OnDataLast`, native when
it is reached in the callback that delivered the request, over the Readable when
later. `reading` is the parser under way, with what it kept and whether it is over.
Bytes are positions, as in `ResponseStream`, and a decoder returns any prefix of what it
could by then.

`Multipart` writes parts (`Written`) and reads them back (`ParseMultipart`), over
contents chosen to come close to a delimiter and names that need escapes.

### Settings, Views, Cluster

`Settings` is `set`, assignment, deletion and mounting of three applications, next to
prototypes that chain as Express's do (`express`); `hot` are the fields read on every
request with the epoch they were resolved in. `Views` is `render`, from the options it
is called with to the callback, over an application and one mounted in it. In
`Cluster`, `calls`, `index` and `handle` are the closure of each `forkWorkers()` call and
`_clusterHandle`. An 'exit' is handled by every listener still there
(`Listeners`), in the order they were added. `killed` is a SIGTERM on its way.

### Compression, ShimResponse, Upgrade

`Compression` hooks `write`, `end`, `writeHead` and `on`, possibly twice over; a piece says
which layers coded it. The head is settled by the outermost hook, whether `writeHead`,
`flushHeaders`, the first byte or the end asks for it (`HeadSettled`), and `said` is what it
said then: after it a header that is set throws (`threw`), and a body not yet begun can take
no length and is streamed (`Streams`). `EncoderNext` is the kept encoder: its probe, a call nested in
another, a throw. `ShimResponse` gives a script (a head, then a body in one of four ways)
to uWS's interface over node's response. In `Upgrade` the hook answers, returns, throws
or settles its promise, and goes on answering from what it left behind; `ending` is what
ended the native response, and `stray` the calls made on it after. Left out: a handler that
touches its response after `end()` while the pool compresses, and a hook that writes and
never ends.

## 3. Runs

Every run is a TLC instance, its constants in the `.cfg` or, where several modules
share one, in the MC module.

| Run | Result | What it shows |
|---|---|---|
| `MCResponseStream` | pass | four writes and an `end()`, chunked and with a Content-Length, with `destroy`, errors, a destroyed socket and aborts: no byte lost or reordered, `BodyDelivery` implemented, an `end()` always carried out, a writer always woken, uWS untouched once over |
| `MCAppLifecycle` | pass | two responses on two connections, `listen()` twice, `close()` twice, from anywhere: the list stays a list, the drain's timer finds everyone served, nobody is killed, a quiet server says so, every `close()` calls back |
| `MCWalk` | pass | 7000 programs and requests, on the ordinary walk and on the chain: the handlers Express runs, in its order, with its `req.app`, `req.path` and error; mounts give back what they take; every request ends |
| `MCMatching` | pass | patterns of up to four tokens against path-to-regexp on every path of up to four characters, and the overlap of each with short leaves; tables of two layers under every setting against Express's loop; parameters over three visited layers; hand-built routes; requests nobody answered; traced programs |
| `MCRequest` | pass | header lines asked by name, off the object or by a parser, under a skip or not; queries of up to five characters read again and after a rewrite; peers read early, late, after an upgrade; peers of websockets with a hook and without; addresses as text and bytes; bodies of up to three bytes under every split and every reader; forms |
| `MCAnswer` | pass | three calls of any kind on a GET and its HEAD, the lines of the head included (`HeadIsWhole`, in `AnswersArrive`); three calls of a compiled handler; a light route, a raw one, and tables of both kinds of routes |
| `MCFiles` | pass | `sendFile` under ranges, conditions, windows and refusals while the file is replaced and the client leaves; `express.static` over a directory being written; three requests for two cached files that are edited |
| `MCServer` | pass | two workers over crashes and a stop; settings of three applications mounted in each other in any order; views; compression under backpressure, a kept encoder, the shim, a handshake |
| `MCAppAnswersArrive` | violation | a response leaves the list when uWS has its bytes, and `uwsApp.close()` can drop them |
| `MCFileStale` | violation | a request that saw the edited file's stat joins a read begun before it |
| `MCWalkRewrite` | violation | a middleware assigns `req.url` in front of a natively registered route: the route of the old path runs |
| `MCServerTrust` | violation | three applications, the outer mount made first: the innermost trusts nobody where the outermost trusts everyone |

The properties the runs check are conjunctions where one question has several sides:
`CallersHear` is `EndIsAnswered` and `WriterIsWoken`; `CacheIsRight` a free key for
the next read (`KeyFree`), the right file, an exact account and freshness against the stat
the read began with; `BodyWhole` one answer, the whole body and the limit;
`UwsAnsweredOnce` a response of uWS left alone once it is over, with one head and one end;
`PoolHeld` a worker per place, shares that add up and nobody who outlives a stop;
`CarriedToItsEnd` the liveness of everything in
`MCServer`.

### Bounds

Sizes in `ResponseStream` are scaled so that two pieces of one byte
gather, three flush, a piece of two is written through, and every Content-Length
has a split in the middle; four writes give held, buffered and gathered pieces
at once with one to spare. There is one `end()`, which is the assumption
(`MaxEnds <= 1`) of the theorems that mention the whole body. Two responses in
`AppLifecycle` cover the head and the tail of the list, and an unlink of either while a
timer stands on the other; a removal from the interior of a longer list is covered by
the theorem. Two calls of `listen()` and `close()` give a drain with a second drain, and
a server listening again, behind it.

`FileCache` has one thread, the default of the code, and `KeyLimit = 0`, two keys: the
counter starts over on the third read. Two versions are one edit, which falls anywhere
between a stat, a read and an answer. `RightFile` depends on those keys: a task parked
under a key is overwritten when the counter comes round to it again. With one thread the
answers come in the order of the questions, and the run lets the counter come round; with
more threads a read that took as long as a million others would be settled with
another file's bytes. The model has that case (give it two threads), the run
does not. `SendFile` has three versions on either side of the small size, two of them
in one second; a pipe of two bytes a piece reads four in two. `StaticFiles` has one
request over a directory whose files come and go while its clock passes every window.

A program of `MCWalk` has up to three registrations of the application, taken in
every order from its middleware, its error handler, a route of a literal and two
of a parameter, middleware with an error handler at a path, a router without a
path and the sub-application at `/a`; and up to two of the sub-application's, filled
first or just before it is mounted, among them a route with an error handler and a
nested router. Three suffice for a layer before, at and after the mount, which is
what the compilation decides on, and taking any one of its rules out (a blocking
layer, a guard, a later overlap, the mount as the place to resume) makes the run
fail. The run leaves out, because the code answers otherwise there, the programs
listed under Walk in section 5; middleware on a chain does not assign `req.url`,
nor leave its router, there. The slash at the end of a path and case are in
`RouteScan`, not in paths of segments.

In `MCMatching` four tokens give a parameter between two of anything, and every pair
that shares a segment; two layers are enough for one to shadow the other, with `Scan`
from each; three visits are a mount, what is in it and the way back, four routers
one that merges between two that do not; the traced programs have two layers, or three
with one or two of them in a mounted router. In `MCRequest` the first three lines of a
head decide all its folds, a body of three bytes has the limit on, under and over each
split, and a request's program has up to four steps, which is a reader, a pause, another
reader and the answer. In `MCAnswer` three calls are what it takes to say a thing, say
otherwise and end, and two sizes a body and a length that is another's; two pieces and three moves of a light route are a handler that
answers, or throws, around an abort; one raw and one mounted route give every pair of
patterns. In `MCFiles` three requests fill a cache, find it stale and find it outlived;
the ones after the first are for the file a deploy touches. In `MCServer` five
forks are two workers and three replacements, so a place
changes hands twice; three writes let a setting change under a mount and back; two
renders are one that keeps a view and one that finds it.

Two bounds of the code are scaled, not lifted: the coalescing sizes and the counters of
`FileCache` and `StandaloneRoute` (`SyncLimit`).

### Fairness

`Walk`: `Next` is weakly fair, since a hop is a call or a microtask, and
every handler answers or calls `next()`. `ResponseStream`: the ticks, the callbacks and
the end of the handler are weakly fair, since node's loop runs them; the three drains are
weakly fair, which says that a client that does not leave goes on reading. No
fairness is assumed of the program or of an abort. `AppLifecycle`: ticks and
timers are weakly fair, and each response's end is strongly fair (the turns of
the timer come between, and a loop starves nobody): the program answers what it
was given, or its client leaves. `close()` itself has no deadline, so without
that assumption it need not call back, and the code claims no more.
`FileCache`: threads read what they are sent, and the loop takes their
messages. `Cluster`: a SIGTERM ends a process whose code installs no handler,
the end is reported, and the interval ticks. `RequestBody`: a program that runs goes on
to its next pause, the stream flows, and the transport brings the rest of a body or the
abort. `Compression`, `ShimResponse`, `LiteRoute`, `UwsHandler`: node's and the pool's
callbacks come, a client that stays reads, and (the last two) a handler that may still
answer does or its client leaves. `Upgrade`: a hook returns, and its promise settles.
`RequestEnd`: the microtask runs. Where a run holds several parts, the fairness of each is
assumed in the behaviours of that part only.

CHECK_DEADLOCK is FALSE everywhere: a response, a server, a set of requests and
a primary all come to rest.

## 4. Proofs

Assumptions are those of the constants (`ResponseAssumption`, `LifecycleAssumption`,
`FileCacheAssumption`, `SendFileAssumption`, `BodyAssumption`, `ClusterAssumption`,
`AnswerAssumption`), which TLC
evaluates in the runs, and the hypotheses a theorem states itself. The theorems hold for any number of
writes and sizes, of responses, connections and calls, of files, threads and requests, of
workers and forks, for any program of body readers or of calls on a response and any middleware.

`ResponseStreamProofs`. `TypeCorrect`; then `IInv`, whose heart is `Layout`: the
pieces on the wire, held, queued, buffered and parked chain from 0 to `given`.
The chain alone is not inductive, since a flush moves `queued` behind `wire`
and is right only if nothing is held: `Running` says when that is
(`writing = writingChunk`, a chunked response holds nothing, nothing is queued
while node waits), `Waiting` what node may have buffered, and `Over` how the
flags of an ended response go together. `SinkLaid` is the lemma for `_write`, used
by the two actions that reach it. From `IInv`: `Safe_NothingLost`,
`Safe_CompleteBody`, `Safe_HeldHasHandler`, the action property
`Safe_UwsUntouched`, and the refinement `Delivers`. Those that mention the whole body
assume one `end()` (`MaxEnds <= 1`).

`AppLifecycleProofs`. That the close of uWS finds no response being served rests
on the head of the list: it is empty only if the list is, which pointers that
mirror each other do not give (two disjoint rings mirror, too). `Ranked` adds that
the pointers follow some ranking of the responses, the order they were linked
in. With it: `TypeCorrect`, `Safe_PointersMirror`, `Safe_NoneKilled`,
`Safe_DrainHasEnd`, and the action property `Safe_OkMeansQuiet`. In
`Safe_WalkFindsServing` the ranking serves again: `Walked` is the smallest set closed
under `next` that holds the head, a linked response outside a closed set would have one
of higher rank outside it, and induction over the ranks leaves none. What is in the list
between events is in `LinkedLives`: a response in the list has not
finished, and one that was aborted has its 'close' queued.

`FileProofs`. `Inv` follows each read from the question to the answer. `KeysInv`:
the keys on their way through a thread, asked and answered (`KeyAt`), are all different,
and each is parked in `tasks`. `MailInv`: what a thread brings back under a key is of the
file asked for and no older than the stat it was asked with. `ReadsInv`: a parked read is
the one in flight for its file, and whoever joined it asked for that file. Given `KeyFree` a
new key keeps all that, so `CacheRightWhileKeysLast` has it as its hypothesis, along the
whole behaviour. `CacheRightWithOneThread` discharges it: with one thread the keys on
their way are the last ones given (`Recent`), two reads that wait are of two files, and
with no more files than keys the next key is free. With several threads `KeyFree` can
fail, and then `RightFile` does (section 3). The account of the cache is arithmetic over
sums of its entries, by the sum lemmas of `DataLemmas`.

`BytesAreAsTold` is of `SendFile`, whatever the sizes, the ranges asked for and the times the
file is replaced. `SendInv` goes stage by stage (`BeforeCall`, `ToRead`, `ToOpen`, `Piped`):
while a file waits to be read or is piped, the status, the part and the length are those that
the version of the stat, the options and the ranges select, what is in `body` is one run
from the first byte of that plan to where the source stands, and the length is still to be
reached. It is needed because `ToldIsSent` speaks of the end only, and the bytes are read
many steps, and perhaps a version, after the head was decided. `SendFileAssumption` leaves out
an option `end` before `start` (section 5). `ConditionsComeFirst` says that the
preconditions are decided before the ranges.

`RequestBodyProofs`. The bytes are followed by the places they have come to: `sent` by the
client, `Handed` by the transport, `Away` by the Readable. Each sequence of
pieces lies between two places (`StreamInv`, `KeptInv`), and a parser that began on a
stream others had read knows where it came in (`missed`), which is where a listener
stopped. `ClaimInv` says who has the body: two readers at once would each miss what the
other got, and the flags of the request (`bodyRead`, `bodyClaimed`, `receivedData`) are
what keeps them apart. `AnswerInv` says which parsers have answered and that the one the
program is at has not, which is why an answer after an abort, a limit or a decoder's error
is not given twice. `BodyReadWhole` is `BodyWhole`.

`ServerProofs`. `ClusterInv`: of a call that is running each place has one holder that
knows it (`OneHolder`), and a stopped call leaves nobody up without a signal on its way;
that the shares of a pool add up to no more than the total also needs that no two workers
have the same place, before a stop or after it (`PoolInv`), which is so with one clustered
application only (`PoolIsHeld`; `EveryPlaceHeld` is the rest,
without that hypothesis). `UpgradeInv`: what ended the native response is what the flags
say of it (`FlagsTell`), and where the handler is says what may have ended it
(`PhaseTells`). So the handshake, the 400 and the 500 are always decided with it still there,
and the two calls that are not, the hook's own answer and `onAborted`, come late only in the
ways `OneHandshake` states.

`UwsAnswerProofs`. `Sound` is what an answer on uWS's response keeps whoever gives it:
no fault yet, a head if and only if something says so (`Written`), a stream that flows and a
pool that answers only where the response is there or the abort will be heard. The lemmas on
the operators of `UwsAnswer` say what each makes of a sound answer. A raw handler adds
what it still may do (`HandlerSafe`), and `HandlerCollectsWhole` that what `collect()`
has is the sum of what came (`Collecting`). A light route's invariant, `LiteInv`, is in two
halves: `Kept`, what a call of its code finds and leaves, stated of the state as one record
because a call runs middleware within middleware, and `Phased`, where the request is.
A third part, `Told`, is what `LiteToldOnce` rests on. `HeardRight`: once 'close' was told, or a
'finish' waits for its tick, no stream flows that could tell it again, and a 'finish' is of an
answer that is out or with someone who hears of an abort. `BodyRight`: when the client has left,
a body that did not end was destroyed, or will be by the answer's stream as it closes.
`InStep` keeps the two sides of one abort together, uWS's and the stream's. `LiteAnswersUwsOnce` and `LiteToldOnce` assume that the
middleware are named by sequences of strings, and `HandlerCollectsWhole` that bodies are
sequences of sizes and limits numbers; the assumption of `MCAnswer` checks it of its own.

`AnswerProofs` is of `Answer`, for every program of calls, however long, every request,
size and status. `Good` is the inductive invariant of one response. `AnswersFit` needs what
is true before anything is sent: until it ends, a length stands in the head only if the
program put it there (`own`), nothing has been framed unless the head was let out early, and
the status is 304 only if the program may ask for it. `Formed`, `Near` and `Calm` say what
a call that ends nothing changes, `Ready` what `end()` is called on and `EndFacts` what it
makes of it; each setter is `Calm`, and each of the ways to send is a calm part followed by
`end()`. `HeadAsGet` is about two responses, so it takes an invariant of the pair:
`Paired`, that the two are `Twins` (they differ in the method and in whether they have a
body, and in nothing else), or the head of the GET was let out early, or both are over and
`Agree`. `Tells` says which framing and length each way to the end of `_finish` gives, and
`PairEnds` that a GET ended with n bytes and a HEAD ended with n, or with none under
a length in its head, agree. A call on a response that is over changes nothing that went out
(`Late`). The assumption, `AnswerAssumption`, is that the program's own names do not include
Content-Length, which is a call of its own in the model (`CallLength`). `HeadIsWhole`, the
lines as they were joined, stays with TLC: it compares two folds over the headers.

`DataLemmas`: induction over the naturals with a set in the place of a predicate, which
needs no operator as a parameter; sums over finite sets (an element taken out, a value
changed, a bound), since the community modules define them by a recursive function; chains
of pieces, joined and cut.

`TypeOK` of `AppLifecycle` and `ResponseStream`, `CompleteBody`, `HeldHasHandler` and
`DrainHasEnd` are proved and no run lists them: TLC agreed before they were proved, and the
theorems say more.

What stays with TLC:

- liveness (`CallersHear`, `CloseAnswers`, `SettledIsServed`, `CarriedToItsEnd`,
  `RequestEnds`, `ReadersHear`, `AnswersArrive`, `RouterAnswers`), since the prover has no rule
  for ENABLED;
- what a recursive definition computes for every input: the modules recursive over data
  (`Walk`, `ExpressOrder`, `Patterns`, `Multipart`, `Compression`, `Settings`,
  `UwsRoutes`) and the properties that compare with them (`AsExpress`, `PatternsAsExpress`,
  `OverlapIsSeen`, `FormIsRead`, `SettingsAsExpress`, `HeadIsTrue`);
- `PathGivenBack`: it holds of the programs `MCWalk` serves and not of every program, since
  `use(path, router, errorHandler)` leaves a mount the walk does not come back from (section
  5), so a theorem would have to say which programs, by the very definitions above;
- what compares with a loop over a sequence, or with a scan of its characters: `RouteScan`,
  `Params`, `Tracing`, `RequestHead`, `Query`, `PeerAddress`, `Declarative`, `StaticFiles`,
  whose properties follow by induction over the table, the visits, the lines or the text;
- for want of work, not of reach: `StandaloneRoute`, `RequestEnd`, `Views`, `ShimResponse`.

## 5. Where the code and its documents disagree

The violation runs, each with its quotation in `PROJECT.json`. The statements below
are in the modules and in no run, because they fail for a reason close to one of those,
or a small one; name one in a `.cfg` to see the trace. Where none is named, the model has
the code's behaviour and the property says what it excludes.

Responses, `Answer`, compression:

- `CompleteBody` with `MaxEnds = 2` (ResponseStream): a second `end()` while a piece is
  held replaces the first (`response.js:870`), whose body is lost; node reports an error to
  the second and keeps the first.
- `FinishedUnlinks` (ResponseStream): a response with a Content-Length whose last bytes go
  out in onWritable (`response.js:590`) emits no 'close' and stays in the pending list.
- `NoBodyOnHead` (ResponseStream, `Bodies = {FALSE}`): written bytes of a
  response to a HEAD reach uWS (`response.js:534`, `:927`), against the comment at
  `response.js:196`. Pieces written under a 204 or a 304 do, too.
- `location()` and `json()` write `res.headers` past the setters, so `location()` after the
  head is out does not throw where the other setters do.
- `HeadSaysAsGet` without its second premise (Answer): on the shim, a HEAD whose program said
  `transfer-encoding` is told a Content-Length of 0; on uWS, one whose program announced a
  length too is told that length (`response.js:925`), where the GET is chunked.
- Compressed on the pool, a response has `headersSent` false after `end()`.
- `CompiledAsRunWhateverItIs` (Declarative): with `x-powered-by` on, a handler that sets that
  header itself gets two lines of it (`declarative.js:871`); `append()` of a content type,
  which throws when run, compiles; `append()` of `connection` and `keep-alive` ignores the
  value there; a status that is a string or above 999 compiles and throws when run;
  `keep-alive` set with `connection: close` is kept.

Application, cluster, settings, views:

- `AddressMeansBound` (AppLifecycle): during a drain that began before a second
  `listen()`, `uwsApp.close()` (`application.js:983`) drops the new socket as well.
- `DrainAcceptsNone` (AppLifecycle): `close()` releases the last socket only
  (`application.js:976`); a second `listen()` leaves the first one accepting.
- `WorkersBounded` (Cluster, `NApps <- 2`): two clustered applications of one process each
  fork a replacement for every worker that dies (`cluster.js:196`, `:178`).
- `PrimaryForksOnly` (Cluster): after `stop()` the process no longer counts as a
  supervisor (`cluster.js:209`), so `listen()` again binds in the primary.
- `WorkersDrain` (Cluster): `stop()` sends SIGTERM (`cluster.js:211`), and no
  code in `src/` handles it in a worker, against `application.js:932`.
- `AsExpressWhateverItIs` (Settings): `set("etag", false)` or `set("query parser", false)` on a
  mounted application falls through to its parent's function (`application.js:421`, `:447`);
  `trust proxy fn` set without `trust proxy` is not read (`router.js:389`).
- A 'mount' listener that throws leaves the epoch as it was with the parent already set
  (`router.js:1327`).
- `view cache` has a default of its own on every application (`utils.js:982`), so a mounted
  one does not inherit its parent's as in Express.

Routing. The programs the run of `Walk` leaves out, since `AsExpress` fails on each of them.
The first five are about chains, where the ordinary walk agrees with Express, and
`docs/compatibility.md:97` says that turning native routes off "answers the same".

- A router filled after it was mounted and after the application's error handler
  was written: an error of its native route keeps a key above the handler's
  (`walk.js:238` only raises it), and the error handler is passed over.
- A router in a router: the chain resumes after the outer mount
  (`optimizer.js:463`), and what follows the inner one in the middle router is lost.
- A router mounted without a path: `!pathPrefix` (`optimizer.js:326`) skips the
  question whether a later route of it overlaps, which is then lost.
- `req.url` assigned in a route of a mounted router: the layer to resume after is
  inside it (`walk.js:298`), and the application's middleware written after it runs
  again, with `req.app` still the mounted application.
- `next("router")` from the application's middleware: it resumes after the mount
  (`walk.js:443`) where Express ends the request.
- `app.use(path, middleware, subApp)`: `rememberApp` looks at the first callback only
  (`router-utils.js:982`), and `req.app` stays the sub-application on the way out.
- `use(path, router, errorHandler)`: the handler's `next()` goes to the walk of the router
  that is over (`router.js:953`), and the request hangs.

And elsewhere in routing:

- `OverlapIsSeenWhateverItIs` (MCMatching): a guard with a wildcard or an optional group
  before its end, whose literal prefix a route extends, is taken not to overlap it
  (`utils.js:577`, `router-utils.js:907`).
- `ParamsAsExpress` (MCMatching): a router that merges, in one that does not, in one that
  does, sees the outermost mount's parameters (`router-utils.js:537`).
- `Patterns`, against path-to-regexp (`utils.js:181`), outside `AsExpress`'s premise: on `/a//` the
  pattern `/:x{/:y}` gives `y = "/"`; `/a{*x}` gives `x = [""]` on `/a`; `/a/{*x}`
  answers `/a`; `//{*x}` answers `/`; groups after a wildcard, after text behind a capture, or
  two in a row may divide the path otherwise.

Files:

- `CallbackHears` (MCFiles): a piped file whose client leaves never calls the callback
  (`response.js:1401`, against `:1127`), nor may one that is complete.
- A file replaced between stat and read: a range that covered a small file sends the longer
  body; a large file piped whole sets no end, and sends what it finds.
- `sendFile` with both options and `end` one before `start`: the length told is 0, and
  `Math.max(offset, offset + len - 1)` (`response.js:1384`) has the source read a byte. The
  assumption of `SendFile` leaves it out.
- A callback that throws in the `then` of a small read is called again from its `catch`.
- With `preCompressed`, a path whose slash at the end is encoded, or a twin removed
  between its stat and its read, goes on to `next()` with the twin's Content-Encoding, type
  and ETag left on the response.
- The stat cache is one map of the process, and an entry lives by the window of whoever
  filled it (`utils.js:1021`); this is not modelled.

Requests:

- `SkipAnswersAsCopy` (RequestHead): where a chain skips the copy of the headers, only the
  first of repeated `Connection`, `If-None-Match`, `If-Modified-Since` and `Cache-Control`
  lines is read (`request.js:547`), where the copy folds them.
- A body parser reads the first or the folded `content-encoding` by whether
  `req.headers` was read before it. A parser reached after the answer went out registers
  on a response that is over. A `data` listener in front of a parser in the same turn hears nothing.
  After an abort in the middle of a collection, `next()` is not called.
- `addressToBytes` does not read `::a.b.c.d`.
- A parameter of a Content-Disposition without `=` swallows the name of the next one
  (`multipart.js:131`).
- An upgrade hook that began an answer and did not end it is upgraded behind it.
- `DeadHookIsQuiet` (MCServer): `docs/websockets.md:31` says that writing to an aborted
  response does nothing. The client's leaving sets only `aborted` on the hook's Response
  (`websocket.js:222`), `end()` asks only for `finished` (`response.js:873`), and its `cork`
  throws on the native response that is gone. `OneHandshake` names that call as one of the two
  that may be stray. The other is `res.onAborted` (`websocket.js:218`) behind an async hook
  that answered before its first await, which throws out of uWS's handler.
- `SocketKnowsPeer` (MCRequest): a websocket without an upgrade hook has no `req.res`
  (`websocket.js:188`), so `ws.req.ip` throws (`request.js:1206`), where
  `docs/websockets.md:30` has it readable. A hook that waits and reads it first when the client
  has left throws, too, on the native response.
- The request of a websocket asks its owner's flag and count (`websocket.js:250`), a route's
  the root's: after a late question in an application, `PeerIsKnown` promises the address to
  the routes, and to the websockets of that application and of those it is mounted on; one of
  an application mounted on it may still be told the loopback once.

Light routes: told of 'close' twice when a `write()` follows an abort after `on("close")`; a
client that leaves while the pool compresses is not told of; a body paused when the
answer goes out is not resumed; a raw route added to a mounted router after `listen`
is not served, and nothing says so.

Tracing: the end of a mount does not carry the error that left it
(`tests/unit/tracing-router-request.test.js` says so), and an error of a parameter that does not
decode is reported, if at all, by the mount that hands it back.

## 6. Not modelled, and the plan

`PROJECT.json` lists every component with its reason. What is next, in order:

1. Proofs: `RenderToldOnce` (Views), `HandlersInTurn` (StandaloneRoute).
2. Route dispatch, the rest: `app.route()` groups and `req.method` assigned.
3. Native routes of wildcards and optional groups, their HEAD twins and presets, now that
   `Patterns` is there to compile them.

Left out for good: the wording of errors, dates and MIME types; cookies; content
negotiation, which is a package's; TLS and certificates; the command-line tools; the
recogniser of `usage.js`, whose input is a language; files on the disk beyond their version;
memory.

# Formal models of the StellarMesh SDK

The repository holds Go, TypeScript and Python SDKs and one Go service. This directory models the parts of them that
keep state, run concurrently or have to survive failures: TLA+ modules, TLC configurations that check them on small
instances, and TLAPS proofs of what must hold for instances of every size. Every definition is translated from the
source and PROJECT.json ("map") names its lines.

## 1. The modules

| Module | What it models | Checked with | Proved in |
| --- | --- | --- | --- |
| SessionRegistry | what sessionauth promises, without Redis | refined by SessionStore | |
| SessionStore | the session store: its Lua script, key expiry, the Redis client's retries, delayed requests | SessionStore.cfg | SessionStoreProofs |
| SessionStoreHistory | SessionStore with a record of finished revocations | SessionStoreHistory.cfg | |
| AuthSession | requests of the frontend SDK that share refreshes and logout notifications | AuthSession.cfg | AuthSessionProofs |
| SseStream | one SSE call of the frontend SDK: parser, attempts, recovery, read loop, clean-up | SseStream.cfg | SseStreamProofs |
| Gateway | one request through the gateway pipeline, panics and response recording included | Gateway.cfg, GatewayInforms.cfg | GatewayProofs |
| TokenBucket | the Redis token bucket of the gateway's rate limiter | TokenBucket.cfg | GatewayProofs |
| StorageService | the life of the storage service: health loop, readiness gate, shutdown | StorageService.cfg | StorageProofs |
| StorageCalls | calls of the storage API from the Python client through the service and the AWS SDK to S3 | StorageCalls.cfg | StorageProofs |
| AsyncClients | downloads and closings of the two asynchronous Python clients under cancellation | AsyncClients.cfg | AsyncClientsProofs |
| TopicCheck | the parallel probes of the Kafka package's CheckTopic | TopicCheck.cfg | TopicCheckProofs |
| LogSanitizer | what the Go and Python logging packages make of the fields of a record | LogSanitizer.cfg | LogSanitizerProofs |

The modules MC... hold only the values of constants for TLC. StorageCalls is a composition: the client with its retries,
the handlers with the access policy, the SDK with its retries and S3 in one state, because what goes wrong there goes
wrong between them. So is SessionStore: goroutines in Store methods, the network, the script, and Redis with its clock.
Parts that share no state in the code are not composed: the gateway, its session store and its limiter meet in calls
whose every outcome (allowed, rejected, error, panic) is a choice in Gateway, so what Gateway shows holds for any
authenticator and any limiter, sessionauth and redislimit among them; likewise the flag ready of StorageService is either
value in StorageCalls, and refresh and notification, which AuthSession models, take time and have a result in SseStream.

Definitions whose comment starts with "Fault:" are never used by a specification. Each is a plausible defect of the
definition that follows it, and PROJECT.json ("mutants") says which property notices it.

## 2. Inventory

For each part of the repository: its state, its operations, whom it talks to, what is hard about it, what makes it
correct, and whether it is modelled.

### Go gateway: session store (sdk/go/gateway/sessionauth) - modelled

State: in Redis, one string key per session (user, creation, expiry) and one sorted set per user (IDs by creation time),
each with a deadline of its own. The Store itself is stateless. Operations: Create, Lookup, Renew, Revoke, ListByUser and
RevokeByUser, each one run of a Lua script (Create up to three, one per drawn ID). Interactions: go-redis repeats an Eval
after a network error; several gateways, possibly with different limits, share the keys. Hard: an Eval may run although
its caller was told of an error, may run twice, or much later; keys expire one by one; the clean-up of an index runs
inside every operation. Correct when keys and indexes always agree, the limit per user holds, dead sessions stay dead,
and a revoked session is not found again.

Keys (escaping of prefix, user and ID) and the authenticator (401 for a missing session, error otherwise) are pure; their
outcomes are inputs of SessionStore and Gateway.

### Frontend SDK: authenticated requests (sdk/frontend/src/http auth, client, retry, error) - modelled

State: an EpochState per session epoch with its current RefreshRound (two shared promises: the refresh and the
notification), and per request its snapshot, its headers, whether it has recovered, and its retries. Operations: execute
(capture, headers, send, transform, retry, recover, replay), refresh, notify, abort. Interactions: the project's
callbacks getAuthHeaders, refreshSession and onUnauthorized, which may change the session while they run. Hard: every await
lets other requests, an abort, a login or a logout in between. Correct when refreshes of one session never overlap, late
refusals do not start another one, replays carry fresh credentials, nobody is logged out for a passing failure, nothing
crosses a session change, and every request settles.

### Frontend SDK: SSE (sdk/frontend/src/http/sse) - modelled

State: the captured session, a connect timer and one AbortController, whether the call has recovered, the reader of the
body, the parser's unfinished line, event and last id, and whether a LF that comes next belongs to a CR. Operations: the
generator of execute between two awaits, and parse. Interactions: fetch, the caller's signal, the consumer of the
iterator, refresh and notification. Hard: line ends split between chunks, the timeout racing an abort or a response, a
session change between two events of one chunk, clean-up on every exit. Correct when the events do not depend on how the
bytes were cut, nothing is delivered after the session ended or the caller aborted, and body, reader and timer are always
released.

API declarations, the Axios adapter and error classes are mappings without state; their outcomes are events of AuthSession.

### Go gateway: the pipeline (sdk/go/gateway) - modelled

State per request: the route, the identity headers, the response recorder, the access-log entry. Configuration is
immutable. Operations: fourteen stages in a fixed order, the upstream, two deferred functions (recoverPanic and
finishRequest). Interactions: components of the project at most stages, net/http below the recorder, observers. Hard:
each stage may pass, refuse, fail or panic, the project's error responder may panic itself, an upstream may abort in
mid-body, two layers disagree about when a response has begun, an upgrade passes the recorder by, and the reverse proxy drops
headers after the gateway has set them. Correct when the order is kept, no client can plant identity headers, a refusal never
looks like a success, and log and observations tell what happened.

How route, client address, request ID and credential are computed (route.go, client_ip.go, request_id.go, credential.go)
is left to the verdicts of their stages. Validation at construction, the slog adapter of the access log, and JWT
verification (delegated to a library) keep no state between requests.

### Go gateway: rate limiter (sdk/go/gateway/redislimit) - modelled

State: a hash with tokens and updated_at_ms per client key, with a deadline. Operation: Allow, one run of a Lua script
with a time stamp of the gateway's clock. Hard: stamps are read before the script is sent, so they arrive out of order;
clocks differ; the Redis client repeats an Eval; the key may expire. Correct when no more tokens are taken than a full
bucket and the refill give, and the waiting time that a refused client is told is right.

### Storage service: process and readiness (services/storage) - modelled

State: the atomic flag ready, the outcomes of the current round of checks, the shutdown. Operations: the health loop,
the readiness gate of each protected request, SIGTERM. Hard: three kinds of goroutine write or read the flag; shutdown,
the ticker and slow checks overlap. Correct when readiness follows the stores, an exit is clean or reported, and nothing
can keep the process from exiting.

### Storage API: client, handlers, access policy, s3store (sdk/python/storage, services/storage, sdk/go/objectstorage) - modelled in the main

State: per call the attempt under way, per request to the service the attempt of the SDK below it, at S3 the object and the
multipart uploads; the compiled access policy and the validity periods are immutable. Operations: stat, delete, the presigned
requests, create, complete and abort of multipart uploads, upload_bytes and upload_file (a presigned request and a PUT), with the
checks of each in the handlers' order. Interactions: HTTP between three parties, each with a timeout and the first two with
retries. Hard: whoever waits may give up while what it asked for still happens; retries of two layers stack; one call of
the API must be authorised as exactly the capability it needs. Correct when outcomes are the truth, nothing is left on its way
by a call whose answers arrived, nothing happens that the access file does not grant, attempts do not multiply, and every
call returns.

Configuration and observability: the validity periods and what config.Load requires of them are modelled; the rest reads the
environment once and wraps counters. Of s3store the operations that the service does not call (Get, Put, List) and the
construction of its clients are left out.

### Python: the asynchronous clients (sdk/python/objectstorage, sdk/python/storage) - partly

State: per download a temporary file, a response and a thread that writes; per client its connection pools, whether it is
closed, and in the objects client the one task that closes it. Operations: download_file, opening, aclose, cancellation of
any task at any await. Hard: a file operation runs on in its thread when its task is canceled, perhaps several times; aclose
may be canceled and called concurrently; an attempt may break off after part of the file. Correct when a target is whole,
nothing is left open, no file is released under a thread, and a cancellation reaches its caller; section 5 says where the code falls
short of the last two. The synchronous clients run the same steps without cancellation; the other operations of the objects client are one library call each.

### Go Kafka (sdk/go/mq/kafka) - modelled where it is concurrent

checkTopic probes all brokers in parallel and returns at the first success; a probe's connection is closed by its watcher
or by its end. State: the contexts, the channel of results, per probe a connection and a sync.Once. Hard: first success
against last failure against cancellation. Correct when each connection is closed once and always, the outcome is what the
probes found, and every goroutine ends. Publishing goes to a client library.

### Go and Python logging (sdk/go/logging, sdk/python/logging) - modelled in the main

A recursive sanitizer with a budget of nodes and a depth limit shared between groups, and redaction by key. State: what
WithAttrs and WithGroup have collected. Hard: a name may come from WithGroup, a group, a map, a list or a LogValuer, and
the budget may end anywhere. Correct when exactly what may be shown is shown, under its names, within the budget. The
renderings of the Python formatter, circular containers, dictionaries with a key that is no string and exceptions are left out.

### Environment, HTTP server, JSON body (sdk/go/envconfig, http) - not modelled

Parsing of environment variables and constructors of net/http values; sequential, nothing shared.

## 3. How the models follow the code

### SessionStore

Redis runs a script atomically and its clock stands still meanwhile, so one action, Execute (or ExecuteDelayed), is one
run. `store[s]` is the session key, `score[u]` the sorted set, `deadline[u]` the deadline of the set; Tick moves Redis time
and removes what is past its deadline, as Redis does (a key is there at its deadline and gone after it; the script's load
already rejects it at the deadline, and this difference is kept). Corrupt, Loads, Active and IndexCorrupt are the script's
reads, RunCreate, RunOnSession and RunOnUser its branches, in the order of its checks, and Kept and SetDeadline its
deletions and its PEXPIREAT or DEL. A method call is `call[c]`: Create, CallOnSession or CallOnUser sends the Eval; Return,
DrawAgain, Resend and GiveUp are what can follow. Evals that nobody waits for any more sit in `delayed` and run or vanish
at any time. IDs are numbers since the script orders sessions of the same millisecond by ID.

SessionRegistry has neither keys nor network: Draw, Create, Renew, Revoke, RevokeAll, Expire. Under the mapping
`live[s] = store[s]` while s is live, every step of SessionStore is one of these or changes nothing.

### AuthSession

An action is the code between two awaits. `req[i].pc` is the await at which the request stands; `rounds[e]` holds the
RefreshRound objects of an EpochState in order of creation, the last being `state.round`. Start is capture and the
synchronous part of headers; HeadersReady sends; Respond, Deliver, Fail, Retry, Refused are what a response or an error
leads to; WakeFromRefresh and WakeFromNotification are the continuations of recover. The promises run on their own:
BeginRefresh and BeginNotification are the microtasks that compare the epoch and call the project, EndRefresh and
EndNotification its answers, SettleRefresh the finally that installs a new round. ChangeSession is the project's login or
logout, possible between any two actions. `header` and `credential` are versions: the number of the round whose refresh
saved the credentials. A request with an untrusted target never enters this machinery and is left out. getSessionEpoch
returns, and the session has an onUnauthorized (section 7).

### SseStream

`pc` is the await at which the generator stands, or "yielded" while it is the consumer's turn. Call, Fetch, Respond, Recover,
Refreshed, Notified, Read, ReadEnds, Continue and Return are its steps; Leave is the beginning of its finally block and Closed
the end. Interrupt is what waitFor does at every await when the caller's signal is aborted, TimerFires the connect timer.
A text is a sequence of pieces that no chunk divides (field names, colon, values, CR, LF), and Read takes any non-empty
prefix of what is left as a chunk. Parse is the parser's state after each piece of a chunk, a recursive function; Events, which
the properties compare with it, is defined on the whole text by the positions of line ends, blank lines and named lines, and shares with
the parser only how a line splits at its colon. It depends on nothing but the pieces and their order, so it says what the
events are however the text was cut.

### Gateway

`at` is the stage to run next, `trace` the stages that ran with their verdicts. The response has two layers: `wrote` and
`status` are the recorder's fields, `final` and `informed` what net/http has sent: it passes a 1xx on at once, then still
expects the final header. Fail is Gateway.fail with an error responder that answers, panics before it has begun or panics after.
ComponentPanics may happen wherever code of the project runs, with http.ErrAbortHandler or any other value; RecoverPanic and
FinishRequest are the deferred functions in the order in which they run. A custom error responder is assumed to use the status
it is given and to write something; nothing in the code enforces it.

`header` is what stripAndInjectIdentity makes of the identity headers, `forwarded` what the upstream is given of them. Between
the two ReverseProxy drops the hop-by-hop headers, those that the client's Connection header names included (`named`), and
Rewrite puts only the request ID back; a handler of the project (OwnHandler) gets the request as it is. UpstreamInforms,
UpstreamAnswers, UpstreamFails, UpstreamReturns and UpstreamAborts are what the proxy or a handler can do, any sensible
sequence of them. On a 101 the proxy hijacks the connection through the recorder's Unwrap (UpstreamHijacks) and writes the
101 to it (UpstreamSwitches), so that the recorder learns of neither; whatever is written to the recorder afterwards, by an error responder
for example, reaches nobody.

### TokenBucket

RunScript is the script; Allow reads the gateway's clock, Execute runs the script at some later time, Repeat is the Redis
client after a lost reply, GiveUp an error. Tokens are counted in units so that the refill of a tick is a whole number.
`taken` and `setback` are history: the tokens taken, and by how much executed stamps have gone back. Each caller's clock is
ahead of Redis by a fixed amount up to MaxSkew; the assumption ReasonablySynchronised makes precise what the comment on
RedisConfig asks for: the key must outlive a complete refill by more than the clocks differ.

### StorageService

`loop` and `results` are Health.Run and CheckAll, one action per check that returns and one that stores the outcome after all of
them; `main` walks through run: notified, readiness lowered, listener closed, draining, joining, exited. `canceled` is
runtimeCtx, canceled only after server.Shutdown has returned; `overdue` is the timeout of shutdownCtx. A request (`arrival`) passes
Accept, AuthenticateArrival, RequireReady and AnswerArrival. Its names are disjoint from those of StorageCalls, so that one module
of proofs extends both. Select statements with two ready cases are nondeterministic.

### StorageCalls

`call[c]` is the client's side: which attempt, of the control request or of the presigned PUT, and the outcome. `jobs` are the
requests at the service, `s3` the requests S3 may still execute, each with the attempt it belongs to; a request stays there
when its sender gives up. Handle is a handler with its checks in order (Verdict: middleware, decode, authorize, storeAndValidate,
the operation's fields, s3store's own); what may be wrong with a request is its flaw, found by exactly one of them. A
request that presigns is signed in place, any other goes to S3 once and then again as the SDK's standard retryer decides
(SdkAgain). Execute is S3: it performs the request or refuses with a status, and the answer is heard or lost. Answer is heard only by
the attempt that waits, and Received is what the client makes of a status. Cancel is the request context that ends with its
connection, TransportError the client's timeout. Allowed, which properties use, reads the access file without the loops of
Authenticate and Authorize.

### AsyncClients

An action is what a task does between two awaits, or what a thread or the close task does. `file[t]` is the temporary file with
the length written and the number of chunks read, so that a target is whole when the lengths agree at Finish. Cancel
delivers CancelledError where the task awaits: file_io and aclose of the objects client hold it (Holds) and raise it later
(Written, Joined); elsewhere the download is left at once, with the clean-up that its exception handlers do. Wherever a file that
is open is left, its close may fail (Lost): it flushes what was buffered, and its OSError takes the place of what was on its way.
AbandonWrite and CancelClosing cancel the inner tasks, that of file_io and that of aclose, as the end of the event loop does. aclose may be called
while another task is in `__aenter__`: what that opens while the close task is under way is closed with the rest, what it opens
afterwards is "stray". All tasks share one objects client, one storage client and one target.

### TopicCheck

`probe[b]` and `watcher[b]` are the two goroutines of a broker. Enter and Leave are the beginning and the end of closeOnce.Do:
whoever comes second waits until the first is done. `ended` is the caller's context, `canceled` probeCtx; Collect is the select of
checkTopic, which may take a result although the context has ended, and which then looks at the context again.

### LogSanitizer

A step is one call of add or one item of a loop in clean: work holds the calls to come, the next one in front, so that the call
stack of the sanitizer is a sequence, and a call that enters a container replaces itself by the calls for its items. AddNothing,
AddUnderGroup, AddByName, AddGroup and AddValue are the branches of add (and of clean, for the items of maps and lists) in the
order of their conditions; Exhausted is the end of every loop when the budget is spent. out is the tree of logFields as a list in which
each field names the place of its parent. Values are numbered so that a value holds older ones only, which is what makes a value
finite; what a number is and holds are constants (Kind, Items), and a key counts by its normalized form. Handle begins a record
of Go, Format one of the Python formatter, which cleans the members of a dictionary instead; Emit hands the record on. Replaced is what
fieldsObject does when a group becomes a Go map: a field is overwritten by a later one with its name, with all it holds.

## 4. What the runs show

| Run | Bounds | Properties |
| --- | --- | --- |
| session_store | one user, one client, three IDs, limit 2, lifetimes 1 and 2, one delayed Eval, two sends, two drawn IDs, time to 3 | IndexCoherent, SessionLimit, DeadStaysDead, RefinesRegistry |
| session_revoked_returns | the same, two IDs | RevokedStaysRevoked: violated |
| auth | two requests, two session epochs, one retry each | SingleRefresh, ReplayIsFresh, LogoutJustified, OutcomesFit, SessionBoundary, OnlyFreshRefusalsRefresh, EveryRequestSettles |
| sse_stream | three texts with every kind of line end, cut everywhere | EventsAreRight, Released, NothingLate, EndsAtLast |
| gateway | every configuration, upstream statuses 101, 200, 500 | FixedOrder, IdentityIsVouchedFor, RefusalIsVisible, LoggedStatusIsSent, FailuresAreObserved |
| gateway_informational | the same | UpstreamStatusIsKept: violated |
| token_bucket | two callers with clocks one tick apart, burst 1, rate 2/3 token per tick, two sends, three calls, time to 6 | TakenIsEarned, RetryAfterIsExact |
| storage_service | two namespaces, two requests | CleanExit, FollowsStores, ExitsOnceStopped |
| storage_calls | two calls, two attempts of the client and two of the SDK, three access files (one does not compile), a longest validity of 10 minutes, S3 failures 409 and 500, eight pairs of requests | OutcomesFit, NothingLeftBehind, OnlyAllowed, CreatesBounded, EveryCallReturns |
| async_clients | three tasks in three combinations, two chunks, two attempts, two cancellations | TargetIsWhole, NothingLeft, WrittenWhileOpen, CancelIsKept, EndsAtLast |
| topic_check | two brokers; a list with a duplicate and a blank, one of a single broker, one without any | ClosedOnce, OutcomeFits, AllEnds |
| log_sanitizer | fifteen values of every kind, nested up to five deep; budgets -1 (refused), 1, 3 (refused for its extra key), 4, 6 and the default 64; depths -1 (refused), 1, 3 and the default 8; two WithAttrs or WithGroup, records of up to two attributes | LeavesAreRight, BudgetIsExact |

Why the bounds are enough.

- session_store: the third ID forces the eviction of one of two sessions of equal or different age, lifetime 1 expires inside the run,
  lifetime 2 outlives its index mates, and the delayed slot lets a repeated create meet its own session, that session's
  successor, or its absence. Several users, several clients and different limits are covered by the proofs.
- auth: two requests suffice for a round that one starts and the other joins, for one that comes late with old credentials, and
  for the cancellation of the one that others wait for; two epochs for a round that settles under the next session. Each request
  recovers once. A third request is covered by the proofs.
- sse_stream: a line end is at most two characters, so a text with CR, LF and CRLF next to each other, cut at every
  position, meets every state of the parser; a call recovers at most once.
- gateway: requests share nothing, hence one; it comes with or without a Connection header that names the identity headers, to a proxy or to
  a handler of the project. 1,182,336 states. The statuses stand for a switch of protocols, a success and a failure;
  informational headers are bounded to one per request, since the first decides.
- token_bucket: a bucket of one token has a refill of 1.5 ticks, so rounding, expiry after four ticks, overlapping
  calls, their repetition and a wait that is somebody else's gain all happen before time 6.
- storage_service: two namespaces make a round that is half done, two requests one that drains and one that is too late.
- storage_calls: two attempts at each layer make a retry whose first request is still on its way, at the service or at S3. The pairs
  put on one upload or object what can disturb it: complete and abort, create and abort, upload and delete; every operation occurs, permitted
  calls and forbidden ones, an unknown token, and flaws of the body, the fields and the validity. The longest validity is below the default of 15 minutes, so that both refusals
  of a validity occur.
- async_clients: two chunks make a file that is half written, two cancellations one that arrives while another is held back, three
  tasks a client that is closed by three at once, or by two while the third opens it.
- topic_check: with two brokers one can succeed while the other fails, is silent, or is being closed.
- log_sanitizer: budgets of one, four and six end in front of, in and behind every kind of container in the pool, the default never
  does; two names from WithGroup, a group with a sensitive name and one that an attribute names again meet depth 1, 3 and 8; one value
  is a group in a list with a name used four times, so that groups are shared and overwritten below a Go map. 376,348 states.

Deadlock is checked where the system never ends (session_store, session_revoked_returns, gateway and gateway_informational with their
explicit Stop, log_sanitizer) and not where it does: requests settled, process exited, calls made or returned, tasks and
goroutines over. There the liveness property says that the end is reached.

Fairness.

- AuthSession: microtasks run, the network answers or times out, and the project's callbacks return (weak fairness of the steps
  of each request and of the promises of the rounds). Nobody has to start, cancel or change a session.
- SseStream: the connect timer fires, an abort reaches the await it interrupts, clean-up ends. The server may be silent for
  ever, so EndsAtLast is about calls that were aborted, and about a fetch with a timeout.
- StorageService: checks return within the timeout they are given, the ticker fires, the main goroutine and the timer of shutdownCtx
  advance. Nothing is asked of handlers and clients, so exit is shown with a handler that hangs; there is no strong fairness of
  select, so it may prefer the ticker to the canceled context for ever.
- StorageCalls: a call that has begun goes on, and httpx's timeouts end every wait. Neither the service nor S3 has to answer. (The timeouts are
  per phase; a server that sends a byte now and then for ever is outside the model.)
- AsyncClients: a write ends, the close task advances, and the event loop resumes a task whose await is over. Servers owe nothing; EndsAtLast
  is about tasks that were canceled and calls of aclose.
- TopicCheck: goroutines run, dialing ends with its context and reading with its connection. Brokers may be silent for ever. That
  dialing ends is an assumption on kafka-go, whose SASL handshake is part of it.

The other modules have no liveness property: their calls end when Redis or a component answers.

## 5. Where code and documentation disagree

Two disagreements are runs with a counterexample:

- A revoked session can come back (RevokedStaysRevoked). The only guard against a repeated create is EXISTS on the session key,
  and Revoke deletes that key. A create Eval that go-redis sent twice, or that the caller gave up on, and that runs after the
  revocation makes the session valid again, whereas docs/sdk/go/sessionauth.md says that later authentications answer 401. The
  weaker DeadStaysDead holds and is proved: without such an Eval nothing revives a session.
- A final status is lost after an informational one (UpstreamStatusIsKept). responseRecorder takes the first WriteHeader
  for the response; ReverseProxy forwards 103 through it, and the upstream's 500 then arrives as 200 while the access log says 103.
  A 101 is not concerned: it does not pass through the recorder (below).

Others were met while modelling. The models contain the behaviour, and the properties are stated so that they hold with it:

- A protected route may reach its upstream without an identity. A client's `Connection: X-User-ID` makes ReverseProxy remove the header that
  stripAndInjectIdentity has set (gateway.go:210), before Rewrite, which restores the request ID alone (proxy.go:102-113, whose
  comment knows of the removal). docs/sdk/go/gateway-configuration.md:39 and gateway-quickstart.md:43 describe a protected route as
  one that gets the trusted identity. IdentityIsVouchedFor therefore says what holds: no upstream sees an identity that nobody vouched for,
  and a protected route lacks one only if the client asked for it and the upstream is the built-in proxy.
- The access log says 200 for an upgrade (UpstreamHijacks, UpstreamSwitches): the recorder never hears of the 101 that the client gets,
  nor of a 502 that the error handler writes when the 101 could not be sent. LoggedStatusIsSent and RefusalIsVisible leave
  hijacked connections out.
- Any component that panics with http.ErrAbortHandler, not the upstream alone, is taken for a stream that the upstream broke off
  (gateway.go:222): the client gets an empty 200 and the log says upstream_stream_aborted. RefusalIsVisible leaves it out.
- aclose of the objects client closes nothing that `__aenter__` opens after it. When another task calls it while the S3 client is being opened, the
  close task may empty the stack first; then the client is pushed on it and stays open, since every later aclose finds the close task
  done (async_client.py:65, 96), although the docstring promises that the connections are closed (line 91). NothingLeft allows a pool that is open
  ("stray") only after such a call, and one ("open") that a canceled close task did not get to.
- A file that cannot be closed hides a cancellation: leaving `with` flushes it, and its OSError replaces CancelledError, in both clients
  (_files.py:17, storage async_client.py:469), whereas docs/sdk/python/objectstorage.md:54 promises that cancellation stays visible.
  CancelIsKept makes that exception, and no other but the next.
- A cancellation that arrives while `async with` of the objects client begins or ends is replaced by the error of a failing close, whereas
  docs/sdk/python/objectstorage.md:54 promises that cancellation stays visible. CancelIsKept makes that exception too.
- Readiness comes back while the storage service drains. The health loop is canceled after Shutdown has returned (main.go:101), so a
  round that is under way stores ready = true (registry.go:58, 88) after SetReady(false); docs/storage-service.md:109
  describes readiness as lowered before the drain. Such a process still refuses new connections; CleanExit holds.
- The same interval can be refilled twice. The bucket's script stores an older stamp over a newer one (limiter.go:46, 64), and the next call counts
  from the older one. TakenIsEarned says how much this yields: no more than the sum of the setbacks and the skew.
- An omitted validity is the longest one, not the configured default: the handlers use 15 minutes (presign.go:20, 53, multipart.go:48,
  validation.go:68) and never the default of docs/storage-service.md:83; with a maximum below 15 minutes an omitted expires_in is refused with 400.
- AsyncStorageClient.aclose leaves the data pool open when closing the control pool raises or is canceled (async_client.py:93-98).
  NothingLeft speaks of the pools of the objects client alone.
- docs/sdk/python/storage.md:123 says that creating and completing an upload is never repeated automatically. The client does not, but
  the AWS SDK in the service does (docs/sdk/go/object-storage.md:154). CreatesBounded says what remains true: SdkAttempts uploads at most.
- The SSE client reads an error body without a timeout, and an idle stream of a session that has changed stays open until its
  next chunk arrives (sse/client.ts); what is delivered is right all the same (NothingLate).
- Of fields with the same name in a nested group the last one alone is logged by the Go handler (fieldsObject);
  GaveWay says which leaves are lost by it, and LeavesAreRight that no others are.

## 6. What is proved

Each module with proofs states an inductive invariant IInv, shows that Init implies it and that every action keeps it, and derives the
theorems. No proof bounds the number of steps, and none assumes fairness.

**SessionStoreProofs**, for every set of IDs, users, clients and delayed slots, every limit, lifetime and number of repetitions:

| Theorem | States |
| --- | --- |
| TypeCorrect | []TypeOK |
| IndexesCoverKeys | [](IndexCoherent /\ NeverCorrupt): no method reports ErrCorruptSession for what the Store itself wrote |
| DeadSessionsStayDead | DeadStaysDead |
| SessionsWithinLimit | []SessionLimit |
| StoreRefinesRegistry | the store implements SessionRegistry |

Assumptions: StoreConstants (IDs are a finite set of numbers, lifetimes and limits positive, there is a client) and StoreNoSession (the
value for "no session" is no session). There is none about time or the network. Argument: IndexCoherent alone is not
inductive: a create that was delayed could index an ID under a user for whom it was not drawn, and a create that runs after its index changed
has to know that the ID is nobody else's. IInv adds RequestsOwned (each create on the way carries the user its ID was drawn
for), CallShape (what the phase of a call says about its request and reply) and NeverCorrupt. In a coherent state the script's own checks find
nothing (NothingCorrupt) and the members it loads are exactly the user's live sessions (ActiveIsLive), which reduces each
branch of the script to one of three writes (WriteNew, KeepOnly, RewriteExpiry). For each of them one lemma shows that coherence survives, one
which sessions are live afterwards, and one which step of SessionRegistry it is. The limit follows by counting
(AddsWithinLimit, FewerWithinLimit): a create brings the user within the limit of the store that runs it, and any other step
can only lose sessions.

**AuthSessionProofs**, for every set of requests, every number of epochs and of retries:

| Theorem | States |
| --- | --- |
| TypeCorrect | []TypeOK |
| RefreshesAlone | []SingleRefresh |
| ReplaysAreFresh | []ReplayIsFresh |
| LogoutsAreJustified | []LogoutJustified |
| OutcomesAreRight | []OutcomesFit |
| SendsAreBounded | []SendsBounded |
| SessionsKeepApart | SessionBoundary |
| LateRefusalsJoin | OnlyFreshRefusalsRefresh |

Assumption: AuthConstants. Argument: the invariant speaks of one round (RoundOK) and one request (RequestOK) at a time. RoundOK says
that every round but the last has settled, that a recovered round left credentials at least as new as itself, and which verdicts
a session that is over can still hear; this alone makes refreshes exclusive. RequestOK ties a request to its round: a first send
carries credentials no older than every earlier recovered round, a replay those of its own, and the count of sends follows the
retries and the one recovery. Rounds are shared and requests are many, so the proof never looks at both in full: every step
satisfies Advance (nothing a round has said is taken back, sessions only advance), which keeps RequestOK for the requests the
step does not move, and each action is checked only for its own request or its own round. LateRefusalsJoin is what capture
buys: the round is taken together with the headers, so a refusal that comes late finds its own round settled and joins it.

**SseStreamProofs**, for every text a server may send, of any length and over any pieces, and every way to cut it into chunks:

| Theorem | States |
| --- | --- |
| TypeCorrect | []TypeOK |
| EventsInOrder | []EventsAreRight |
| AllReleased | []Released |
| NothingTooLate | NothingLate |

Assumption: SseConstants (a text is a sequence of pieces). EventsAreRight compares two descriptions of the events that share no
recursion: the parser's, piece by piece, and Events, by positions in the whole text. Alone it is not inductive, since it says nothing of a line
or an event that is only half there when a chunk ends. The invariant CallInv adds Parsed: the parser is in the state At, which says by
positions what it must hold in front of the next piece (the unfinished line, data and event since the last blank line, the last id, whether the last
piece was a CR), and what has been yielded is the events up to there. The argument then has three parts.

- One piece: ConsumeAt shows that Consume takes At from one position to the next, with lemmas on how the sets of line ends, of blank
  lines and of named lines grow by a position (LineNext, InBlockNext, EventNext, OrderedAdded).
- One chunk: ParseIs gives the recursion of Parse as an equation, ParseAt goes through it, and YieldFits and DeliverFits follow the
  generator, which yields what a chunk completed one event at a time and parses on.
- More text: SameLines, SamePast and SameUpto show that At and Events up to a position do not change when a chunk is appended, so that
  FitsLater carries the invariant over a Read. This is where CR LF divided by a chunk matters: the line has ended at the CR, and the LF
  that comes later ends no other.

All three need induction over positions, which the library's rules for natural numbers, having an operator for a parameter, do
not give here. It is done in first-order form instead: LeastNumber (a set of numbers that is not empty has a least
one), from NatLessThanWellFounded and WFMin, is applied to the set of positions at which the statement fails.

Counted (what the one recovery says about the number of requests) and Held (in which states timer, controller, body and reader
may be in use) make Released inductive. NothingTooLate needs no invariant: each step is examined alone.

**GatewayProofs**, of Gateway, for every set of statuses an upstream may answer with (any final status, 101 included):

| Theorem | States |
| --- | --- |
| TypeCorrect | []TypeOK |
| StagesInOrder | []FixedOrder |
| IdentityVouched | []IdentityIsVouchedFor |
| RefusalsSeen | []RefusalIsVisible |
| StatusLogged | []LoggedStatusIsSent |
| FailuresSeen | []FailuresAreObserved |

Assumption: GatewayConstants. Argument: for the order every step is one of three (Kinds): it passes the request on to the
stage that follows, it ends the request, or it leaves the trace alone; Rank numbers the stages, so that Follows becomes
arithmetic and the invariant can say that every stage in the trace comes before the one that is next. For the response every
step has one of ten effects (Effects), and Agrees relates what the recorder holds to what net/http has sent: while no
informational status has gone out they are the same, which is what StatusLogged needs and what UpstreamStatusIsKept violates.
RefusalIsVisible speaks of the end alone; its invariant (Refusals) says in addition that nothing has been written while the
request is in a stage or panicking, so that the responder, and the handler that recovers its panic, still decide the status.
IdentityIsVouchedFor needs that a protected route cannot get past the authenticator without its entry in the trace, that the
route no longer changes, and what has become of the headers before they were forwarded. A hijacked connection leaves the recorder as it is and
ends what StatusLogged can say.

**GatewayProofs**, of TokenBucket, for every set of callers, burst, rate, life of the key and skew:

| Theorem | States |
| --- | --- |
| TakenStaysEarned | []TakenIsEarned |
| WaitIsExact | []RetryAfterIsExact |

Assumptions: BucketConstants and ReasonablySynchronised. Argument: TakenIsEarned does not mention what the bucket holds, so
the invariant (BucketInv) adds the balance (tokens taken plus tokens held, less the refill up to the stored stamp, never exceed a full
bucket and the setbacks) and what is known of stamps (none is ahead of Redis by more than the skew). When the key expires the held
tokens are forgotten and a full bucket appears; the balance survives since in the life of the key a complete refill was
earned, even by the slowest clock. That is where ReasonablySynchronised is needed, and nowhere else. WaitIsExact rests on Waiting: since a
caller was refused, and as long as nobody took a token or stored an older stamp, the bucket was only refilled, so what it
held then and the time since decide the answer; CeilDivIsCeiling turns the script's division into the two inequalities.

**StorageProofs**, of StorageCalls, for every set of calls, requests, access files and services, every number of attempts at both layers and
every set of S3 failures:

| Theorem | States |
| --- | --- |
| TypeCorrect | []TypeOK |
| TruthTold | []OutcomesFit |
| NothingFollows | []NothingLeftBehind |
| OnlyAllowedHappens | []OnlyAllowed |
| CreatesAreBounded | []CreatesBounded |

Assumption: CallConstants. Argument: an action is one of one call, and what the others have on their way stays (OthersStay,
StepKeeps), so that the invariant speaks of one call: Travels, whatever is on its way was allowed and belongs to an attempt
that was made; Fresh, an upload ID is used once, by the only attempt of a create; Chained, without a lost answer there is one chain of
requests, each waiting for the next; Told, what an outcome says. For OnlyAllowed the loops of Authenticate and Authorize are shown
to find what Allowed describes (OneHolder and its successors): CompilePolicy refuses a token that two principals hold.

**StorageProofs**, of StorageService, for every set of namespaces and requests: ServiceTypeCorrect ([]ServiceTypeOK) and ExitsClean
([]CleanExit). What run reports at its end was decided earlier, so the invariant ServiceInv says it from there on: Drained, since
Shutdown returned without error no request is left and none can come; Lowered, since the loop ended the flag is down. Assumption:
ServiceConstants (there is a namespace).

**AsyncClientsProofs**, for any number of tasks, chunks, attempts and cancellations:

| Theorem | States |
| --- | --- |
| TypeCorrect | []TypeOK |
| TargetsWhole | []TargetIsWhole |
| WritersHaveFiles | []WrittenWhileOpen |
| LeavesNothing | []NothingLeft |
| CancelsSurface | []CancelIsKept |

Assumption: ClientConstants (one `async with` block per objects client, which is how the client is documented). The invariant
follows the file of a task (Writes), what its outcome says of it (Ended), what is held back (Holding) and who may have opened and closed the
pools (Closing): a close task that has ended by itself left none open, what is opened later is "stray", and that takes an aclose of another
task, since the block itself calls aclose only when it has stopped opening. The two exceptions of LeavesNothing and of CancelsSurface
are those of section 5.

**TopicCheckProofs**, for every set of brokers and every list of them: TypeCorrect ([]TypeOK), ClosesOnce ([]ClosedOnce) and
OutcomeIsFound (OutcomeFits). Assumption: TopicConstants. Argument: Placed says where a broker's two goroutines can be at the
same time, Guarded that whoever is inside the sync.Once is the one that holds it, Reported that a result in the channel is that of a probe
which has ended.

**LogSanitizerProofs**, for every pool of values, nested to any depth, all options, any number of collected attributes and groups and
any length of a record:

| Theorem | States |
| --- | --- |
| SanitizerTypes | []TypeOK |
| BudgetStaysExact | []BudgetIsExact |
| LeavesStayRight | []LeavesAreRight |

Assumption: LogConstants (values hold older values, the elements of a list have no name, names of groups are not empty: slog and
WithGroup see to the last). Argument: LeavesAreRight speaks of a record that is finished and says nothing of one in the middle, so
SanitizerInv adds Telling: the leaves the record was given are those that have been told or dropped, followed by those of the
calls to come (TodoIn), in the order of the record, unless the budget has cut the rest off; what has been told are exactly those of the first part
that may be shown. For a step to keep that, a call must stand at a field whose names may be shown, one level above its depth
(Placed); a parent must be older than its children (Tree), so that a new field leaves all earlier paths alone; and a group must be open
exactly when its names may be shown (GroupsFit), since a group that is closed swallows whatever comes later under its name.
OneGroupPerName and the equation of the budget give BudgetIsExact. CallStep says what an action owes the invariant, and one
lemma per action pays it. ReplacedGaveWay adds the Go maps at the end: a field that is not logged has an ancestor, or is itself a field,
with a younger namesake that is.

Path, Replaced, Leaves and FlattenSeq are recursive functions, and for TLAPS such a function is whatever satisfies its equation,
if anything does. RecursionExists shows once that a recursion to earlier places has a solution; PathIs, ReplacedIs, FlattenIs and
LeavesIs derive the equations from it, the last by joining the functions on the values before n (PartialIsUnique, PartialExists). The inductions
over positions and values use LeastNumber, as in SseStreamProofs.

Only model-checked: the liveness properties (EveryRequestSettles, FollowsStores, ExitsOnceStopped, EveryCallReturns, EndsAtLast of
SseStream and of AsyncClients, AllEnds), since fairness and ENABLED are out of the prover's reach. Every other property of a
passing run is a theorem.

## 7. What is not modelled, and why

- Redis time going back, and a failover that loses writes: the code states no behaviour for either. Clocks of gateways differ by a
  fixed amount; one that jumps is not modelled.
- An epoch that is used twice: the contract of getSessionEpoch excludes it. A getSessionEpoch that throws (session.ts:40), which ends the request
  with an "auth" error wherever the session is checked; and a session without onUnauthorized (session.ts:151), whose requests fail without a
  notification.
- Removing a temporary file (unlink) succeeds in AsyncClients; an error of it would be raised like that of a close.
- Containers that hold themselves (the Python formatter cuts them off, the Go sanitizer stops at the depth and the budget), and a dictionary
  with a key that is no string, whose nodes stay paid for although it is replaced.
- The rounding of tokens in floating point and in tostring: TokenBucket is exact.
- That http.ErrAbortHandler is swallowed by recoverPanic is modelled (UpstreamAborts, ComponentPanics); nothing in the repository says what the
  client should see, so no property judges it.
- The computation of a gateway stage's inputs (route table, client address, request ID, credential), the escaping of Redis keys, envconfig, the
  HTTP server and JSON body helpers: pure and sequential, and tests reach them as well as a model would. Their outcomes are inputs of the models.
- s3store's Get, Put and List, which nothing in the repository calls concurrently; the synchronous Python clients, which run the steps of the
  asynchronous ones without cancellation; publishing to Kafka, which is the client library's.
- Wording, formatting, JSON and header syntax, the renderings of the Python log formatter, and what AWS, Kafka, Axios and
  the JWT library do inside.

## 8. Plan

What is left, in order of weight:

1. StorageService and StorageCalls in one module: the flag ready as the loop sets it, and a shutdown that meets calls of the
   client, shown to implement StorageCalls by a refinement that can be proved with the two invariants at hand.
2. The gateway's inputs as pure functions against reference definitions: the client address behind trusted proxies, the
   route table, the credential; the escaping of Redis keys is injective.
3. A clock that jumps, for TokenBucket (the balance then has to count jumps as setbacks) and for SessionStore (a session from the future).
4. A second upload_file in StorageCalls on the same target, with the local file changing between attempts.

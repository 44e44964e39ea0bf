# OmniRelay in TLA+

OmniRelay is a relay for language-model APIs: clients send OpenAI-, Anthropic- or
Gemini-shaped requests with an OmniRelay API key; the Go server picks an upstream
provider and one of its keys, sends the request, converts the answer, streams it
back, logs the usage and shows it live to the user's browser over a WebSocket.
State is in one SQLite database and in the memory of one process.

This directory models the part of `src/backend` where order, interleaving and
failure matter, and says what is checked and proved about it.

Contents: 1 inventory, 2 modules, 3 runs, 4 bounds, 5 fairness, 6 proofs,
7 disagreements found, 8 what is not modelled, 9 plan.

## 1. Inventory

All paths are under `src/backend/internal` unless they start with `src/`.

| Component | State | Operations | Talks to | Hard behaviour | Correct when |
|---|---|---|---|---|---|
| Upstream key pool and failover (`proxy/upstream.go`, `service/provider_service.go`) | `providers`, `provider_api_keys`; the round-robin cursor `rr` | `tryKeys`, `ListActiveKeys`, `NextStartIndex`, `DeactivateKey`, `AddKey`, `SetKeyActive`, `DeleteKey`, `Create`, `Update` | called by every proxied request; upstream over HTTP | requests race with administrators and each other; late 401s; restart forgets the cursor | each key tried once, no response body leaks, a refused key stays out, a removal leaves the pool a key |
| WebSocket hub (`hub/hub.go`, `handlers/ws.go`) | connections of each user, a buffer and `done` channel per connection | `Register`, `Unregister`, `Broadcast`, `ReadPump`, `WritePump` | fed by the usage log | three goroutines may end one connection; full buffers | a stream has no gap, what is done is cleaned up, nothing panics |
| API key quota (`service/apikey_service.go`, `service/usage_service.go`) | `api_keys`, `usage_logs`, a 30 s token cache | `Validate`, `checkRateLimit`, `checkTokenLimit`, `Log`, `InvalidateTokenCache`, `Delete` | middleware of every proxied request | check and log are a whole request apart; fill races with invalidation | overshoot bounded, nobody overcharged, cache settles |
| Streaming relay (`proxy/stream.go`) | head, held chunks, Responses buffer, `atLineStart` | `handleStreamResponse`, `handleRawStreamResponse`, `startKeepAlive`, `responsesBuffer` | upstream body, client connection | chunks respect no line; two goroutines write; errors come late | nothing lost, comments between lines, an error is seen as one and logged as one |
| Accounts (`service/auth_service.go`, `service/totp.go`, `middleware/jwt_auth.go`) | `users`, reset codes, recovery codes, tokens | register, login, roles, reset, 2FA | handlers | count-then-insert and count-then-change, double use of codes, stale role in tokens, a second factor replaced while it is being enabled | an administrator remains, late registrations are users, a code works once, an enabled factor has a secret its owner confirmed, a demotion takes effect when the tokens have expired |
| Login limiter (`handlers/login_ratelimit.go`) | attempts per address | `allow`, `reset`, `evictIfNeededLocked` | login handler | full table | a limited address stays limited |
| Model catalogue (`service/model_service.go`, `modelsdev.go`) | `models`, cached models.dev | `SyncFromProvider`, `FindByFullID` | HTTP, database | HTTP inside a transaction that holds the only connection | a sync keeps the prices an administrator set; a request is billed at a price its model had |
| Migrations (`database/migrations.go`, `sqlite.go`) | `schema_migrations` | `runMigrations` | all services | a process stopped between statements, two processes on one file, files of any earlier release | any file any release left can be brought up to date, no key is lost or carried over twice, the schema does not change under a serving process |
| Access lists and routing (`proxy/proxy.go`, `proxy_helpers.go`) | `user_providers` | path routing, model resolution | all proxied requests | four queries per request while rows change; an empty list means everything | a request goes to the provider it names, to one its user was allowed, to an active one |
| Adapters (`proxy/*_adapter.go`, `responses*.go`, `messages_stream.go`) | per-stream event state | request and response conversion | streaming relay | a read ends inside a line; text, leaked and real tool calls alternate | items open and close in order, deltas add up to the finished item, what was received is delivered, the tokens are charged |
| Tool call recovery (`proxy/tool_call_fix.go`) | none | text parsing | streaming relay | | |
| Usage feed (`proxy/usage_log.go`, `service/performance_service.go`) | `usage_logs` | log, broadcast of totals | hub | one goroutine per broadcast | newest total last |
| HTTP handlers, configuration, encryption (`handlers`, `config`, `crypto`) | none of their own | bind JSON, call services | services | | |
| Server process (`src/backend/cmd/server/main.go`) | the memory of all of the above | start, graceful shutdown | | restart in the middle of requests | |
| Web client (`src/frontend`) | Pinia stores, a reconnecting WebSocket | | HTTP API, hub | reconnect while an old socket closes | |

Facts that shape every module: `database/sqlite.go` limits the pool to one
connection, so one SQL statement is one atomic step, and nothing longer is unless
it is a transaction; every HTTP request and every pump is a goroutine.

## 2. Modules

| Module | Models | State and actions |
|---|---|---|
| `FailoverContract` | what a proxied request is promised, without database, cursor or bodies | `pool`, `failed`, `verdict`; `Offer`, `Fail`, `Answer`, `Exhaust`, `Refuse`, `Lose` |
| `KeyFailover` | `upstream.go` and the key operations of `provider_service.go` | one action per SQL statement and per attempt: `Resolve`, `ListKeys`, `CountRows` (the legacy fallback), `DrawStart`, `Attempt` (until the new response is there), `CloseLast` (the previous one is drained and closed), `Deactivate`, `Reply`; `CreateProvider`, `UpdateProvider`, `InsertKey`, `AddKey`, `EnableKey`, `CountActive`, `LookAtKey` and `RemoveKey` (the three statements of disabling and deleting); `Restart` loses cursor and requests |
| `Hub` | `hub.go`, `handlers/ws.go` | the mutex `holder`, buffers `events`, `done`/`once` of each connection; pumps and broadcast in the steps between which another goroutine may run |
| `KeyQuota` | `apikey_service.go`, `Log` of `usage_service.go`, the key middleware | one action per statement: `ReadKey`, `CheckRate`, `LoadCache`, `SumTokens`, `StoreCache`, `InsertLog`, `Invalidate`; `Delete`; `Tick` |
| `StreamRelay` | `stream.go` | `Read` (one turn of the loop for one chunk), `Write` (one `streamWriter.Write`), `EndOfBody`, `DirectBegin`/`DirectEnd` (the error body, written without the mutex), `Return`; `PingBegin`/`PingEnd`/`PingerExit` of the keepalive goroutine |
| `EventStreams` | `handleResponsesStream`, `handleMessagesStreamResponse`, the chunk parsers of the three adapters and the event builders (`responses_stream.go`, `messages_stream.go`, `*_adapter.go`) | the lines a provider sends, the reads that return and tear them, the item that is open, the text that is held, what is on the wire; `Arrive`, `Read` (which may tear a line), `ResponsesLine`, `MessagesLine`, `EndResponses` and `EndMessages` with the row they log; `Ping`, the keepalive of the Responses handler |
| `Accounts` | `auth_service.go`, `totp.go`, `jwt_auth.go`, the handlers of `handlers/auth.go` | the tables `users`, `recovery`, `resets`; a token per client; a handler is `pc` and `job`, one action per SQL statement or transaction; `Fail` is a statement that fails, `Expire` a token's end |
| `Dispatch` | providers, models and access lists under the administrator's handlers, and `resolveDispatch` and `HandlePathRouted` of `proxy.go` | the tables `providers`, `rows`, `access`; `tx`, the transaction of `SyncFromProvider` that holds the connection; an administrator's session and a request are each a sequence of statements |
| `Migrations` | `migrations.go`, `sqlite.go` and the services' writes to a migrated file | the committed `file`, the `lock`, a transaction's copy `tx`; a version is a list of statements; `Start`, `ReadVersion`, `Begin`, `Up` (one statement), `RecordVersion`, `Commit`, `Migrate` (nothing is left to do: serve), `Stop` at any point; `CreateProvider`, `ChangeKeys` while serving |
| `MC*` | | constants, bodies, populations and symmetry for TLC |
| `KeyFailoverProofs`, `HubProofs`, `StreamRelayProofs`, `EventStreamsProofs`, `AccountsProofs`, `KeyQuotaProofs`, `DispatchProofs`, `MigrationsProofs` | | theorems about the module of that name (section 6) |

How they compose: `KeyFailover` is the part of a request that `Dispatch` ends in
(a provider was chosen, its keys are tried), `KeyQuota` the part before it, and
`StreamRelay` and `EventStreams` the part after it. `KeyFailover` instantiates
`FailoverContract` and is shown to implement it. The others share no state but the
database, whose one connection makes a statement the common unit of interleaving.

Abstractions worth knowing:

- `KeyFailover`: one provider, active while it exists (switching a provider off
  or deleting it is not modelled); secrets are values, ciphertexts are their
  secrets, and a secret in `Unreadable` does not decrypt. Statuses are
  classed by whether another key could change the outcome. `refused`, `tried`, `ticket` and
  `overlapped` (the removals during which somebody else changed which keys are active) are
  history.
- `Hub`: an event is its user and number. `holder = "wedged"` is the mutex after
  a panic under it. `published`, `since` and `sent` are history.
- `KeyQuota`: one API key, one log per request. The clock is shared by the program
  and the database; `Tick` is a unit in which the cache lives `TTL` and a minute
  has `Minute` ticks. With `DbFaults` a statement may fail.
- `StreamRelay`: the body is a sequence of events, each in two halves, and a
  `Read` returns any run of halves: this is every way to split a line once.
  Whether the half of a torn event still shows the text a test looks for
  (`content`, `[DONE]`, `"type":"response.`) is open, which covers the 15-byte
  carry of `responsesBuffer.observe` hitting and missing. The head is opened by any
  chunk with `finish_reason` or the substring `content` in it, which a role chunk with
  an empty content has too: the events whose line has one of them are `loud`, those with text
  always and any other but `[DONE]` or not, as the initial state chooses. Read errors after the
  first chunk and the end of the body are the same to the code and to the model.
  A converting adapter stands for Anthropic's and Gemini's: one line for each
  whole event, an empty delta for none. Anthropic's stop markers, which suppress
  text counting just as `[DONE]` does, are not separate kinds.
- `EventStreams`: a line is its kind, the tool call it belongs to and its position,
  which stands for its text, arguments or count. A read ends after some lines or in
  the middle of the next one; a line torn so is `lost` to the adapters, which see one
  read at a time, unless `handleResponsesStream` joins it again from the bytes an
  adapter passed through. A body may end inside a line: for Anthropic's Messages
  stream, which is passed on byte by byte, that `Half` is part of the answer. A keepalive
  comment carries nothing and fixes the status, so that `pinged` and `status` stand for it
  and it is not on `wire`. The marker of the upstream's protocol, the type a provider
  names and the JSON are left out; that Anthropic's and Gemini's parsers drop lines
  the OpenAI one keeps is in the model.
- `Accounts`: a TOTP code is the secret that generates it, a password matches or does not. `raced`
  says that two role changes (or deletions) have overlapped, `mixed` the same of one account's
  two-factor changes; what the code does not promise in those cases is excused by them and by
  nothing else. Which accounts, factors and reset codes there are is drawn from `Populations`.
  With `DbFaults` a statement that writes, or a count, may fail: its handler answers with an
  error, but for the count of `Register`, whose error is taken for 0 (`word` is then "blind").
- `Dispatch`: the price of a model is none, the published one or the
  administrator's. One administrator account has one session per browser. Foreign keys
  are not enforced (the driver ignores `_foreign_keys=on`), so that rows outlive the
  rows they name, and the model keeps them. `keyOf`, `routes`, `usable` and `agreed` are
  history: what every id was called, every row inserted, what a user was ever allowed
  during its request, and the price the request's model had. A provider does not change
  its type, and a list of sources has one entry at most; an update with an empty one ("relist")
  deletes the models of a custom provider. Access lists may name ids that no provider has.
- `Migrations`: a database is its recorded versions, the columns and indexes that
  versions add and drop, and the data they move. The rows of `providers` go with the table when
  version 10 drops it; what it has then is what was `copied` before to the table that is
  renamed. The files at the start are every
  prefix of the versions, the file older than the table of versions (`Early`), and those of the
  releases that recorded 14 to 16 with and without `provider_api_keys`. `Stop` is a crash,
  a signal or a failed statement: in each, SQLite rolls the transaction back. The loop's
  `continue` is the number of versions it passes over (`Passed`), the list being in their order.
  The provider created while serving (`NewId`) is none of those an earlier release left (`Kinds`).

Operators whose comment begins with "Variant:" are plausible wrong versions of the
operator that follows. No specification uses them; substituted for it, each makes
one property fail, which shows that the property says something about the code.

## 3. Runs

Run with `tlc -config <run>.cfg <MC module>`; PROJECT.json has the pairs.

| Run | Question | Answer |
|---|---|---|
| `KeyFailoverSafety` | two requests and an administrator race over two secrets: no response body is forgotten (`NoBodyForgotten`), starts are spread (`SpreadStarts`), a refused key stays out (`RefusedStaysOut`), a late 401 turns off the row that was refused and not its successor (`DeactivatesRefusedKey`), and the loop refines `FailoverContract` (`ImplementsContract`); `TypeOK` | hold |
| `KeyPool` | two administrators, a request that may be refused, one restart, pools of up to two keys, one of them unreadable: does a removal leave the provider an active key unless somebody else changed which keys are active between its count and its write (`RemovalLeavesAKey`), does every request end (`EveryRequestEnds`)? | hold |
| `KeyPoolTwoAdmins` | does the pool keep a key with two administrators (`PoolKeepsAKey`)? | violated |
| `HubSafety` | are streams without gap, duplicate or foreign event (`UnbrokenStream`), complete, and is an unlisted connection always told to stop (`NothingMissed`)? | hold |
| `HubCleanup` | does what is done leave the hub and do both pumps end (`DoneIsCleanedUp`)? | holds, panics aside |
| `HubPanic` | can anything panic (`NoPanic`)? | violated |
| `QuotaSafety` | is the overshoot over the rate bounded by the requests in progress (`OvershootBounded`), is nobody charged for what was not logged (`NeverOvercharged`), is the cache right once logging stops (`EventuallyConsistent`)? | hold |
| `StreamSafety` | is every byte in exactly one place and in order (`NothingLost`), no line split by a comment (`PingSplitsNoLine`), no leak beside its replacement (`LeakReplaced`), the header held until a line with `content` or `finish_reason` and the log what the client saw (`LoggedAsSeen`), `[DONE]` sent (`Terminated`)? | hold |
| `EventStreamsSafety` | three providers times two interfaces, reads that tear lines: do items open, grow and close in turn (`ItemsFollow`), do the deltas make the finished item (`DeltasAddUp`), is all text and every call that was seen delivered (`AllDelivered`), is an error the last event of its answer and, unless content or an end came before it, the only one (`RefusedClean`), has a message the shape its protocol demands (`MessageShape`), are the tokens charged that were read (`Charged`)? | hold |
| `AccountsSafety` | two clients at any statement of any handler, any of which may fail: is there always an administrator (`AnAdminRemains`), is a registration after the first a user's when its count succeeded (`LatecomersAreUsers`), does a recovery code work once (`RecoveryCodeOnce`) and a reset code reset once (`ResetOnce`), has an enabled factor a secret that was confirmed (`FactorIsUsable`), does a demotion or deletion take effect (`DemotionTakesEffect`)? | hold |
| `DispatchSafety` | a request between the administrator's statements: does it go to an active provider its user was allowed while it ran (`SentWhereAllowed`), to the one it names or its model was routed to (`SentAsNamed`), is a price an administrator set kept by later syncs (`PriceKept`), does every request end (`RequestsEnd`)? | hold |
| `MigrationsSafety` | two processes, stopped anywhere, on any earlier release's file: can it always be brought to the last version (`Resumable`), is every legacy key carried into the pool once (`KeysCarriedOnce`), is nothing else lost (`NothingLost`), and does nobody change the schema under a process that serves (`ServedUntouched`)? | hold |

The types of `Hub`, `KeyQuota`, `StreamRelay`, `Accounts`, `EventStreams`, `Dispatch` and
`Migrations` are the first conjunct of the structural invariant of the run.

Four further configurations show what the code does not keep; TLC finds each
violated in seconds:

| Configuration | Module | Question | Answer |
|---|---|---|---|
| `KeyRefusedReturns` | `MCKeyFailover` | does a refused key stay away after its row is deleted (`RefusedNotFallback`)? | violated |
| `QuotaStale` | `MCKeyQuota` | is a request judged by all logs finished before it (`JudgedOnKnownUsage`)? | violated |
| `StreamTwoWriters` | `MCStreamRelay` | is `c.Writer` used by one goroutine at a time (`OneAtTheWriter`)? | violated |
| `StreamLateError` | `MCStreamRelay` | is an interruption always a 503 (`InterruptionIs503`)? | violated |

## 4. Bounds

- Keys: two requests and one or two administrators suffice for every pairwise race; `MaxId` 2
  allows a pool of two, wrap-around of the cursor, and a deletion followed by an addition.
  Restarts (`MaxRestarts` 1), unreadable keys, "busy" answers and a second administrator are in
  `KeyPool`, races of requests in `KeyFailoverSafety`, refusals in both; the theorems of section 6
  cover them together, and pools of any size. `rr` needs no bound: it moves once per request.
- Hub: two connections of one or two users, two broadcasters, `BufferSize` 1 (full
  after one event, 16 in the code), `MaxEvents` 2: one queued, one too many.
- Quota: three requests (one to fill the cache, one to log, one to be judged),
  limits of 1 and 2, amounts 0 and 2. `Minute` and `TTL` are small numbers of ticks,
  `TTL` the smaller one.
- Streams: bodies of one to three events chosen so that each pair of kinds the
  code treats differently meets, each with every choice of its `loud` lines; up to two
  keepalive comments (`MaxPings`).
- Event streams: five lines (`MaxLines`) are an opening, text, a call with arguments, text again
  and the end, or any other mixture; two calls (`MaxCalls`) can interleave; two
  lines wait for a read at most (`MaxInRead`), so that a read returns none, one or both
  and may tear the second.
- Accounts: two clients, each at any statement of any handler. The populations are two
  accounts (roles), one account with two reset codes, and one with an authenticator; one
  password, two TOTP secrets (a set-up may replace the other's), one recovery code. `DbFaults`
  lets statements fail.
- Dispatch: one user, two sessions of the administrator, one request; two real providers and
  a custom one, one model. `MaxIds` 4 is one provider created after the three, `MaxRows` 5
  the imports and re-imports, `MaxEdits` 2 two overlapping operations of any kind. The user's
  list starts unrestricted or as `{1, 3}`, one real provider and the custom one.
- Migrations: two processes meet on one file, and three starts (`MaxStarts`) allow each
  to stop and one to come back. The versions and their statements are all there.

Deadlock is checked but where the system really may stop: in `Hub` (a panicked process does
nothing more, and a connection is not opened twice), `Accounts` (administrators who delete
each other at once may leave no account), `EventStreams` (the handler returns), `Dispatch`
(the operations are bounded and may all be done) and `Migrations` (so are the starts). In
`StreamRelay` a handler and a keepalive goroutine that have both returned stutter
(`Over`), so that its deadlock check says that neither is ever stuck before.

## 5. Fairness

- `KeyFailover`: weak fairness of each request: its goroutine is scheduled and the
  upstream client has a timeout of five minutes. None for administrators.
- `Hub`: weak fairness of pump steps and of broadcasts, strong fairness where a step
  needs the mutex (Go's mutex hands over to a starved waiter); none for clients
  that close, register or fill their buffer. A blocked `ReadMessage` must return
  only when its socket was closed.
- `KeyQuota`: time passes, and a request that can go on goes on.
- `Accounts`: tokens expire, since the clock does not stop; nobody is made to finish
  a handler or send a request.
- `Dispatch`: a request's handler runs, a session's handler runs, and the fetch inside
  the transaction ends, because its client has a timeout; `database/sql` hands the freed
  connection to a waiting statement.
- `StreamRelay`, `EventStreams`, `Migrations`: none; they have no liveness property. (Whether a
  server comes back after a failed migration is nobody's promise: the image's entry point
  `src/Dockerfile` starts it in the background once, and a fatal error leaves it ended.)

## 6. Proofs

For all constants that meet the named assumption of the module (`ConstantsAssumption`,
`HubAssumption`, `StreamsAssumption`, `BoundsAssumption`, `AccountsAssumption`, `KeyQuotaAssumption`,
`DispatchAssumption`, `MigrationsAssumption`), and from nothing else:

| Module | Theorem | Statement |
|---|---|---|
| `KeyFailoverProofs` | `TypeCorrect` | `Spec => [](TypeOK /\ HasKeys)`: types, and a request in the loop has keys |
| | `RefusedKeysStayOut` | `Spec => []RefusedStaysOut` |
| | `RightKeyDeactivated` | `Spec => []DeactivatesRefusedKey` |
| | `NoBodyLeaks` | `Spec => []NoBodyForgotten` |
| | `LoopImplementsContract` | `Spec => ImplementsContract`: the loop refines `FailoverContract` |
| | `StartsAreSpread` | `Spec => []SpreadStarts` |
| | `NoRemovalEmptiesThePool` | `Spec => RemovalLeavesAKey` |
| `HubProofs` | `StreamsAreUnbroken` | `Spec => []UnbrokenStream` |
| | `NobodyMissesAnything` | `Spec => []NothingMissed` |
| `StreamRelayProofs` | `NothingIsLost` | `Spec => []NothingLost`, the types of `StreamRelay` among it |
| | `NoLineIsSplit` | `Spec => []PingSplitsNoLine` |
| | `LeaksAreReplaced` | `Spec => []LeakReplaced` |
| | `LogsMatch` | `Spec => []LoggedAsSeen` |
| | `SuccessesTerminate` | `Spec => []Terminated` |
| `EventStreamsProofs` | `ItemsFollowAlways` | `Spec => []ItemsFollow`, the types of `EventStreams` among it |
| | `DeltasAddUpAlways` | `Spec => []DeltasAddUp` |
| | `AllDeliveredAlways` | `Spec => []AllDelivered` |
| | `RefusedCleanAlways` | `Spec => []RefusedClean` |
| | `MessageShapeAlways` | `Spec => []MessageShape` |
| | `ChargedAlways` | `Spec => []Charged` |
| `AccountsProofs` | `TypeCorrect` | `Spec => []TInv`: types of the tables, tokens and history, and of what a handler remembers (`job`) at each of its steps |
| | `CodesWorkOnce` | `Spec => []RecoveryCodeOnce` |
| | `ResetsHappenOnce` | `Spec => ResetOnce` |
| | `SomebodyIsInCharge` | `Spec => []AnAdminRemains` |
| | `LaterRegistrationsGetNoRole` | `Spec => []LatecomersAreUsers` |
| | `FactorsAreUsable` | `Spec => []FactorIsUsable` |
| `KeyQuotaProofs` | `OvershootIsBounded` | `Spec => []OvershootBounded` |
| | `NobodyIsOvercharged` | `Spec => []NeverOvercharged`, the types of `KeyQuota` among it |
| `DispatchProofs` | `RequestsGoWhereAllowed` | `Spec => []SentWhereAllowed` |
| | `RequestsGoWhereNamed` | `Spec => []SentAsNamed`, the types of `Dispatch` among it |
| | `PricesAreKept` | `Spec => []PriceKept` |
| `MigrationsProofs` | `EveryFileIsCompleted` | `Spec => []Resumable`, the types of `Migrations` among it |
| | `KeysAreCarriedOnce` | `Spec => []KeysCarriedOnce` |
| | `NoDataIsLost` | `Spec => []NothingLost` |
| | `ServersAreUntouched` | `Spec => ServedUntouched` |

### The key pool

Types must come first: `Pick(r)` indexes a sequence modulo its length, so that the
list is not empty is part of the induction. `RefusedStaysOut` is inductive with the
types, because only enabling sets a row active and enabling clears the entry.
`DeactivatesRefusedKey` is not: it needs that every key a request listed was an issued
id (below `nextId`, or the fallback 0) and that a row with that id, if any, still has
the listed secret. `NoBodyForgotten` needs that what is open is numbered by the attempts made
(`Bodies`), so that a response closed as the previous one is not the new one.

`LoopImplementsContract` maps the keys a request was given to the contract's `pool`,
the failed attempts in `tried` to `failed`, and `pc` with `reply` to `verdict`. It rests
on the loop invariant `LInv`: the ids of a pool are distinct, the attempts made are the
first ones of the ring `(start + i) % n`, all but an answering last one have failed, and
the loop is left with an answer or after `n` attempts. Visiting the ring for `i < n`
meets every index once (`RingVisitsAll`), so the next key is one that has not failed
(`AttemptAdds`, a `Fail` of the contract) and after `n` failures all have
(`AllKeysFailed`, its `Exhaust`); a restart is its `Lose` of the requests in progress;
whatever administrators do is a stutter.

`SpreadStarts` rests on tickets that are distinct and below the cursor, a start being the
ticket modulo the keys (`DInv`), and on numbers less than n apart being different modulo n
(`CloseDiffer`); a restart takes the tickets back with the cursor. Lists of other lengths may be
drawn for in between, and that two requests have the same list makes different starts
different keys, its ids being distinct (`ListedAreDistinct`).

The code does not keep the last active key of a pool: two administrators may remove it together
(`KeyPoolTwoAdmins`), and a refused key is turned off even if it is the last. What it keeps is
`RemovalLeavesAKey`. While a removal is not `overlapped`, what `countActiveKeys` counted is still at
most the number of active keys, for only an insertion may have changed them (`Counted`,
`CountedFrame`); every other step that changes them overlaps it (`OverlapFrame`). So one of at least
two goes.

### The hub

`UnbrokenStream` and `NothingMissed` are two sides of one order: what a connection was sent,
has in a pump's hand and in its buffer is, one after the other, the events its user had since
it was registered (`Stream`, `Last`). A broadcast visits the list of its user by index while
it holds the mutex, and the proof follows that loop: the list does not change under it
(`Locked`, `Within`), the connections before its index have the event and those behind it do
not yet (`Progress`), and outside of a loop all have (`Quiet`). A listed connection is its
user's and listed once (`Members`, `Present`), which removing the first match relies on. The buffer
that is full is the one case in which an event is left out, and there `done` is closed
first: whoever is unregistered has seen it (`Doomed`), and one whose `done` is open has every
event. The numbers in a stream stay below `published` (`Numbered`), and a connection not
born has no stream (`Unborn`, `Empty`).

### The relay

A token's way to the client is one sequence (`Path`): written, pending, in the head, among the
held chunks. `Write` moves tokens along it and changes nothing else (`WriteIs`); a turn of the
loop appends the chunk at its end or to the Responses buffer (`PathRead`), whichever way through
`FlushHead`, `Emit` and `EmitHeld` it takes (`ForwardFacts`); the end of the body empties
the stores into it (`PathEnd`); a comment adds no data (`PathPing`). So `NothingLost` becomes one
equation, `Whereabouts`.

The other properties need to know what was sent when (`CInv`). `Stage`: before the end only tokens
of the stream and comments, and which error the log has seen. `Opened`: when the head is open to
the client, or a byte was written, content or `[DONE]` forced it, which holds of held chunks by
their flags (`HeldOpens`). `Unleaked`: a request with tools that has not seen a tool call has only
comments sent, which is what makes a replacement complete. `Finished`: a `[DONE]` that was seen is
in one of the stores. `Lines` is `PingSplitsNoLine` made inductive: `atLineStart` says how the
last chunk ended, and the pinger writes only when it was set.

`FlattenSeq` and `FoldLeft` are defined by choice of a recursive function; the lemmas at the
beginning of the module (`FlattenAppend`, `FlattenConcat`, `EmitOneMore`) unfold them once, by
induction on sets of natural numbers, which needs no operator parameter: a set with 0 and with
every successor contains `Nat` (`Induct`), because a set of numbers has a least element (`Least`).

### The event streams

`Reading` is about the provider's side: the lines sent are in order (`InOrder`: nothing but counts
and the marker after an end, no arguments before their call, one first delta for each call), and
the lines a handler still has are the last of those its adapter was given (`Fed`: read and
not lost, or read and not waiting torn). `Owed` are the lines among them that the client is
to get. Both handlers keep one equation, what was shown with what is held and what is
still owed of the lines to handle being `Listed(Owed, ReadTo)`: a read adds to both
sides (`FlowRead`) and a line moves from the rest to what is shown (`FlowTail`). At
the end nothing is left to handle, and `AllDelivered` is what remains (`ShownIs`). That arguments
are owed exactly when the tool block has started is the hard part of it for the Messages API: it
needs that the blocks started are those of the calls handled (`HeadPiece`).

`Responding` is the Responses handler. `Sound` is `ItemsFollow` and `DeltasAddUp` made inductive
by the open item: as many items were opened and closed as the counters say, the deltas of the last
index add up to the open item, and no event bears a later index. One lemma for each kind of event
(`SoundOpen`, `SoundDelta`, `SoundClose`, `SoundOther`); a handler's step is a chain of them
(`Holds...`), the leaked calls a fold of such chains. For refusals, a stream is `started` only
after content or an end was fed, and before that nothing is on the wire; the status is unset until
a start or a comment (`Heading`). For the log, text that was shown was counted.

`Messaging` is the Messages handler: the tool blocks started, the `Shape` of a stream without
calls, and that the end was written once an end was handled, after which no content can come
(`NoneAfterStop`). `Settled` says what holds of a request that has its row: `RefusedClean`, `Charged`
and `AllDelivered` are true at the moment of logging, and nothing moves after it (`DoneStuck`).

The model takes sequences apart with `FlattenSeq` and sets of indices, since `SelectSeq` is
defined by a recursion that the prover cannot unfold.

### Accounts

`TInv` types the tables and what each handler remembers; most steps of a handler touch one
client's part of it, which the `Elsewhere` lemmas use once for all properties. `RecoveryCodeOnce`
needs that a code once accepted is not unused (`Spent`): one statement does both, which is why the
code's `UPDATE ... WHERE ... used = 0` suffices although the look-up is a statement of its own.
`ResetOnce` is an action property; its invariant says that a code that has changed a password is
marked (`Burnt`), and that no two requests draw the same code or one already issued (`Drawn`), so
that an insertion never makes a spent code new. `AnAdminRemains` holds while changes of roles do
not overlap: then a handler between its count and its change still sees what it counted
(`StillSo`), and more than one administrator means another one than the demoted (from
`Cardinality`). Of registrations, `Founded` is the counterpart: accounts have an administrator,
and so has an installation in which somebody registers late, whose count then is not zero unless
it fails. `FactorIsUsable` needs `Registered` (an id not registered yet has no request and no
codes) and `Sound`, which extends the property to the handlers between accepting a code and
enabling the factor. `Paired`: two handlers that change one account's factor at once have made it
`mixed`.

### The quota

`QInv` relates the requests of the last minute and those past the check: together at most
the limit less one plus the most that have ever been between check and log. Each step
moves a request between disjoint finite sets, so the proof is about cardinalities; it
needs that `Requests` is finite.

`NeverOvercharged` is about totals that were right when they were read. It follows from what was
spent never shrinking, and that from a request weighing 0 until it is in the log
(`Unlogged`): the one log a request writes adds to the sum and replaces nothing. Sums over sets are
`MapThenSumSet`, the choice of a recursive table; that there is one, and that it grows with
its terms (`SumTableExists`, `SumGrows`), is by induction on the size of the set.

### Dispatch

`DInv` is `Shape` (what a request holds at each query) and `Grounds`: what a request
learned was so at some moment since it began. A provider it has `Chosen` was active when it
read it, one it has `Cleared` was allowed, and `usable`, which gathers both since
the request began, includes the present and only grows; whatever a session does to the
tables preserves that.

`SentAsNamed` follows from `NInv`. Ids are issued once, so that `keyOf` of an id never changes
(`Grows`); every row has the key of its provider and was inserted, which must be said of the
table, of the copy a sync would roll back to (`Table(tx.saved)`), and of the row a request found and
holds while the table changes under it (`Found`); a session that is about to insert knows an
id with its key (`Informed`), also when the provider has gone since.

`PriceKept` speaks only of states in which nobody holds the connection. In between, `PInv` says
that an agreed price is in the copy to roll back to, and that the sync has it in the table, or
remembers it for the model it has still to insert, or will leave the model out (`Settles`). An
edit writes the price it has read or the one it sets, and if a price was agreed for its row it is
that one (`Agrees`): this is where overlapping edits are excused, and what fails without it.

### Migrations

Every statement is a lemma about `Exec` (`ExecCreate` to `ExecCarry`), and a fold over statements
or versions is a chain of steps (`ExecSteps`, `ApplySteps`, unfolded once as in the relay). A
database is `Good` when it is between two versions: the recorded versions are closed downwards
(`Closed`), each has left the columns it owes to the services and to later versions (`Level`),
`providers_v10` is gone (`Tidy`), and no provider is hidden before there is a flag (`Data`). A
version whose turn it is (`Ready`) takes a `Good` database to a `Good` one and changes its data as
`Effect` says: one lemma per version (`AfterV1` to `AfterV18`), gathered in `ApplyReady`. Version
10 takes the rows through the copy, the drop and the renaming (`AfterV10`): what the dropped table
had is in the copy because that was made first. Every file a release leaves is `Good`
(`OriginIs`), those that record 14 to 16 too, because nothing depends on what 14 was. An
undisturbed run on a `Good` file therefore ends with all versions recorded (`PartApplies`), and
all of them together are the schema (`CompleteIs`).

`Inv` adds the processes. One in a transaction may have read its version long ago, and the statements
it executes may be those of a version another process has recorded meanwhile; of these nothing is
claimed but that they leave the records alone (`ExecKeeps`), so that the insertion of the
number fails. So what is committed is the file with the next version done, and `Since`, which says what
became of the origin's providers, keys and logs, goes on step by step (`SinceStep`). A process
that serves has all numbers behind it, hence nobody is about to commit.

### Model-checked only

Liveness (`EveryRequestEnds`, `DoneIsCleanedUp`, `EventuallyConsistent`, `DemotionTakesEffect`,
`RequestsEnd`) is outside the prover's reach. Every other property of a passing run has
its theorem.

## 7. Disagreements between the code and what it says

With a run or a further configuration of section 3; PROJECT.json quotes the lines of
the first two.

1. Two administrators can leave a pool without an active key (`KeyPoolTwoAdmins`).
2. `Broadcast` closes `done` past the `sync.Once` all others use (`HubPanic`).
3. A key refused by the upstream and then deleted comes back through the provider's
   own copy of it (`KeyRefusedReturns`).
4. A token total summed before an invalidation is stored after it (`QuotaStale`).
5. The error body and the return of the handler are not serialized with the
   keepalive goroutine (`StreamTwoWriters`).
6. An interruption detected after a keepalive is a bare JSON body under status 200
   (`StreamLateError`).

Seen while modelling; none has a run of its own. The model does each of these as the code does:

- Quota: the rate limit counts finished requests, so that any number may start at once;
  `OvershootBounded` says by how much it is overrun.
- Accounts: two first registrations at once both become administrators, and `Register` takes a
  failed count for zero, so that anyone who registers then becomes one. Two overlapping role
  changes or deletions can remove the last two administrators. `SetupTOTP` turns an enabled factor
  off, without password or code.
- Dispatch: `Update` of a provider or a model writes back the whole row it read, so that one of
  two overlapping edits is lost. Syncing a custom provider deletes the models imported for it.
  `HandlePathRouted` keeps the custom provider when the look-up of its source fails. A sync
  fetches prices while it holds the only connection: every other statement of the server waits for
  it.
- Migrations: version 10 drops and remakes `providers` and loses its index on `user_id`; a
  file whose pool was emptied gets its legacy key back from versions 14 and 17.
- Event streams: tool blocks of the Messages API are not stopped; Anthropic's and Gemini's tool
  calls are lost on the way to the Responses API, and "length" becomes "stop"; a finish reason
  beside tool calls is lost; `extractDeltaContent` counts nothing of Gemini's answers or of a read
  with `[DONE]`. An error of a Responses stream after a keepalive comment is a bare JSON body
  under status 200, where `responses_stream.go:51` says "clean 503". A passed-through Messages
  stream that is cut inside its first line is a success.
- A stream that calls a tool as a chat and goes on as a Responses stream whose text is a leaked
  call gets the synthesized call after the forwarded one: `streamHasToolCalls` is not asked there
  (`Mixed`, which `LeakReplaced` leaves out).
- A Responses stream whose first line is torn before its marker gets its error event glued
  to the half line: `pend` and `lineStart` of `StreamRelay` have the states.
- Foreign keys are declared with `ON DELETE CASCADE` and not enforced, so that models, keys
  and access entries outlive what they belong to.

These are beside what is modelled:

- `ProviderService.Create` leaves its provider row when the endpoints are refused.
- `HandleListModels` lists everything when the access list cannot be read.
- A text block and a tool block of the Messages API share index 0, and `message_delta` may
  state the tokens before the usage line is read.
- Text around leaked JSON is dropped (`tool_call_fix.go`).
- The error of a Responses stream is written past the mutex of its `streamWriter` while the
  keepalive goroutine still runs, as in `StreamTwoWriters`.

## 8. Not modelled

- Login limiter (`handlers/login_ratelimit.go`), the broadcast of totals (`usage_log.go`),
  the web client: see the plan.
- Text parsing (`tool_call_fix.go` beyond whether a text is a call), request and response
  bodies that are not streamed, token counting, JSON field mapping, HTTP handlers that only call
  a service, listings and statistics, configuration and encryption: data, no control that a model
  checker would add to their tests. The cache of models.dev is a published price that may
  change or be unavailable.
- Of providers: their endpoints, and switching a provider off while `KeyFailover` tries its
  keys (`Dispatch` has the switch and ends where `KeyFailover` begins). A change of a provider's
  type.
- `Conn.Close` and `Conn.Send` have no caller.

## 9. Plan

1. `LoginLimiter`: the table at its limit and the entry that is evicted.
2. `UsageFeed`: `Log`, `broadcastUsage` and `Hub` composed, with the reconnecting
   client of `src/frontend/src/api/ws.ts`: the newest total is seen at last.

# A verification of Shortify

TLA+ models of the URL shortener in this repository, checked with TLC and, for
every value of their constants, with the TLA+ proof system TLAPS.  Paths are
relative to the root of the repository.

The modules are translations of the code, not of the documents: where a
document, comment or test says something else than the code does, the model
follows the code, and a run that expects a violation shows the difference.

## 1. The system

| Component | State | Operations | Interacts with |
|---|---|---|---|
| Redirect resolution (`url.service.ts`, `redirect.routes.ts`) | none of its own; a request in progress holds the row or the cache entry it read | `resolveUrl`: GET from Redis, else SELECT, check active and expiry, SETEX | PostgreSQL, Redis, publisher |
| Link management (`url.service.ts`, `url.repository.ts`) | table `urls` with UNIQUE `short_code` and `custom_alias` | `createUrl`, `updateUrl`, `deleteUrl`, `getUrl`, `listUrls` | PostgreSQL; updates and deletions remove two Redis keys |
| Redis client (`redis.client.ts`) | `client`, `isAvailable`, `everConnected` | `connect` with its event handlers, `disconnect`; `get`, `set`, `del`: skipped when unavailable, errors swallowed | resolution, rate limiting, health |
| Click pipeline (`analytics.publisher.ts`, `analytics.consumer.ts`, `analytics.repository.ts`) | table `click_events`, the queue `analytics.clicks` and its dead letters | publish after the redirect; consume, insert, ack or nack | RabbitMQ, PostgreSQL |
| RabbitMQ client (`rabbitmq.client.ts`) | connection, two channels, `connected`, `reconnectAttempts`, timers | `connect`, `scheduleReconnect`, `publish`, `consume`, `disconnect` | broker; started by `server.ts` |
| Authentication (`auth.service.ts`, `auth.repository.ts`) | tables `users`, `refresh_tokens` | register, login, refresh with rotation, logout | PostgreSQL |
| Rate limiting (`rateLimit.middleware.ts`) | counters in Redis | INCR, PEXPIRE, refuse | Redis |
| Life cycle (`server.ts`, `index.ts`) | which connections are made; `initialized` | bootstrap, shutdown, exit on unhandled errors; lazy initialisation | everything |
| Health, click statistics, link queries | none | read and answer | PostgreSQL, Redis, RabbitMQ |
| Validation, errors, configuration, documentation, web page | none | stateless | |

Several servers may run side by side; within one, any two requests interleave
at their awaits.  What is hard about this code:

- *The cache and the table are two stores.*  Nothing makes a read of the table
  and the fill of the cache one step, nor a write of the table and the removal
  of the two keys.  Redis commands fail in silence.
- *Checks and insertions are two steps* (aliases, e-mail addresses, refresh
  tokens), and the UNIQUE index that catches the race reports it as something
  else.
- *Messages are delivered again.*  The callback stores a row and then
  acknowledges; the connection, the process or the database may fail in
  between, and callbacks outlive the channel of their delivery.
- *The connection heals, its consumer does not.*
- *Time*: expiries, whole seconds in the TTL, a message's day in the queue,
  the window of a counter.
- *One flag, several connections.*  The flags of the Redis client are written by
  the events of every connection that `connect()` ever made, and read between
  the awaits of requests.
- *A counter takes two commands* (INCR, PEXPIRE), each of which may fail, or be
  executed and sent again.
- *Two signals begin two shutdowns* of one process, each of which awaits the
  closing of what the other is closing too.
- *The clock is read before the await.*  The window of a counter and the TTL of
  an entry are computed some time before Redis executes the command.

What makes each component correct:

- resolution and cache: a stale entry can be explained by a request in
  progress, a late fill or a failed removal, and it goes away; a deleted link
  stays deleted; a name leads only where an owner put it; the TTL respects the
  expiry;
- creation: one row at most for a request, an answer for every request, no
  name for two links, a taken alias reported as such;
- click pipeline: no click acknowledged unstored, none counted twice without a
  cause, poison kept from blocking the rest, failed messages in the end out of
  the way, no giving up before the last attempt to reconnect, consumption after
  a reconnection;
- authentication: a session has one usable token, goes on until its logout or
  expiry and not beyond, and a token that was exchanged is worth nothing;
- rate limiting: at most the limit let through per address and window, nobody
  refused for the requests of others, no counter left in Redis for good, and
  nothing let through uncounted where the limiter is to fail closed;
- Redis client: flags that tell about the connection in use;
- life cycle: an exit with 0 means that requests were answered and clicks
  written, with the exception that section 5 shows;
- queries: a listing shows each matching link on one page; the numbers of the
  statistics agree with each other.

`PROJECT.json` lists the hazards at their lines with the properties that cover
them, and maps each definition to the lines it models.

## 2. The modules

| Module | Models |
|---|---|
| `UrlTable` | table `urls`, its indexes and the queries of `url.repository.ts`, as operators on a table |
| `LinkView` | abstract: what redirects promise about edits |
| `LinkTable` | abstract: how the table of links evolves, whoever writes it |
| `UrlCache` | `resolveUrl`, `updateUrl`, `deleteUrl`, the cache helpers, Redis, the clock |
| `UrlCacheProofs` | proofs about `UrlCache` |
| `LinkCreation` | abstract: what `createUrl` promises, each request in one step |
| `UrlCreate` | `createUrl` and the deletions around it |
| `UrlCreateProofs` | proofs about `UrlCreate` |
| `ClickDelivery` | abstract: delivery at least once |
| `Analytics` | publisher, queue, consumer, reconnections, process |
| `AnalyticsProofs` | proofs about `Analytics` |
| `SessionChain` | abstract: sessions as chains of tokens |
| `RefreshTokens` | register, login, refresh, logout over `users` and `refresh_tokens` |
| `RefreshTokensProofs` | proofs about `RefreshTokens` |
| `RedisClient` | `connect()`, the events of connections, the flags, `disconnect()` |
| `RateLimit` | `createRateLimiter` with its counters in Redis, and the clock |
| `Service` | a process: `server.ts`, `index.ts`, the health check, over `RateLimit` |
| `ServiceProofs` | proofs about `Service` |
| `LinkQueries` | the list of links, from the query string to Prisma, with theorems |
| `ClickStats` | the statistics of a link, with theorems |
| `MCUrlCache`, `MCUrlCreate`, `MCAnalytics`, `MCRefreshTokens`, `MCService` | values for TLC |

`UrlCache` and `UrlCreate` extend `UrlTable`.  `UrlCache!Insert` stands for a
creation as seen by the cache.  That this is all there is to see of one is a
theorem: both modules implement `LinkTable`, so that the requests of either are,
to the other, insertions, amendments and deletions of one row at a time.  `Service` extends `RateLimit`, which extends
`RedisClient`: the limiter and the life cycle are composed over one Redis
wrapper, whose steps occur as their own actions.  `LinkQueries` and `ClickStats`
have no states: they are operators on a table, with theorems about them.

Each stateful component has an abstract specification that says what it
promises without saying how, and a theorem that the detailed module implements
it (section 4): `LinkView` and `LinkTable` for `UrlCache`, `LinkCreation` and
`LinkTable` for `UrlCreate`, `ClickDelivery` for `Analytics`, `SessionChain` for
`RefreshTokens`.  `Service` has none: its promises are the bounds of section 3.

### UrlCache

A *handler* is a request in progress on any server (a slot that is used again).
Each step of a handler is one round trip to PostgreSQL or Redis together with
the code up to the next `await`; `pc[h]` names the round trip that comes next.

| Action | Code |
|---|---|
| `ResolveHit`, `ResolveExpired`, `ResolveMiss` | `resolveUrl` 198-212 with the GET |
| `ResolveRead`, `ResolveNotFound` | the SELECT and its checks, 214-226 |
| `ResolveFill`, `ResolveDrop`, `Redirect` | SETEX 228-236, DEL 208, the 302 |
| `FillUnanswered` | a SETEX is executed and its answer lost; ioredis sends it again |
| `UpdateFind`, `UpdateWrite`, `DeleteFind`, `DeleteWrite`, `WriteFails` | `updateUrl` 145-162, `deleteUrl` 174-179, P2025 |
| `InvalidateCode`, `InvalidateAlias` | 164-168, 181-185 |
| `Abort` | a crash, or an error of PostgreSQL after a write that may have been committed |
| `Evict`, `Tick` | Redis losing an entry, time and TTLs |

Answers that change nothing (404 for a cached inactive link or another owner's
link, reads by `GET /api/v1/urls`) have no action.  `isAvailable` is a flag of
each process; instead of it, with `RedisFaults` any Redis command may be
skipped, which is what both a lowered flag and a swallowed error amount to.
Ids are uuids: an id is never given out twice (`used`).  The expiry is compared
with the clock when the row or entry is read.  The TTL is computed then too:
`asOf[h]` is the instant of `Date.now()` in `setInCache` (255-257), which no
await separates from the check, and any time may pass before `SetEx` is
executed, for a round trip or in the offline queue of ioredis.  A DEL that is
sent twice removes nothing more than an eviction and a DEL, and has no action.
`blame` is a history variable and no guard reads it: it records for each key
that its entry was filled from a row that had changed (`lateFill`) or that its
removal was given up (`lostInvalidation`).  A restart of Redis that brings back
a removed key from an old snapshot is outside the model.

### UrlCreate

`Begin` is the request's body (and the reserved aliases), `CheckAlias` and
`CheckCode` the two lookups, `Insert`, `Collide` and `InsertFails` one turn of
the loop each: committed, P2002 from either index, or any other error with the
row committed, not committed, or committed later (`StoreLate`: `unsettled` are
the requests of which PostgreSQL may still commit an INSERT whose connection
broke).  Codes are drawn from the set `Codes`; that `generateShortCode` draws
them nearly uniformly is not used.  Deletions go on at the same time; updates
change neither code nor alias and are left out.

### Analytics

One server process with its consumer, the queue, and the table `click_events`.
The queue is the set of the messages that are `"queued"`; their numbers are
their order, and a requeued message goes back to its place, as in RabbitMQ.
`work[c]` is where the consumer's callback for message `c` stands.  A callback
whose message is no longer `"delivered"` is one whose channel has gone.

| Action | Code |
|---|---|
| `Publish` | `publish` 122-140; there are no publisher confirms |
| `Deliver`, `Persist`, `Ack`, `Nack` | the callback of `consume` 158-180 with the handler of `analytics.consumer.ts` |
| `AnswerStale` | ack and nack on a channel that is closed, or does not know the delivery; `unhandledRejection` and `uncaughtException` of `server.ts` |
| `ExpireMessage`, `DeleteLink` | `x-message-ttl`; the cascade of `schema.prisma` |
| `Disconnect`, `StrayCloses` | the event `close` of the current connection, and of one that was replaced |
| `Connect`, `ConnectFails`, `ConnectHalf` | outcomes of `connect()` when a timer fires |
| `Crash`, `Boot`, `BootUnconnected` | end and start of the process |

What becomes of an answer that a newer channel does not know depends on the
library and the broker, so both outcomes are there.  `connect()` is one step:
the moment between line 34, where the client calls itself connected, and the
channels of lines 49-50 shows only as lost publications, which `Publish` has
anyway.  Exchanges and queues are taken to exist.  Each click has a link of its
own; a message that cannot be parsed fails like one whose link is gone.

### RefreshTokens

A step is again one round trip to PostgreSQL.  A *session* is what a login
starts and refreshes carry on; the code knows only tokens and their user, the
model marks each token with its session so that the properties can speak of it.

| Action | Code |
|---|---|
| `RegisterCheck`, `RegisterCreate` | `register` 29-37: SELECT and bcrypt, then INSERT, or P2002; they say which addresses may log in |
| `LoginFind` | `login` 46-57 when the password is right; passwords are not in the model |
| `RefreshFind`, `RefreshRotate` | `refresh` 60-74 with the SELECT, 77-83 with the UPDATE and the SELECT of the user |
| `LogoutFind`, `LogoutRevoke` | `logout` 88-93 |
| `Issue` | `generateTokenPair` 110-132, the end of login and refresh |
| `Abort` | a crash or an error of PostgreSQL; after a committed write it is the abort of the next step |
| `Tick` | time, for `expiresAt` |

Refused requests change no state.  Any stored token may be presented at any
time, also by several requests at once.  Users are never deleted, so the branch
for a user that is gone is left out; access tokens are stateless.  `ended`,
`lost` and `contended` are history and no guard reads them: the sessions that a
logout ended, those whose refresh died between its two writes, and those of
which one token was in the hands of two requests at once.

### RedisClient, RateLimit, Service

A connection is named by the call of `connect()` that makes it: `Main` by
`bootstrap`, `r` by the first part of request `r` in `index.ts`.  `client` is
the one made last; the handlers of all of them write `isAvailable` and
`everConnected`.  A request is a point `pc[r]` between two awaits.

| Action | Code |
|---|---|
| `NewClient`, `OnConnect`, `OnReady`, `OnClose`, `Retry` | `redis.client.ts` 10-51 |
| `SendQuit`, `QuitAnswered`, `QuitOffline`, `QuitRejected` | `disconnect()` 65-71: QUIT is sent and answered; there is no connection at the moment; it has ended |
| `LimitBlind` | no connection: `rateLimit.middleware.ts` 27-37 |
| `Limit`, `Incr`, `Pexpire`, `CommandFails` | the window and the key 39-41; each command with the code up to the next await 43-65; the catch block 66-73 |
| `CommandRepeats` | a command is executed and its answer lost; ioredis sends it again |
| `RedisStops`, `Forget`, `Tick` | Redis stops, and comes back with what it had or with an older state of any counter; time and expiries |
| `BootDatabase`, `BootRedis`, `BootWait`, `BootRabbit` | `bootstrap`, `server.ts` 15-57 |
| `Arrive`, `LazyDatabase`, `LazyRedis`, `LazyWait` | the middleware of `index.ts` 30-56; before it the health router |
| `Health`, `Pong`, `Redirect` | `health.routes.ts`; the answer and its click |
| `Signal`, `ServerClosed`, `CloseRedis`, `RedisClosed`, `Exit`, `ForcedExit` | `shutdown`, `server.ts` 60-77, once for each signal |
| `CloseRabbit`, `ChannelClosed`, `ConsumerClosed`, `RabbitClosed`, `CloseFails` | the three awaits of `disconnect()`, `rabbitmq.client.ts` 185-195, and its catch |
| `Die` | `process.exit`: requests in progress are `"dead"`, and `cut` are those between their INCR and their PEXPIRE |
| `RabbitWrites`, `RabbitDrops` | the buffer of the RabbitMQ connection, which `disconnect()` writes out |

ioredis and Redis are modelled from how the code uses them: a command is
executed on a connection that is ready, waits on one that is not there, and may
be given up while it waits (`maxRetriesPerRequest`).  A connection that was told
to quit (`manuallyClosing`, as in ioredis) does not reconnect once it closes,
and until then takes another QUIT; one that has no stream at the moment
resolves QUIT at once and keeps its status; one that has ended rejects it.  A
connection that is refused and one that drops raise the same events.  In
amqplib `close()` on a channel that is closing or closed throws at once, which
the catch block of `disconnect()` logs: so the shutdown of a second signal may
pass the first one's, and the answer to the first one's comes behind the clicks
on that channel.  `knew`, `counted`, `lost`, `broken` and `cut` are history and
no guard reads them: the requests that came after Redis was first reached,
those whose INCR came within the window they had computed, the counters that
Redis brought back in an older state, those with a command that failed or was
repeated, and the requests that the end of the process cut off.  A process that
has ended takes no more steps; a command of it that Redis executes later is as
if executed just before.
The analytics consumer is in `Analytics`; that its start may fail and end
`bootstrap` is there too and not here.

### LinkQueries, ClickStats

`LinkQueries` keeps the JavaScript type of a value beside the value, since that
is what the listing depends on: the schema makes numbers and booleans of the
query string, `validate()` passes on the strings (`validate.middleware.ts` 21-24),
and `listByUser` computes with them.  What Prisma takes is an assumption,
`Takes`: a number for `skip` and `take`, neither a string nor NaN.
`ClickStats` has the two queries as sets and cardinalities, with `DATE` as
division by a day in UTC.

## 3. What TLC checks

| Run | Shows |
|---|---|
| `url_cache` | `TypeOK`, `StaleIsAccountedFor`, `DeletedStaysDeleted`, `NothingResurfaces` (refinement of `LinkView`), `TableEvolves` (of `LinkTable`), with every fault |
| `url_cache_live` | `TypeOK` again, for TTLs of less than a second, `EventuallyConsistent`, `StalenessRunsDown` and `TtlRespectsExpiry`, with every fault and a finer clock |
| `stale_window` | violation: stale outside the window of README 345 |
| `url_create` | `TypeOK`, `OneRowPerRequest`, `EveryRequestAnswered`, `RequestsRunDown`, `CreationIsAtomic` (refinement of `LinkCreation`) |
| `alias_race` | violation: 500 instead of 409 for a taken alias |
| `name_shared` | violation: one name, two links |
| `analytics` | `TypeOK`, `AckedClicksAreStored`, `CountedTwiceOnlyAfterLoss`, `ReconnectsUntilGivenUp`, `ClicksGetThrough`, `AtLeastOnce` (refinement of `ClickDelivery`) |
| `analytics_dlq` | violation: failed messages do not become dead letters |
| `analytics_recovery` | violation: no consumption after a reconnection |
| `refresh_tokens` | `TypeOK`, `OneTokenPerSession`, `SessionEndsAtLogout`, `SessionKept`, `DeadSessionsStayDead` |
| `token_replay` | violation: one token exchanged for two |
| `service` | `TypeOK`, `AdmittedWithinLimit`, `RefusedOnlyOverLimit`, `CountersExpire`, `FailsClosed`, `FlagsFollowOneConnection`, `CleanExit` |

Each property of a passing run has a mutant in `PROJECT.json`: a plausible slip
in the code (a dropped guard, a forgotten key, a swapped order) with which the
run finds the property violated.

### Bounds

- `url_cache`: two requests at a time, one link with code and alias, one that
  another owner may create with a code equal to that alias, two bodies of
  updates (new target with an expiry; deactivation), a clock of two instants.
  Two handlers are enough for every race between a reader and a writer; a third
  party is present through failures and evictions, which have no handler.  One
  TTL step suffices where no property is about durations.
- `url_cache_live`: one link, two ticks to a second, a TTL of two seconds and
  an expiry after one and a half, so that fills happen with more than a second,
  less than a second, and no time left, and a TTL may be applied a tick or more
  after it was computed.  The clock stops at `Horizon`, after
  every expiry; TTLs go on running down.
- `url_create`: three requests, two codes, two turns of the loop, one alias that
  may be drawn and one reserved word.  With fewer codes than requests the loop
  does run out.  `MAX_RETRIES` is 5 in the code and a constant of the proofs.
- `analytics`: two clicks, a window of two, two attempts, two timers, one
  forgotten connection, failures counted to two.  With two clicks one may be
  poison while the other must get through; the second timer and the forgotten
  connection are what `ConnectHalf` can produce.  Guards of the broker's actions
  keep timers and forgotten connections within `MaxTimers` and `MaxStrays`.
- `refresh_tokens`: two requests at a time, four tokens, one address, tokens that
  expire after one tick of two.  Two requests are what an
  overlap takes, and four tokens allow two sessions that have both been
  refreshed, or one that was refreshed three times.
- `service`: two requests from two addresses, a limit of one, a window of two
  ticks in a clock of three instants (so that a window ends, and an expiry comes
  both with its end and after it), one more attempt of each connection, one
  fault, two signals.  What happens together is bounded by `Workloads`: the
  server with both limiters; the server with redirects, health checks and two
  signals; the server with the limiter that fails closed and one signal, so that
  the process may end between an INCR and its PEXPIRE; the serverless function
  with Redis and that limiter; and the one without Redis, with all routes.  The
  proofs have no such bound.

Deadlock is checked in the runs of `UrlCache` and `RefreshTokens`.  In the others
all requests may be answered and all clicks settled, and the system rightly
rests.

### Fairness

Under `FairSpec` of `UrlCache`, time passes and a request that has begun goes
on: each of its awaits ends with an answer or an error, by the drivers' own
timeouts.  No request needs to begin, and no failure to happen or to end.
`EventuallyConsistent` needs no more, because of the TTL: it assumes only that
the row is left alone from some point on.  `UrlCreate` assumes the same for its
requests, with an unused uuid for every insertion.

`Analytics` assumes that callbacks run on, timers fire and the container is
restarted (`restart: unless-stopped`), all weakly fair.  Two assumptions are
strong.  The broker fills the prefetch window as soon as there is room, before
it reads the next answer, so that a message which is the next one again and
again is delivered.  And failures of the database with no lasting reason end.
`ClicksGetThrough` further assumes that the consumer stays registered (the run
`analytics_recovery` shows why) and that fewer than `PREFETCH` messages can
never be stored: such messages are at the head of the queue whenever they are
put back, and as many of them as the window holds would keep the rest
waiting until their day is over.

## 4. What is proved

With TLAPS, for any sets of links, names and requests, any limits and any
combination of faults:

- `UrlCacheProofs`: `TypeCorrect`, `StaleAccounted`, `DeletedForGood`,
  `TtlBound`, and `ImplementsLinkView`, the refinement.  The
  inductive invariant is `CacheInv`: the types, the explanation of stale
  entries, and `KeysTrue`, that a request which writes about a row remembers
  the row's own code and alias (codes and aliases never change and ids are
  never used again).  Without it an invalidation could miss the entry that its
  write made stale.  For the refinement, every step is shown to let only such
  versions become visible under a name as the table had there when the step
  began.  `ImplementsLinkTable` is the other refinement.  `TtlBound` allows for
  the time between the computation of a TTL and its SETEX, however long.
  `StalenessBounded` is what liveness rests on, without fairness: while a row is
  left alone, no request becomes a late fill (`FillStep`: who is about to fill
  has just read the row, or was about to fill before), and an entry that is
  stale after a step was so before with no shorter a TTL, or was put there by a
  late fill (`EntryStep`), which may be sent again until it is answered.
- `UrlCreateProofs`: `TypeCorrect` and `AtMostOneRow`, whose invariant adds that
  a request of which a row may still be committed has none.
  `RunsDown` bounds the round trips that a request has left, `StepsLeft`: every
  step of its own takes at least one away, at most `MAX_RETRIES + 3` in all.
  `ImplementsLinkCreation` maps each request to its input and answer.  Begin is
  the request, the insertion is the creation, and lookups that find nothing are
  stutters; a lookup or turn that ends in an answer is a refusal, and the row or
  code that it met is in the table in that very step.  The invariant it takes is
  `AliasAsked`: only requests with an alias look one up.  `ImplementsLinkTable`
  forgets the requests as well.
- `AnalyticsProofs`: `TypeCorrect`, with the size of the prefetch window as a
  cardinality, `AckedStored` and `CountedTwiceExplained`.  The invariant
  `StoreInv` follows one insertion through the callback: a callback about to
  acknowledge has stored its row, and a click with a row is either on its
  straight way to the acknowledgement or known to have been put back.
  `ReconnectsTheorem` is inductive as it stands: whatever clears the flag asks for
  a reconnection, or finds the attempts used up (`Granted`).
  `ImplementsClickDelivery` maps a message in the queue or out with the consumer
  to `"pending"` and needs `SentInv`, that a click has no row before it is sent.
  `ConsumerLost` and `NoDeadLetterByFailure` prove numbers 4 and 5 of section 5
  for every value of the constants.  `CountedTwiceOnlyAfterLoss` allows for a row
  that is stored *after* the message was put back, by a callback that outlived
  its channel.
- `RefreshTokensProofs`: all properties of the run.  The
  inductive invariant `SessionInv` of the three about sessions adds
  `SoleRevoker`: unless its session is contended, a request about to revoke a
  token is the only one, and the token is not revoked.  Without it the UPDATE
  could hit a token that was exchanged before, and a second successor would
  follow.  `DeadStayDead` needs only the types, and no exception for requests that
  overlap.  `ImplementsSessionChain` (`SessionsAreChains`) says
  the three at once and more: what each of the four writes does to the holders
  of its session is a lemma (`RotateHolders`, `LogoutHolders`, `IssueHolders`,
  `AbortHolders`), from which both `SessionInv` and the steps of the chain
  follow.  It is proved and not in the run, where it would take too long.

- `ServiceProofs`: all seven properties of the run, for any numbers of
  requests, addresses, connections, signals and faults, any window and limit and
  any workload.  `TypesHold` goes with `KindInv`, by which commands are sent for
  counted routes only, on connections that were made.  `FlagTheorem` and
  `FailsClosedTheorem` rest on `FlagInv`: the flag is up only when there is a
  client, and tells about it while it is the only one made.
  `RefusedTheorem` rests on `RefusedInv`: an unbroken counter is at most the
  number of the requests counted on it.  `AdmittedTheorem` is the converse and
  the harder one: `WindowInv` says that no request has a window of the future
  and no expiry comes within its counter's window, and `PassInv` that as long
  as the window lasts the counter is at least the number it let through.  For
  it an expiry must be set from the moment of PEXPIRE and not of the request;
  one tick less and TLC finds the counterexample (a mutant of the run).
  `CleanExitTheorem` rests on `ShutInv`, which follows every signal's shutdown:
  past `server.close` no request is in progress, past the first await of
  `disconnect()` no click is in the buffer, and as long as one is, the channel is
  open or some shutdown is waiting for it to close.  `CountersTheorem` rests on
  `CountersInv`, the same with `cut` in the place of the exit code, and on
  `ShutInv`, by which an exit with 0 cuts off nothing.
- `LinkQueries`: `ListingsRefused` (every listing ends in an error) and
  `ParsedAccepted` (it would not, had the parsed query been passed on);
  `PagesCover` and `ExpiredFilter` say that the listing would be right then.
- `ClickStats`: `SummaryNested`, `DailyEntries`, `DailyComplete`.

The proofs rest on the named assumptions about the constants (sentinels are not
values, inputs are well-formed, limits are positive), which TLC evaluates in
every run.

Liveness stays with TLC, as the proof system handles neither fairness nor
ENABLED: `EventuallyConsistent`, `EveryRequestAnswered` and `ClicksGetThrough`.
Of the first two the part that is not about fairness is proved, as
`StalenessBounded` and `RunsDown`: what has to run out does run out, provided
only that steps are taken.  For `ClicksGetThrough` there is no such measure,
since a click may be put back any number of times.  The violations are
counterexamples and stay with TLC too, but for the two of the pipeline.

## 5. Where code and documents disagree

1. *Stale after the invalidation* (`stale_window`): a late fill outlives the
   "small window" of README 345, up to the TTL.
2. *Alias race* (`alias_race`): the loser of two requests for one alias gets 500
   `SHORT_CODE_GENERATION_FAILED`, not 409.
3. *Shared names* (`name_shared`): a code may equal another link's alias.
4. *Dead letters* (`analytics_dlq`): the retry count is never incremented.
5. *Recovery* (`analytics_recovery`): the consumer is not registered again.
6. *Replay* (`token_replay`): of two refreshes with one token that overlap, both
   get a new pair (README 213).

7. *Listings* (theorem `ListingsRefused`): every `GET /api/v1/urls` that passes
   validation ends in a 500, where `tests/integration/api.test.ts` (`should list
   user URLs with pagination`) expects 200 and two links.
8. *Failing closed* (`LimitBlind`, and the part that `FailsClosed` leaves out):
   README 278 and 525 and `rateLimit.middleware.ts` 19-21 say that limiters of
   register and login deny requests when Redis is unavailable; as long as Redis
   was never reached they let all of them through uncounted.  The comment on
   line 28 excepts a Redis that was never configured; the code does not tell it
   from one that is configured and was down from the start.
9. *Redis and crashes* (`QuitRejected`): README 282 says that the application
   never crashes because Redis is unavailable; with a connection that has ended,
   after the last attempt or by the shutdown of a first signal, `quit()` is
   rejected, and the process exits with 1 before RabbitMQ is disconnected.

Two more are not against any document but against what a reader of the code
would expect.

10. *A second signal loses clicks* (the exception in `CleanExit`): its shutdown
    calls `publishChannel.close()` on the channel that the first is closing;
    that throws, line 192 logs it, and the process exits with 0 while the first
    is still writing what is in the buffer.
11. *A process that ends between INCR and PEXPIRE* (the case of `cut` in
    `CountersExpire`) leaves a counter without an expiry, as does a command that
    fails or is sent twice.  The key names its window and is never used again,
    so that it only stays in Redis.

Further ones seen while reading and not modelled: `findRefreshTokenByHash` finds
no revoked tokens, so `TOKEN_REVOKED` is never answered (`auth.service.ts`
68-70); a logout revokes one token where README 207 speaks of all of the user's;
two registrations of one address end in a 500; the comment on
`rateLimit.middleware.ts` 14 says sliding window, the code and README 307 fixed
window; README 313 lists a general limit of 100 requests that no route uses, and
README 315 rate limit headers on every response; the serverless function never
connects to RabbitMQ, so that its health check is never "healthy"; the parameter
`days` is validated with `Number()` and used with `parseInt()`, which differ for
`1e2` (`daysOf` and `ValidDays` in `ClickStats`).

## 6. Not modelled

Access tokens, passwords, hashes and the formats of bodies (`auth.middleware.ts`,
`auth.schemas.ts`): they are stateless, and the models begin behind them.
Errors and request ids are a translation without state.  Configuration, logging,
API documentation and the web page decide nothing that a property here is about.
The setup of exchanges and queues is taken to have succeeded.  Creation and
cache are checked over the same table module but not in one run: what they see
of each other is `LinkTable`, which both implement.

That the entries of the daily statistics add up to the summary is not stated: a
sum over a set is beyond the proof system.  That two registrations of one
address leave one account is the UNIQUE index of `users` and is not stated as a
property.  A Redis that restarts brings back counters in an older state, but
none that had expired before, nor cache entries that had been removed.  A
process of `Service` ends by its own exits; a kill from outside is, for what it
leaves in Redis, like `ForcedExit`.  Liveness of `Service` is not stated: its
health check may wait for Redis as long as ioredis goes on trying, and a
shutdown ends by its own timer.

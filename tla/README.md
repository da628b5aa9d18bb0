# TLA+ models of Sequoia

This directory holds TLA+ specifications of the parts of Sequoia whose correctness
depends on order, concurrency and failure, the TLC configurations that check them on
small instances, and TLAPS proofs of the properties that matter most. Paths below are
relative to the repository root.

## 1. The system

| Component | State it keeps | Operations | Talks to |
|---|---|---|---|
| Sessions and rotation (`auth-service`) | `auth.users`, `auth.sessions`, `auth.refresh_tokens` | login, refresh, logout, delete account | gateway (gRPC), Postgres, one autocommitted statement at a time |
| Accounts and service tokens (`auth-service`) | `auth.users.status`, profile, `auth.service_tokens` | register, approve, reject, update, change password, issue/revoke service token | gateway, Postgres |
| Device registry and channel (`device-service`) | `device.devices`, `device.enrollment_codes`; in memory: `device_id -> sender` | create enrollment, enroll, delete, channel (register, online, heartbeat, offline, unregister) | gateway, agents (bidirectional stream), Postgres |
| Agent runtime (`agents/`) | outbound and inbound queues of 256 frames, one stream | reconnect loop, dispatch, execute command, telemetry tick | device-service |
| Event bus, outbox (`libs/eventbus`, `libs/db`) | Redis streams, consumer groups, `public.outbox` | publish, read, ack; enqueue, claim, mark shipped | every service |
| Realtime gateway | connections, topic sets, one bounded queue per connection | upgrade, subscribe, unsubscribe, pump, close | event bus, browsers |
| Browser session and API client (`frontend`) | access and refresh token in memory, refresh token in localStorage, a shared refresh promise | hydrate, fetch with one retry, refresh, logout | API gateway |
| Browser realtime client (`frontend`) | socket, outbox of 256 frames, liveness timer | connect, send, destroy, reconnect | realtime gateway |
| API gateway, token verification | rate limiters, JWKS cache | authenticate, limit, forward, map errors | all services |
| AI orchestrator | messages, token budget | completion step, tool call, finish | model providers |

Section 10 says what is not modelled and why.

What is hard in this system:

- **Statements, not transactions.** Except for `enroll`, every SQL statement of a
  handler commits on its own, so handlers interleave between any two statements and a
  crash leaves every prefix of a handler behind.
- **Lost replies.** The gateway puts a deadline on its calls and tonic drops the
  handler's future when it passes; the client cannot tell how far the handler came.
- **Streams that overlap.** An agent reconnects before the server has noticed that the
  old stream broke.
- **Bounded queues in a circle**, in the agent, and queues that drop in the realtime
  gateway.
- **Agreement at a distance**: public paths, layers and handlers of the gateway are in
  three files, the two error tables in two crates.

`PROJECT.json` lists every hazard with its line.

## 2. The modules

| Section | Modules | Models | Above it | Theorems |
|---|---|---|---|---|
| 3 | `RefreshRotation` | login, refresh, logout, delete account | `SessionFamily`: a session is a baton | types, foreign keys, permanence, serial invariant, refinement |
| 4 | `Enrollment`, `DeviceChannel` | enrollment transaction, channel life cycle, registry, restarts | `Voucher`: a code is redeemed in one step | types, one device per code, refinement, no route to a finished task, a stream alone on its device is reachable |
| 5 | `Accounts` | register, approve, reject, login, profile, password, service tokens | - | types, unique emails, owned tokens, nobody acts unapproved, isolated tenants, final approvals |
| 6 | `GatewayRoutes`, `KeyCache`, `Gateway` | routes and error tables; verification keys; a request through the layers | - | types, withdrawn keys age out, verified claims, errors keep their status |
| 7 | `EventLog`, `Realtime` | outbox, stream, consumer group; pump, hub, connections, tickets | - | types, nothing counts as shipped unpublished or as settled unoffered, clients see the entries in order |
| 8 | `AgentStream` | the agent's stream loop, dispatcher, queues, commands | - | types, results in order on every stream and across streams |
| 9 | `AgentLoop` | a run of an AI agent, budget, tools | - | types, one last event, budget |

Modules are composed with `EXTENDS`: `DeviceChannel` on `Enrollment` (who may connect),
`Gateway` on the routes and the key cache, `Realtime` on the log it reads. `MC<module>`
instantiates a module for TLC. Modules are written to be proved about: constants with
named assumptions, one action per statement or handler step, invariants as conjunctions
of named parts, no recursive operators.

The proofs about a module are in `<module>_proofs`, those about `SerialSpec` with the
others of `RefreshRotation`. `OrderedSequences` holds what the
proofs of `Realtime` and `AgentStream` share: sequences of numbers that rise, and sets of
numbers that lie before others, under `Append`, `Tail` and concatenation. Every property
of a passing run that is an invariant, an action property or a refinement is also a
theorem. What only TLC checks are the four liveness properties, which are out of the
prover's reach: `DeadRouteIsDropped`, `AwayIsOffline`, `ShutdownDrains` and
`StreamRecovers`.

## 3. Sessions and rotation

### 3.1 `RefreshRotation`

One action is one SQL statement of `app.rs` in `auth-service` (through `adapters.rs`),
and `req[h]` holds the local variables of a handler with the statement it is about to
run.

| Variable | Code |
|---|---|
| `users`, `owner` | rows of `auth.users`; `auth.sessions.user_id` (`Null`: no such row yet, `Gone`: deleted) |
| `closed` | `auth.sessions.revoked_at IS NOT NULL` |
| `family`, `reason` | `auth.refresh_tokens.session_id` and `revoked_reason` (`"none"`: `revoked_at` is NULL) |
| `expired` | `expires_at` has passed |
| `pair` | which exchange a token came from and the `sub` claim of the access token next to it; the code keeps neither, the properties need them |
| `granted` | tokens whose reply reached a client: only these are presented |
| `req` | a handler's program counter and locals |

| Action | Code |
|---|---|
| `Login`, `CreateSession` | `login_password` up to the password check, then `PgSessionRepo::create` |
| `StoreToken`, `Reply` | `issue_pair`: the INSERT, and the answer that reaches the client |
| `Refresh`, `RevokeOld` | `refresh`: `find_by_hash` with its two checks, then `revoke` |
| `Logout` | `logout`: `find_by_hash` |
| `RevokeFamily`, `RevokeSession` | the two UPDATEs that logout and reuse detection share |
| `RevokeFamilyFails`, `RevokeSessionFails` | the same, failing: the results are discarded with `let _ =` |
| `Abandon` | process crash, cancelled call, an error returned by `?`, a lost reply |
| `DeleteAccount` | `delete_me` and the two cascades of `0001_init.up.sql` |
| `Expire` | time; tokens expire in any order (in the code: in the order of issue, which is a subset) |

Not in the model: the tenant, the password itself, statuses other than active (a
refused login changes nothing), `last_login_at`, and the contents of access tokens
other than their subject. Tokens are ids from a finite pool, each used once: a token
never collides with another. An access token keeps working until it expires whatever
happens to its session; nothing in the service says otherwise.

`Abandon` also stands for a call whose future is dropped while a statement is running:
the statement either took effect (the action, then `Abandon`) or did not.

### 3.2 Two environments

`Spec` allows any number of handlers on the same session at once. Rotation cannot keep
its promise there (section 3.4), and what it still keeps is stated for `Spec`.

`SerialSpec` restricts `Spec` to the runs in which at most one request about a session
is in flight (`OneRequestPerSession`). The service does not enforce this; it is what the
web client aims at with its shared refresh promise (`frontend/src/lib/api/client.ts`).
Crashes, lost replies, retries of old tokens, expiry and account deletion all remain.

### 3.3 What is checked

| Run | Instance | Properties |
|---|---|---|
| `rotation_concurrent` | `Spec`, 1 user, 1 session, 3 tokens, 2 handlers, ignored statements may fail | `TypeOK`, `ForeignKeys`, `RevocationIsPermanent`, `RedeemWindowCloses`, `FinishedFamilyStaysFinished` |
| `rotation_serial` | `SerialSpec`, 1 user, 2 sessions, 3 tokens, 2 handlers | `OneLiveToken`, `KilledFamilyIsDead`, `ClosedSessionIsDead`, `ImplementsSessionFamily` |
| `rotation_redeemed_twice` | `Spec`, no failing statements | `RedeemedOnce`, violated |

Three tokens are a login and two exchanges: enough for a fork of the family and a reuse
after it. Two handlers are enough for every race of two statements. Two sessions in the
serial run let a family be wrongly affected by a request about another one. Ids are
symmetric; only safety is checked, so the reduction is sound. The theorems below hold
for every number of users, sessions, tokens and handlers. Deadlock is not checked: the
pools of ids run out and an instance may stop.

- `ForeignKeys`: sessions belong to users that exist, tokens to sessions that exist.
- `RevocationIsPermanent`: no interleaving undoes a revocation or overwrites its reason.
- `RedeemWindowCloses`: once a token is revoked no handler *starts* to redeem it. A
  second redemption can only come from a handler that read the row before.
- `FinishedFamilyStaysFinished`: a family with no live token and nobody about to store
  one stays dead whatever is replayed.
- `OneLiveToken`, `KilledFamilyIsDead`, `ClosedSessionIsDead` (serial): rotation hands
  the session over; reuse and logout kill the family; a revoked session is dead although
  `refresh` never reads `auth.sessions.revoked_at`.
- `ImplementsSessionFamily` (serial): `SessionFamily` says what a session promises
  without tables - it owes a token, one token is held, it is exchanged, it ends, and it
  never comes back. Every statement is one of its steps or leaves it alone.

### 3.4 What the code does not keep

- `RedeemedOnce`: `refresh` reads the row and revokes it in two statements and does not
  look at how many rows the UPDATE changed. Two requests that read the same live row are
  both answered, although `auth.proto` promises that the previous token is invalidated
  atomically.
- Not run: `AccessTokenNamesOwner`. `refresh` passes `Uuid::nil()` as user and tenant to
  `issue_pair`, so a refreshed access token names nobody. It fails at the first refresh,
  with no interleaving to search for.
- Not run: `ClosedSessionIsDead` under `Spec`. A refresh that read its row before a
  logout stores its successor after it: the logout has answered OK and the session has a
  usable token.
- Not run, but visible in `IssuedPair`: `parent_id` is always NULL although
  `0001_init.up.sql` says that a new row links to its parent.

### 3.5 What is proved

`RefreshRotation_proofs` (under `Spec`): `TypeCorrect`, `TablesConsistent`,
`RevocationPermanent`, `RedeemWindow`, `FinishedStays`. The table lemmas rest on
`TableStep` (only six actions write a row), the family lemmas on `IssuersStep` (a
handler becomes an issuer only by reading a live token or by opening a session) and
`LiveStep` (a token becomes live only when an issuer stores it).

In the second half of the module, under `SerialSpec`: `OneLiveToken` is not inductive: it does
not say that a handler about to store a token finds none live. `SerialInv` adds
`HandlersInStep` (a handler about to revoke found the live token, one about to store
finds none) and that whatever reuse or logout touched is `Finished`. From it follow
`AtMostOneLive`, `KilledFamiliesAreDead` and, when ignored statements do not fail,
`ClosedSessionsAreDead`.

`Refinement`: the statement-level specification implements
the baton, also when ignored statements fail. Each action that writes a row has a lemma
that names the abstract step; all others are stutters.

Assumptions: `NullsAreNoIds` (the null values are distinct and not ids) and
`StatementsFailIsBoolean`. Constants may be infinite.

Only model-checked: nothing of section 3.3 is; every property of a passing run is also
proved. Not claimed: that a client eventually gets a token (a handler may always be
abandoned, so the code gives no such guarantee).

## 4. Device enrollment and channel

### 4.1 `Enrollment`

`enroll` is the one handler that uses a transaction. `call[e]` is a call of it: it opens
the transaction (`Begin`, which fixes `now()` and so decides whether the code has
expired), updates the row of the code (`Claim`), inserts the device and commits
(`Commit`), and answers (`Deliver`). `Abort` is every other end. Of Postgres the module
keeps row locks, visibility at commit and the meaning of `now()`; `LockHolders` is
marked external in `PROJECT.json`.

| Variable | Code |
|---|---|
| `issued`, `stale`, `consumed` | rows of `device.enrollment_codes`: present, `expires_at` passed, committed `consumed_at` |
| `enrolledBy` | rows of `device.devices`, with the code each was inserted for (the code does not keep it) |
| `call` | a call of `enroll` and its locals |
| `jwt` | devices whose agent holds a JWT that has not expired |

### 4.2 `DeviceChannel`

It extends `Enrollment`: only a device whose JWT was delivered connects. A stream exists
in four places that change one at a time: the network (`up`), the agent (`conn`), the
routing table (`route`) and the status column (`status`).

| Action | Code |
|---|---|
| `Open` | `channel`: verify, `register` (overwrites), spawn; no wait in between |
| `MarkOnline`, `ServerNotices`, `RefuseFrame`, `MarkOffline`, `Unregister` | the spawned task, statement by statement |
| `MarkOnlineFails`, `MarkOfflineFails` | the status writes whose errors are discarded |
| `Break`, `AgentNotices` | the connection is lost; `try_run` ends and `run` tries again |
| `MarkDeleted`, `DropRoute`, `AbandonDelete` | `delete_device`; the last also stands for an id spelled in a form that is no key of the table |
| `Restart` | the process stops and starts: tables stay, everything else goes |

`unrecorded` (streams whose last status write did not happen) and `overlapped` (streams
that ever shared a device with another running task) are history the properties need.
`Break` may happen to any stream at any time and stands for network failures and for an
agent that stops. Left out: `list_devices` and `get_device` (read only), `last_seen_at`,
the frames, `ChannelRegistry::send` (no caller, no effect on the table), and labels and
tenants.

### 4.3 What is checked

| Run | Instance | Properties |
|---|---|---|
| `device_channel` | `FairSpec`, 1 code, 2 calls of `enroll`, 2 device ids, 2 streams, failing statements | `TypeOK`, `CodeEnrollsOnce`, `SpentCodesMadeDevices`, `RouteIsRunning`, `OnlineIsAccountedFor`, `LoneStreamIsReachable`, `ImplementsVoucher`, `DeadRouteIsDropped`, `AwayIsOffline` |
| `device_unrouted` | `Spec`, 1 device, 2 streams, no failing statements | `ConnectedIsRouted`, violated |

Two calls and two ids are what a code needs to be spent twice. Devices share nothing but
restarts, so two streams, of which the second may be opened at any point of the teardown
of the first, show the races of a teardown with a reconnection; that more of them and
more devices do not disturb each other is proved (4.5). Liveness is checked in the same
run, so it has no symmetry. Deadlock is not
checked: the pool of streams runs out.

- `CodeEnrollsOnce`, `SpentCodesMadeDevices`: however calls overlap and wherever they
  fail, a code makes at most one device, and is spent exactly when it did.
- `ImplementsVoucher`: `Voucher` says what enrollment promises without transactions, locks
  and calls - a code is open until one step redeems it and makes the device, or until it
  is void; a device is owed its credentials from that step on and gets them at most once.
  A code counts as void once it has expired and no call that presented it in time is left
  (`CodeState`): a slow call may still redeem it after `expires_at`, as `now()` is the
  start of its transaction, but nobody else.
- `RouteIsRunning`: the table never holds a sender whose task has ended, so no route is
  left for ever.
- `OnlineIsAccountedFor`: a device shown online has a task that will correct it, or a
  restart or a failed write to blame.
- `LoneStreamIsReachable`: a stream that never overlapped another is routed and shown
  online while it is served.
- `DeadRouteIsDropped`, `AwayIsOffline`: the route to a broken stream goes, and a device
  that stays away ends up offline.

Fairness: the task of every stream is run (`WF_vars(Task(s))`). Its step
`ServerNotices` needs the operating system to report a broken connection; the `Ping`
sent on every stream each 20 s (`grpc.rs:306`) is unacknowledged data that makes TCP
give up. Nothing is assumed of agents, operators or the network.

### 4.4 What the code does not keep

- `ConnectedIsRouted`: `unregister` removes the route of the device, not of the stream.
  If the device has reconnected before its old stream is torn down, the new stream loses
  its route and the device is shown offline, for as long as the stream lasts: it still
  receives pings, so the agent has no reason to reconnect.
- Not run: a frame that the server refuses (`RefuseFrame`) ends the task but not the
  response stream, with the same effect. The agent's side of it is in section 8.
- Not run: a restart leaves `status = 'online'` behind (the `unrecorded` case of
  `OnlineIsAccountedFor`); nothing resets the column at start-up.

### 4.5 What is proved

`DeviceChannel_proofs`, under `Spec`, with failing statements and for any number of
devices, codes, calls and streams: `ServiceTypes`, `OneDevicePerCode`,
`SpentMeansEnrolled`, `NoRouteToFinishedTask`, `OnlineAccounted`,
`LoneStreamReachable`. The inductive invariant is `ServiceInv`. Enrollment needs
`EnrollmentInv`: one transaction holds the row of a code, and it found the code
unspent. Reachability needs `LoneStreamKeepsRoute`: a task that never overlapped has
its device to itself in every state, not only while it serves, so no other task can
remove its route or write its status (`LoneStreamHasNoNeighbour`), and a deletion hides
the device before it drops the route.

`EnrollmentImplementsVoucher` is the refinement, for the whole service with its channels
and restarts. The commit is the step that redeems (`RedeemRefines`): that the code is open
then is `EnrollmentInv` and that its call is still `Presenting` it. Handing over needs
`RepliesInv`: a device is owed its JWT by one call and does not have it. Everything else
leaves the state of codes and devices or lets some lapse (`Quiet`); a restart is one such
step for all calls at once.

Assumptions: `NullIsNoId`, `NullIsNoStream`, `StatementsFailIsBoolean`. Only
model-checked: the two liveness properties.

## 5. Accounts

### 5.1 `Accounts`

The rest of `auth-service`. As in section 3 one action is one SQL statement; `call[h]`
is a handler with the statement it is about to run, or what it last answered.

| Variable | Code |
|---|---|
| `row` | rows of `auth.users`: tenant, email, status, the password (`Null`: not yet, `Gone`: deleted) |
| `svc` | rows of `auth.service_tokens` |
| `claims` | `sub` and `tid` of every access token issued; they never expire in the model |
| `call` | a handler's locals, or its last answer with the rows in it |
| `approved` | history: accounts whose approval was answered with OK |

| Action | Code |
|---|---|
| `Register`, `InsertUser` | `register`: length of the password, `find_by_email`; then `create`, which the unique index may refuse |
| `ApproveUser`, `Activate`; `RejectUser`, `Remove` | `approve_user`, `reject_user`: the checks of the row (`Refusal`), then the UPDATE or DELETE by id |
| `Login`, `VerifyLogin`, `GrantSession` | `login_password`; the session is refused by the foreign key when the account is gone |
| `RefreshClaims` | the claims of a refreshed token: the nil UUID twice (section 3.4) |
| `UpdateMe`, `Reread`; `ChangePassword`, `CheckPassword`, `StorePassword`; `GetMe`, `DeleteMe` | the caller's own account |
| `IssueServiceToken`, `ListServiceTokens`, `RevokeServiceToken`, `ListPendingUsers` | one statement each |
| `Abandon` | a crash, a deadline, an error returned by `?` |

A caller is any element of `claims`: the gateway has verified the token and passes its
claims on (section 6). `Register` needs none. Every other tenant or id in a request is
chosen freely, also one of another tenant.

### 5.2 What is checked

`accounts_safety`: two tenants, three users (one is the seeded account, so two can
register), two emails, one password, one service token, two handlers. Two of each are
what a race for an email, a foreign tenant and a stale check need; a second password adds
states and no interleaving any property tells apart. Users that register and handlers
are symmetric. The system does not stop and deadlock is checked.

- `EmailUnique`: `register` checks and inserts in two statements and `update_me` does not
  check; the unique index carries the property alone.
- `ServiceTokensOwned`: a token belongs to an existing account of its own tenant,
  whatever races with the deletion of its creator.
- `ActorsWereApproved`: whoever holds claims with a subject was approved.
- `NoForeignRows`, `TenantsAreIsolated`: nothing of another tenant is returned, changed
  or deleted, although `approve`, `reject` and `update_me` write by id alone.
- `ApprovalIsFinal`: after an approval was answered nobody gets past the checks of
  `reject` any more. It is not "an approved account is never rejected": a `reject` that
  read the row before deletes it.

### 5.3 What is proved

`Accounts_proofs`, under `Spec`, for any number of tenants, users, tokens and handlers:
`AccountsTypes`, `EmailsAreUnique`, `TokensHaveOwners`, `NobodyActsUnapproved`. A token is
issued with the tenant of its caller's claims and the caller's id, so
`ServiceTokensOwned` needs to know that the two fit: the inductive invariant
`AccountsInv` adds that whoever holds claims, or is about to, is `Entitled` to them (was
approved, has or had a row, and while it has one it is of that tenant), and that a row
is active only after an approval. What a step may do to a row is `RowStep`: nobody
changes tenant, becomes active unapproved or comes back. The proof is in three parts:
what statements do to the tables (`TablesStep`), what handlers hold afterwards
(`CallsStep`), and to whom claims are given (`ClaimsGrow`).

`HandlersReturnOwnRows` (`NoForeignRows`), `TenantsStayIsolated` and `ApprovalsAreFinal`
need more. `row` and `call` change in different steps, so what a handler holds has to fit
its tenant in every state in between, also when the row was deleted since. `TenantInv`
adds to `AccountsInv` that each handler's `call` is its `Own`: the account it goes on
with, and the rows it has returned, existed, and those that still do are of its tenant.
This is kept because rows and tokens neither come back nor move to another tenant
(`RowStep`, `SvcStep`). It adds `ApprovedAreActive`: an account whose approval was
answered is active or deleted, so the check for `pending` refuses it. The proof shows of
each action that it is a `StepFor` one handler: it moves that handler alone, what the
handler holds afterwards is its own, and every row or token it changes is of the
handler's tenant (`TablesFor`).

Assumptions: `SeedIsAccount`, `NullsAreNoRows`, and `IdsAreOfOneTable` (an id is not at
once of an account and of a service token), which only the returned rows need. Nothing is
only model-checked.

## 6. API gateway

### 6.1 `GatewayRoutes`, `KeyCache`, `Gateway`

`GatewayRoutes` holds what does not change: each route of `build_router` with the RPC it
calls, whether its handler extracts `Claims` and the status of its success; the public
prefixes of `middleware.rs`; and the tables between errors, gRPC codes and HTTP statuses.

`KeyCache` is `JwksCache` against the issuer's document, in ticks: `published`,
`unlisted` (ticks since a key was last published, needed for the property) and `cache`
(ticks an entry has left). Times are ages, so the clock needs no bound.

`Gateway` is a request on its way through the layers of `main.rs`, from the outside in:

| Action | Code |
|---|---|
| `Arrive`, `RequestTimeout` | the router; `TimeoutLayer`, which drops the request at any await |
| `AuthLayer`, `ServeKeys`, `FetchDone`, `FetchFails` | `auth_layer`, `JwtVerifier`, `JwksCache::get` and `refresh`: each miss makes a fetch, and fetches overlap |
| `RateLimit` | `rate_limit_layer` and the handler up to its first await (`Handle`) |
| `UpstreamAnswers` | the call of a service, with any gRPC code; the overview waits for the counts of two services and is answered whatever they come to |
| `Tick`, `RotateKeys` | time; the issuer |
| `Signal`, `Stop` | graceful shutdown |

A token is its key id and whether it verifies; what is signed over and how is external. A
limiter is a cell counter refilled by `Tick`. `config` is any deployment: local key or
JWKS, with the services that are configured. Of an answer only success or failure is
kept, as no property reads more.

### 6.2 What is checked

`gateway_layers`: two requests, one key the issuer may withdraw and one it never had, one
address, a burst of two for it and of one for all, and six routes that between them
end a handler in every way (answered at once, answered without the service, forwarded,
issued by the gateway, put together from two services, never wired), with everything
configured or nothing they need. Cache entries live two ticks and a fetch one: the
shortest that differ. Two requests are what a fetch overtaken by another needs. The
constants of the code (600 s, 5 s) differ in number only.

- `StaleKeyBound`: however fetches overlap, a withdrawn key is accepted for at most the
  lifetime of an entry plus the timeout of a fetch.
- `ClaimsAreVerified`: a handler that extracts `Claims` is only reached with those of a
  token that verified; it relates the prefixes, the layers and the handlers.
- `ErrorsSurviveTwoHops`: an error of a service reaches the client with the status the
  platform gives it.
- `ShutdownDrains`: after a signal the gateway stops.

Fairness: the timer of the timeout layer fires (`RequestTimeout`) and axum returns when
the last connection is done (`Stop`). Nothing is assumed of the issuer or the services.

Known and in the model, but no property: concurrent misses do not coalesce although
`jwks.rs:41` says so, and the lookup runs before the rate limits.

### 6.3 What is proved

`Gateway_proofs`, for any number of requests, keys, tokens and routes and any times and
quotas: `GatewayTypes` and `WithdrawnKeysAgeOut`. `StaleKeyBound` is not inductive: it
says nothing of an answer that is on its way while the cache has no entry. `GatewayInv`
adds `FetchAges`: a key in such an answer was withdrawn for no longer than the request
has waited, and a request waits for at most the timeout of a fetch.

`HandlersGetVerifiedClaims` (`ClaimsAreVerified`) has the invariant `ClaimsInv`: a request
that is past the authentication holds claims if its handler extracts `Claims`, claims are of a
token that verified, and one that waits for keys has its token. What carries the
proof is a fact about the table of routes, `PublicTakesNone`: no route behind a public
prefix has such a handler; it is proved by cases over the routes of `build_router`.
`ErrorsKeepTheirStatus` (`ErrorsSurviveTwoHops`) is the same for the two error tables
(`CodesAreGuessed`).

Assumptions: `CacheTimes`, `Quotas`, `DeploymentsAreServices`, `CallsAreRoutes`. Only model-checked: `ShutdownDrains`.

## 7. Events and the realtime gateway

### 7.1 `EventLog`, `Realtime`

`EventLog` is the way of an event from the transaction that causes it into a Redis
stream. A row is its number in commit order, an entry its position in the stream.
`ClaimBatch` gives a relay unshipped rows that no other claim has locked at that moment
and commits at once, so two relays may hold the same rows. No service runs a relay yet:
`RelayStops` and the order of its calls are what the comments of `outbox.rs` ask for.

`Realtime` adds the gateway: the reader task (`Subscribe`, `ReadGroup`, `Forward`), the
pump (`Pump`, `Ack`), and per connection its upgrade, reader and writer (`WsUpgrade`,
`Register`, `ClientCmd`, `Write`, `WriterFails`, `Leave`, `Unregister`), tickets and
`Restart`, which loses everything in memory and nothing of the group.

| Variable | Code |
|---|---|
| `shipped`, `claimed`, `todo` | `published_at` of the outbox rows; a relay's batch |
| `entries`, `group` | the stream; the consumer group: start, last entry given, pending |
| `pump`, `batch`, `channel`, `holding` | the reader's and the pump's locals, and the channel between them |
| `conn`, `by_topic` | the hub's maps, with each connection's writer and queue |
| `ticket` | whether a ticket of the user is valid: verification keeps no record of use |
| `offered` | history: entries that were fanned out |

One of the three pumped topics is modelled. The topics a connection is given by default
(`events.devices.<tenant>`, `events.users.<user>`) are pumped by nobody, so nothing ever
arrives on them. Trimming of the stream at about a million entries is left out.

### 7.2 What is checked

`realtime_pipeline`: two relays, three rows (two that decode and one that does not), two
entries, reads of two and claims of one, a channel and a send queue of one, one client
that comes and goes. The two entries are any two of the rows, in either order, or one
row published twice: the least that can be out of order, overtaken or of a kind that is
skipped. Capacities of one make every queue full. Relays are symmetric. Connections share
nothing but the entries they are sent, so one shows what a client sees; more of them are
in the proofs. The pools run out, so deadlock is not checked.

`realtime_twice`: two relays, one row, two entries, one client.

- `ShippedWasPublished`: a row that counts as shipped is in the stream, although relays
  stop anywhere.
- `SettledWasOffered`: an entry the group was given was fanned out or is still pending:
  no crash, lost reply or dropped entry loses it for good.
- `FanOutInOrder`: a client is sent the entries of the stream in order and no entry
  twice, over dropped frames, reconnects and restarts. It is about entries: an event that
  was published twice is two of them.
- `EventsReachClientsOnce`, violated: the same about events. `outbox.rs:9` accepts
  duplicate publications because consumers dedupe on `Envelope::id`. Two relays that
  claim the same row publish it twice (a relay that stops before it marks the row does
  too), and neither `hub.rs:91-104` nor the browser's `ws/client.ts` looks at the id:
  the client is sent the event twice.

Known and in the model, but no property, since the code does not keep it: pending entries
are never read again (the janitor that `redis_streams.rs:4` names does not exist), the
"one-time" ticket of `main.rs:4` opens any number of connections until it expires,
concurrent upgrades exceed the limit, and a pump whose first connection fails is gone for
good.

### 7.3 What is proved

`Realtime_proofs`, for any number of relays, rows, entries and connections and any
capacities: `OnlyPublishedIsShipped`, `OnlyOfferedIsSettled`, `RealtimeTypes` and
`ClientsSeeTheStreamInOrder` (`FanOutInOrder`, so about entries and not events). The first two follow from `PipelineInv`,
which is a conjunction of two: in `OutboxInv` a relay that claimed a row and has
no more to do for it has published it; in `GroupInv` the entry a pump is about to
acknowledge was fanned out, and nothing is on its way without a group.

`FanOutInOrder` speaks of the queue of a connection and of the last frame its client got,
and says nothing of what is still to come. `OrderInv` follows the entries on their way:
the frames of a connection are older than what is in the channel or in the reader's
batch (`Ahead`), the channel is older than the batch, each of them rises, and nothing is
newer than the last entry the group was given (`Given`). Only `ReadGroup` brings new
entries, all of them after `Given`; `Forward` and `Pump` move one entry on; every other
step drops entries or leaves them. The two invariants and the types together are
inductive (`StreamInv`).

Assumptions: `Limits`, `NoneIsNoGroup`, `Capacities`. Nothing is only model-checked.

## 8. Device agent

### 8.1 `AgentStream`

| Variable | Code |
|---|---|
| `loop`, `held`, `link`, `latest` | the stream loop and what it holds while it waits for room; its connection, and the number of its stream |
| `stream` | for each stream ever opened, the frames that are on their way: in the request stream, the network, the server |
| `inbound`, `outbound` | the two queues of `runtime.rs` |
| `disp`, `current`, `orphan` | the dispatcher, its command, and a descendant of the child that holds the pipes |
| `issued`, `readers`, `got` | the server: commands sent, the streams whose task still reads, and for each stream the commands whose result it read there |
| `answered` | history: commands whose result the dispatcher queued |

`Connect`, `TakeFrame`, `SendFrame`, `Receive`, `Deliver`, `EndOfStream` are the steps of
`ChannelClient::run` between awaits; `Dispatch`, `ChildEnds` or `WaitFails`, `Drain`,
`SendResult` those of the dispatcher; `Heartbeat` is the telemetry loop. `Break` and
`OrphanEnds` are the environment.

The server reads each stream in a task of its own (`grpc.rs:271-294`), and that task
knows nothing of what the agent does next. So `Break` only breaks the connection: frames
of the old stream stay on their way, and `ServerReads` may take them before, after and in
between those of the stream the agent has opened since. `ServerStops` ends a task: with
the connection, or with a frame it cannot decode while the connection stays live. What is
on its way then is lost, and so is what is sent later. The rest of the server's side, its
routes and its status column, is section 4.

### 8.2 What is checked

`agent_stream`: queues of two (256 in the code), so that each wait for room happens (pings
fill them where commands run out), three commands and two streams (`MaxCommands`,
`MaxStreams`). Two streams are an old one and the one that overtakes it: a result of the
second can be read while an earlier one waits in the first.

`agent_results_lost`: one command, queues of one, two streams.

- `ResultsInOrder`: the server's tasks overlap, so it is not true that results are read in
  the order of the commands. What holds is that each stream carries them in that order, a
  later stream later ones than those before it, and what the agent still has is later than
  both; so each task reads in order, no result is read twice, and the number of the stream
  tells the order of two.
- `ResultsAreDelivered`, violated: a result that was queued has been read or is on its
  way. `stream.rs:4` and `ARCHITECTURE.md:293-296` say that unacknowledged frames are
  retransmitted (at-least-once); the code keeps no frame to send again, sends `seq` 0 and
  looks at no `ack`, so what the loop holds or a stream carries when the connection breaks
  is gone. In the trace the loop takes the result from the queue, and its `tx.send` fails.
- `StreamRecovers`: the agent lets go of a broken connection, unless the dispatcher and
  the stream loop wait for each other's queue (`CircularWait`) or a descendant of a
  command keeps its pipes open (`PipesHeld`). Both are real: the first is a deadlock, and
  the second lasts as long as the descendant. The property says there is no third way.

Fairness: the runtime polls tasks that can go on and fires the command's timer. Nothing
is assumed of children, their descendants, the network, the server or the telemetry loop.

### 8.3 What is proved

`AgentStream_proofs`, for any capacities and any number of commands: `AgentTypes` and
`ResultsStayInOrder` (`ResultsInOrder`), for any number of streams whose frames are still
being read while later ones are open. A command goes down a line of six places: the hand
of the loop, the inbound queue, the dispatcher, and as a result the outbound queue, the
hand of the loop again, and what the streams carry or have delivered. `LineInv` says that
what is further on is always the smaller number, that each queue rises and that nothing
is above the last command sent. A step moves one number one place on (`Slides`) or loses
numbers (`Loses`); both keep the line in order. Inside the last place the streams have
an order of their own, which the line does not see: `StreamsInv` says that each stream
rises, what was read of it comes first, an older stream is before a newer one, and
streams to come carry nothing. Reading and losing only shrink what a stream has
(`StreamsShrink`), on whichever stream they happen; a new frame goes to the newest stream
and is, by the line, above everything on all of them (`BufferFrameKeeps`). `AgentInv` is
both with the types.

Assumption: `AgentCapacities`. Only model-checked: `StreamRecovers`.

## 9. AI runs

### 9.1 `AgentLoop`

`Agent::run` against a provider that may stream anything: text, tool calls, usage, a
finish reason, an error, the end. `stage` is where the run is, `todo` the tool calls of
this answer that were not run yet, `budget` the limits and counters, `events` what the
consumer was sent. Counters saturate at `Top` (2^64 - 1 in the code). The gRPC handlers
of this version do not start runs, and the provider registry is empty.

### 9.2 What is checked

`agent_loop`: two requests (16 in the code), counters up to three, reports of zero, one
and `Top`, six events: a text or tool call in each answer, results, and the last event.
A run ends, so deadlock is not checked.

- `EventsAreComplete`: a run that returns `Ok` has sent exactly one last event and nothing
  after it, one that fails none; and before the model is asked again each tool call told
  has one result after it.
- `AskedWithinBudget`: the model is only asked again while the reported tokens are within
  both limits, also when the counters saturate.

### 9.3 What is proved

`AgentLoop_proofs`, for every number of requests, width of counters and stream:
`LoopTypes`, `NeverAskedOverBudget`, `EventsComplete`. The inductive invariant `LoopInv`
adds that a step is left before each request (`StepsLeft`), that the limits hold in
every stage until the run ends (`WithinLimits`), and the `Ledger`: a call was told once,
has no result while it waits in `todo` and one later result afterwards, and `todo` holds
no call twice. Assumption: `LoopNumbers`. Every property of the run is proved.

## 10. Not modelled

- **Services without behaviour**: the workflow engine, command executor, notification,
  telemetry and plugin services answer `unimplemented` or empty, and their loops do
  nothing.
- **The front end**: the session store, the API client and the realtime client of the
  browser are TypeScript with a life cycle of their own; the models are of the backend.
  Noticed while reading: the shared refresh promise is not reset when there is no refresh
  token (`client.ts:89`), the refresh on page load bypasses it (`providers.tsx:22`), and
  `destroy` does not stop a socket whose ticket is still being fetched
  (`ws/client.ts:48`). What overlapping refreshes do to a session is in section 3.
- **Libraries without state**: pagination, ids, configuration, cryptography, tracing; and
  `policy.rs` and `rbac.rs` of `libs/auth`, which no service calls.
- **Contents**: request and response bodies, transcripts (so also that `agent.rs:106`
  takes the tool calls out of the message that asked for them), telemetry samples, labels,
  the counts of the overview.

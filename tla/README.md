# Verification of template-nestjs-api

TLA+ models of the stateful parts of this NestJS service, the TLC runs that
check them on small instances, and TLAPS proofs of the results that matter most
for every instance.

## 1. The system: inventory

Requests reach the service through REST controllers, GraphQL resolvers and the
MCP endpoint. They share one PostgreSQL database (through Prisma) and, where
Redis is configured, one second-level cache; `docs/deployment.md` runs two
replicas. Handlers are `async`: between two `await`s any other request of the
same process may run, and at any time one of another replica. Nothing in the
code opens a transaction: `TransactionPrismaService` exists and has no caller.

| Component | State | Operations | Depends on |
|---|---|---|---|
| Refresh tokens (`features/auth/services/refresh-token.service.ts`) | table `RefreshToken` | createToken, rotateToken (with the grace period of handleRevokedToken), revokeFamily, revokeFamilyByRawToken, revokeAllUserTokens | database, clock |
| Sessions in a browser (`auth.controller.ts`, `auth.resolver.ts`, `cookie.service.ts`, `login.handler.ts`, `jwt.strategy.ts`) | cookies `rev_at`, `rev_rt` with their paths; JWTs; `User.tokenVersion` | login, refresh, logout, me | refresh tokens |
| OAuth authorization server (`features/oauth`) | clients, authorization codes, access and refresh tokens | register, authorize, token (both grants), revoke, validateAccessToken | database, clock |
| MCP endpoint (`api/mcp-api`) | none: a server per request | authenticate, tool calls, coercion of arguments | OAuth tokens, JWTs, tasks |
| Tasks (`features/task`) | table `Task` | create, update, delete, get, list; events | database, event bus |
| Task cache (`infrastructure/cache`) | BentoCache entries with tags and TTLs | getOrSet, deleteByTag from event handlers | tasks, event bus |
| Permissions (`casl-ability.factory.ts`, `auth-cache.service.ts`, guards) | cached role permissions | canAccess | database, cache |
| Sign-up (`sign-up.handler.ts`) | table `User` | signUp | database |
| Transaction retry (`transaction-prisma.service.ts`) | attempt counter, delays | run, executeWithRetry | database |
| Dictionary proxy (`features/dictionary`) | token obtained at start | onModuleInit, authenticate, getRows, getRow | external service |
| Task adapters (`task.controller.ts`, `task.resolver.ts`, `task.tools.ts`, permission guards, DTOs) | none | the five task operations over REST, GraphQL and MCP | permissions, tasks |
| Cache keys (`stable-cache-key.ts`), argument coercion (`coerce-stringified-args.ts`) | pure | canonicalize; coerceStringifiedArgs | |
| Shutdown, health, metrics, logging, filters | process life cycle | hooks | |

### What each component must get right

**Refresh tokens.** A login opens a *family*; each refresh revokes the presented
token and creates a successor. Rotation is a read, an update by id and an insert,
without a transaction, so anything may happen between them: another tab's
refresh, a logout, a crash. A token presented again within the grace period (30 s
by default) is served by rotating the family's latest live token; later it counts
as reuse and the family is revoked. *Correct when:* a family has one live
token, and at most one more for each refresh that overlapped another request, an ended family stays ended, a revocation
is never undone, its date, from which the grace period counts, moves only where
requests overlap and by no more than clocks and statements lag, a stale tab is served within the grace period, and
every request is answered.

**Browser sessions.** The tokens live in two cookies with different paths, one jar
is shared by all tabs, and a reply may be late, out of order or lost. *Correct
when:* both cookies always belong to one user, the jar holds the family's live
token once nothing is under way, and a lost reply can be repeated.

**OAuth server.** A code is consumed by one conditional update; a refresh token is
read and then revoked by an update *without* condition; a revocation cascades to
the access tokens with one `updateMany`. Two inserts make a token pair. *Correct
when:* a code is exchanged once, every token goes back to such an exchange with
its PKCE verifier, what was spent or revoked before a call was sent does not serve
it, and the cascade reaches all the client held for the user.

**Tasks and their cache.** A write commits, then publishes an in-memory event
whose handler deletes tags, in Redis and in the memory of its own replica, and
tells the other replicas on a bus; meanwhile factories may be storing what they
read earlier. *Correct when:* an entry differs from the table only while an
invalidation or a message is under way, or for the two reasons the code cannot
exclude (a factory that raced with a write, an invalidation lost with a crash, a
cache error, a message or the acknowledgement of a write); every call is answered.

**Identity and permissions.** A JWT carries a role; the role's permissions are
cached for a day and nothing calls the invalidations. *Correct when:* what is
allowed was permitted, to a role the user had, no longer ago than those TTLs; what
is forbidden was lacked within them; and `NO_AUTH` gives nobody anything in
production.

**Sign-up.** Read, hash, insert; the unique email decides. *Correct when:* one of
several racing sign-ups succeeds.

**Transaction retry.** *Correct when:* an effect is applied once at most, the
number of attempts is exactly what is configured, and conflicts alone never
exhaust as many retries as there are competitors.

**Adapters of the task operations.** The same five operations are reached in three
ways, each with its own permission check, validation and order of the two. *Correct
when:* no way reaches an operation without the permission it needs, an argument
arrives as it was sent, and the database refuses only what is known to slip through.

**Cache keys.** *Correct when:* two calls share a key exactly when their arguments
mean the same.

**Dictionary proxy.** *Correct when:* no read asks the other service before the
login of this start has ended, and none does without an address. What a read gets
after a failed login is up to the other service: `getRows` and `getRow` send the
request with whatever token there is.

The hazards these properties are aimed at, each at its line of the source, are
listed in `PROJECT.json` under `hazards`.

## 2. Modules

| Module | Models | Builds on |
|---|---|---|
| `SessionFamilies` | abstract: a family is opened for one user, may end, never comes back | |
| `RefreshTokens` | `RefreshTokenService` and the requests that call it | `SessionFamilies` (refinement) |
| `BrowserSession` | cookies, `AuthController`, `AuthResolver`, `JwtStrategy`, `tokenVersion` | extends `RefreshTokens` |
| `OAuthGrants` | abstract: a code is redeemed or burnt once, tokens come from redeemed codes | |
| `OAuthTokens` | `features/oauth` and the access-token check of the MCP endpoint | `OAuthGrants` (refinement) |
| `TaskCache` | `features/task`, `TaskCacheService`, event handlers, two cache layers and their bus | |
| `TransactionRetry` | `TransactionPrismaService` | |
| `AccessControl` | guards, MCP authentication, `CaslAbilityFactory`, sign-up | |
| `TaskEndpoints` | task controller, resolver and MCP tools: permission, validation, coercion | |
| `CacheKeys` | `canonicalize`, `makeCacheKeyFromArgs` (recursive, for TLC only) | |
| `DictionaryProxy` | `DictionaryProxyService` | |
| `MCServices` | `TransactionRetry`, `DictionaryProxy`, `CacheKeys`, `TaskEndpoints` and `AccessControl` in one run | the five modules |
| `*Proofs` | the theorems about the module named, section 4 | the module, TLAPS |
| `MC*` | the symmetry sets and small values for TLC | the module named |

### Correspondence with the code

The same conventions hold in every module.

- A **database statement is one atomic step**. An action is the code from one
  `await` to the next: the checks on what was read before, then the next statement.
  `pc[r]` is the statement request `r` runs next, and what it holds in local
  variables between two statements (`storedToken`, `latestToken`, the result of a
  factory) is a variable of the model indexed by `r`. Two replicas, two tabs and two
  requests of one process are all just different members of `Requests`.
- **Failure** is an action `Fail(r)`: an awaited statement rejects, or the process
  stops, and what was written stays. `TaskCache` also has `Crash`, because events
  and the first cache layer are in the memory of the process.
- **Raw tokens and their hashes** are one-to-one, so a row is indexed by its token;
  a fresh random token is one without a row. A password, an email or a redirect
  URI is a member of a small set.
- **Time** is a counter of ticks; the comparisons (`<`, `<=`, `gt`) are those of
  the code. The bounds `MaxTime`, `MaxVersion` and `MaxChanges` cap the clock and
  the operator's interventions, and `MaxTime` also lets a behaviour end in
  `Finished`, so that any other halt is reported as a deadlock.
- **History variables** (`contended`, `overlap`, `before`, `raced`, `excused`,
  `applied`, `hadRole`, `held`, ...) are marked as such and guard nothing.
- Operators preceded by "Mutant:" are deliberately wrong variants of the
  definition that follows them. They are not part of any specification; each shows
  that a property notices a plausible mistake in that code.

**RefreshTokens.** `table` is the table `RefreshToken`. `rotateToken` is
`RotateLookup` (or `RotateUnknown`), then `RejectExpired`, or `RevokePresented` and
`CreateSuccessor`, or, for a token that was revoked when read, `handleRevokedToken`:
`FindLatest`, `RevokeLatest`, `CreateFromLatest`, or `FindNoLatest` and
`DetectReuse`. `revokeFamilyByRawToken` is `LogoutLookup` and `LogoutRevoke`. The
two updates by id carry no condition on `revokedAt` in the code, and none here;
`createdAt` ties let the database return any of the newest rows. The dates of a row
are the application's: `new Date()` is read before its statement is sent, and by the
clock of the replica. So each step takes a time `d` from `Clock`, which reaches back
`Lag` ticks from `now`, for what it compares and for what it writes, and two
overlapping updates may commit their dates in either order.

**BrowserSession.** `jar` is the cookie jar; `sent[r]` is what the browser attaches
by the cookie's path, `reply[r]` the Set-Cookie headers on their way, which
`Deliver` applies in any order and `Lose` drops. `Sign` reads `tokenVersion` when
the code does: in `LoginReads` for a login, in `RefreshSigns` for a refresh. A
refresh or a logout goes to the controller or to the resolver at `/graphql`; the two
differ in the cookie that arrives and in that only the controller clears the cookies
of a refresh without one.

**OAuthTokens.** `ConsumeCode` is the conditional `updateMany` of `exchangeCode`;
`VerifyPkce` follows it, so a wrong verifier spends the code. `RefreshReads`,
`SpendRefresh`, `CreateAccess` and `CreateRefresh` are the four statements of a
refresh; `RevokeRefresh` and `Cascade` the two of a revocation. A call that is
refused on arrival keeps nothing. `UserOnRequest` says whether `req.user` is set
when `POST /oauth/authorize` runs. Nothing in the repository sets it, so the
rest of the server is only reachable with the value TRUE, which stands for a guard
in front of the route; the run `oauth_authorize` uses FALSE.
`GET /oauth/authorize` is `AuthorizeGet`: the global ValidationPipe lets pass
only what `AuthorizeQueryDto` decorates, which is nothing (`Whitelisted`).

`OAuthGrants` says what all this is for: a code stands for a consent (client, user,
scope), is redeemed or burnt once, and a token is minted for just that consent and
stays revoked. `Grants` maps the tables to it; a code is redeemed from the moment
its verifier was accepted.

**TaskCache.** `mode` is decided once, as `CacheModule.forRoot` does: no cache, the
memory of the only instance, or memory, Redis and a bus for several. A value is
represented by the number of updates of a task's row, and a list by that number for
every task together with the count, read by two statements that run concurrently.
BentoCache is external, and modelled from its use: a lookup goes from the first layer
to the second; a factory runs under a lock of its key in its replica; storing and
deleting by tag apply to the replica's own layer and to Redis at once and send every
other replica a message; messages arrive at most once, in any order (`Deliver`,
`Lose`); an entry of either layer ends with its TTL. `Publish` hands the event to its
handler, which runs by itself at the replica of the call, one deletion at a time, and
with Redis behind it may fail. `Unacknowledged` is a write that was committed and
rejects all the same: no event, and the process goes on. `Refused` is a call that a first read ends, or a
create for the `NO_AUTH` user, who has no row.

**TransactionRetry.** The database is one row with a version: a commit is refused
if another one came since the snapshot. `CommitUnknown` is a commit whose
acknowledgement was lost. `Backoff` is the set of delays the jitter can give.

**AccessControl.** `Arrives` gives a request its identity by each of the five ways
the code has: `NO_AUTH` or a JWT over HTTP, `NO_AUTH`, a JWT or an OAuth token over
MCP; with an optional guard it may have none. `CheckHits`, `CheckReads` and
`CheckFills` are `createAbility` over the cached permissions. A permission may have a
condition, which `Can` ignores as CASL does when a check names only the type of a
subject; the seed's conditions on `userId` therefore restrict nothing.
`InvalidateRoles` is the invalidation that `AuthCacheService` offers and nothing
calls. The operator's statements (`AssignRole`, `Permit`, `Forbid`,
`IncrementVersion`) are external: the repository has no code for them, and its docs
tell the operator to run them. The cache is taken as enabled; with it disabled every
check reads the table and the lag is only smaller. There is one cache and one clock:
replicas with their own first layers, and the messages between them, are in
`TaskCache` only. With two layers the lag of a permission may add up, as an entry
that the first layer takes from Redis starts a TTL of its own.

**TaskEndpoints.** A call carries the values a client sends, told apart as far as the
code does: left out, null, a number, a text that is JSON of a container, of something
else or neither, a status, the empty text, one that is too long for the validator or
for the column only, one with NUL; and whether the row exists that the operation
needs, the task's or, for a create, the caller's. REST is `Guard`, then `Validate`.
GraphQL checks the types of its schema first (`TypeCheck`), before any guard. MCP is `CallTool` (the coercion of the body, then the
schema that the SDK checks), then `CheckSystemPermission`; all end in `Execute`, the
handler with the columns of the table. `Declared` is `getAllAndOverride` of the
permission decorators.

**CacheKeys.** A JavaScript value is a record with its type, an object the sequence
of its entries in the order they were set. `Canonicalize` is `canonicalize`,
`Stringify` is `JSON.stringify` into tokens, and `Meaning`, the reference, is
defined without either: an object is a set of named values.

**DictionaryProxy.** `ModuleInit` and `Authenticate` are the start with its one login,
which the application waits for; `Read` and `Reply` are `getRows` and `getRow`. A read
is answered by whatever the other service does, whether the login succeeded or not;
only a body that is not JSON makes it an error, because `response.json()` is returned
and not awaited.

## 3. Model checking

| Run | Instance | Checks |
|---|---|---|
| `refresh` | 3 requests, 3 tokens, 2 families, TTL 1, grace 1, lag 1, clock to 3, fairness | `TypeOK`, `LiveTokensExplained`, `EndedFamily`, `GraceServesStaleTab`, `RevocationIsFinal`, `SessionsImplemented`, `GraceFailsInWindow`, `OnlyPendingRevives`, `StaleReplayIsReuse`, `Answered` |
| `two_tabs` | 3 requests, 1 family, lag 1 | `GraceCoversRaces` **violated** |
| `reuse` | 3 requests, 1 family, one clock, fairness | `ReplayEndsSession` **violated** |
| `session` | 3 calls, 2 users, 2 families, 1 version increment | `SessionTypeOK`, `JarHoldsLiveToken`, `RetryWithinGrace`, `CookiesAgree` |
| `session_logout` | 3 calls, 1 user | `LogoutEndsSession` **violated** |
| `session_version` | 3 calls, 1 user, 1 increment | `IncrementRevokesSessions` **violated** |
| `oauth` | 3 calls, 2 clients, 2 codes, 2 tokens of each kind | `OAuthTypeOK`, `CodeUsedOnce`, `TokensGranted`, `SpentNotServed`, `CascadeReachesGranted`, `RevokedNotAccepted`, `CascadeMissesOverlap`, `GrantsImplemented` |
| `oauth_cascade_race` | 3 calls, 1 client | `CascadeReachesRefreshed` **violated** |
| `oauth_authorize` | 2 calls | `AuthorizationStarts` **violated** |
| `tasks` | 2 calls at a time and 3 in all, 1 task and the list, 2 replicas, 1 fault, fairness | `TasksTypeOK`, `CacheCoherent`, `TasksAnswered` |
| `services` | 3 transactions, settings unset, no number, or -1..1 each | `RetryTypeOK`, `AppliedOnce`, `TriesCounted`, `ConflictsAreWon` |
| | 2 reads, 2 starts of the process | `ReadsFollowLogin` |
| | all pairs of values of two levels, objects of up to two fields | `KeysMeanArguments` |
| | every operation by every way, 8 roles, 12 forms of an argument | `PermittedBeforeCalled`, `TextsArrive`, `ServerErrorsExplained` |
| | 2 requests, 1 user, 2 roles, 1 action, 2 changes, JWT life 2, cache life 1, clock to 3 | `AccessTypeOK`, `OneSignUp`, `PermissionLag`, `GrantLag`, `RoleLag`, `ProductionNeedsIdentity` |
| `delay_cap` | 3 transactions, the same settings | `DelayCapped` **violated** |

Run one with `tlc -config RefreshTokens_refresh.cfg MCRefreshTokens.tla`.

**Why these bounds.** The properties of `RefreshTokens` relate two requests of a
family, and the login that opened it; each of the two may be any operation, so that
every pair of them meets at every statement, and a second family shows what
`revokeAllUserTokens` and an unrelated login do. Two refreshes that overlap leave two
live tokens, as many as `LiveTokensExplained` allows. TTL 1, grace 1, a lag of 1 and a
clock to 3 pass the grace period and the expiry by every clock. The theorems of section
4 are the same statements without bounds, for every `Lag`. `BrowserSession` runs with
`Lag` 0, being larger; what is proved of it is for every `Lag` too. A browser needs a
login, a refresh and a third call that races with it or repeats it. The OAuth
hazards need an exchange and two calls on its result. A stale cache entry needs a
reader, a writer and one more call, on a task and on the list that contains it, at
two replicas; a handler or a message outlives its call, so two calls at a time and
three in all give every order of a read, a write and a later read, and one fault
(`MaxFaults`: a crash, a failed handler, a lost message or a lost acknowledgement) shows each loss by itself. A
retry loop meets each comparison with 0, 1 and 2 retries. A permission or role is
stale at the boundary of its TTL within three ticks. A value of two levels has
every nesting that `canonicalize` treats differently. The 8 roles are each action
alone and all but each. All sets are interchangeable and declared symmetric where no
definition distinguishes their members, never in runs with liveness properties; there
`TaskCache` lets the first call go to a fixed replica and the calls take the first
free slot, which is no loss since replicas and slots are alike.

**The run `services`** holds five parts that share no state. `part` is chosen at the
start and only that part moves, so the states are the sum of theirs and not the
product; nothing is lost, since no action of one reads a variable of another.

**Fairness.** `FairSpec` of `RefreshTokens` is weak fairness of `Continue(r)`: the
event loop resumes a request whose statement has settled, and no request waits for
another. `Fail` is not fair, so no property relies on a failure. Starting requests
and the clock are not fair either. `FairSpec` of `TaskCache` adds, for each replica,
the handlers its event bus has started. No message of the bus need arrive and no TTL
need end. A statement is taken to settle: the repository sets no timeout, and a
factory that never settles would keep the callers of its key waiting. The lock of a key needs no
stronger fairness: it is released by steps of its holder, and each request waits
for it at most once per factory in front of it.

**An assumption about time.** In `AccessControl` a tick does not pass between a
factory's read and its fill: a tick stands for minutes, a statement for
milliseconds. Without it the lag of `PermissionLag` grows by the duration of that
query, which the code does not bound.

### Where documentation and code differ

The violated properties state what the documentation says; each run finds a
shortest behaviour against it.

1. `GraceCoversRaces` (`docs/jwt-lifecycle.md:323`: two tabs that refresh
   simultaneously are covered by the grace period). Tab A revokes T1; before it
   creates T2, tab B reads T1 as revoked, finds no live token in the family and
   revokes it as reuse. `GraceServesStaleTab` shows that the grace period does work
   where no requests of the family overlap, and `GraceFailsInWindow` that this is the
   only way it fails: a refresh finds no live token between the two statements of
   another rotation of its family, or after the family may have been ended.
2. `ReplayEndsSession` (`docs/jwt-lifecycle.md:133`, `:140`: a replay after the grace
   period revokes the entire family, and the user must log in again). A refresh reads
   T3, revokes it and awaits the create of its successor; another request has read T3
   as revoked and is resumed after the grace period; it is rejected as reuse and revokes
   what is live, which is nothing; then the first creates a live token. Any rotation
   that is between its two statements when an old token of its family is replayed has
   the same effect. `StaleReplayIsReuse` says that the replay itself is always rejected
   and that nothing is live at that moment, and `OnlyPendingRevives` that nobody but a
   request under way then can bring the family back.
3. `LogoutEndsSession` (`docs/jwt-lifecycle.md:298`, `REVIEW.md:71`). The refresh
   cookie's path is `/api/auth/refresh`; the browser does not send it to
   `/api/auth/logout`, and nothing is revoked.
4. `IncrementRevokesSessions` (`docs/auth-and-permissions.md:26`). A refresh after
   the increment signs the new version.
5. `CascadeReachesRefreshed` (`docs/oauth.md:45`). A refresh that has spent its token
   creates the new pair after the cascade has passed. `CascadeReachesGranted` shows
   that whatever was made before the revocation was sent is reached, and
   `CascadeMissesOverlap` that only a refresh that overlaps the revocation escapes it.
6. `AuthorizationStarts` (`docs/oauth.md:22`, `:24`). No guard sets `req.user`
   for `POST /oauth/authorize`: a good bearer token gets 401. And
   `GET /oauth/authorize` with any parameter gets 400 from the global
   ValidationPipe (`main.ts:19`), whose whitelist for `AuthorizeQueryDto` is
   empty. The theorem `NothingWithoutUserHolds` gives the consequence: with the routes
   as they are, no code and no token is ever created.
7. `DelayCapped` (`ENV.md:48`: `TRANSACTION_MAX_DELAY_MS` is the "max delay cap for
   backoff"). The jitter is added after the cap (`transaction-prisma.service.ts:142`), so
   that a delay may exceed it by half, and by no more: the theorem `DelayBoundsHold`.

Seen while reading, and not stated as a property: `JWT_REFRESH_GRACE_PERIOD_MS=0`
means 30000 and not "disabled" (`ENV.md:27`, `refresh-token.service.ts:26`); an access token revoked with the
hint `refresh_token` stays valid (`oauth-token.service.ts:141`); a JWT keeps its MCP
access after `tokenVersion` moves (`mcp-auth.service.ts:55`), although
`docs/jwt-lifecycle.md:60` says all existing JWTs become invalid; the loser of a sign-up
race, and of a race to delete a task, gets 500 and not 409 or 404; the mutation
`refreshToken` of the resolver never gets the refresh cookie from a browser; the MCP
tool `get_tasks` describes its status filter as optional (`task.tools.ts:17`) and its
schema requires it; null for the title or the status of an update passes
`@IsOptional` and is answered 500, as is a create by the `NO_AUTH` user, who has no row
(`ServerErrorsExplained` names what may be); after a failed login the dictionary
proxy never logs in again, and a body that is not JSON makes a read reject where every
other error is an empty result; a rotation that fails between its two statements leaves
the browser with a token whose retry is answered as reuse.

## 4. Proofs

Eight modules hold the theorems, each for every value of the constants that the
assumptions of its component allow: any requests, users, tokens, roles, tasks,
replicas, times to live, lags and bounds. Of the 40 properties that passing runs check
37 are also theorems, among them both refinements. Some theorems state what no run has to
check: an inductive invariant, what the abstract specifications promise and the
refinements carry over to the code, and how far a refuted claim is refuted.

| Module | Theorem | States |
|---|---|---|
| `RefreshTokensProofs` | `TypeCorrect` | `Spec => []TypeOK` |
| | `SerialInvariant` | `Spec => []SerialInv` |
| | `OneLiveTokenHolds` | `Spec => []OneLiveToken` |
| | `LiveTokensExplainedHolds` | `Spec => []LiveTokensExplained` |
| | `EndedFamilyHolds` | `Spec => []EndedFamily` |
| | `GraceServesStaleTabHolds` | `Spec => []GraceServesStaleTab` |
| | `GraceFailsInWindowHolds` | `Spec => GraceFailsInWindow` |
| | `OnlyPendingRevivesHolds` | `Spec => OnlyPendingRevives` |
| | `StaleReplayIsReuseHolds` | `Spec => StaleReplayIsReuse` |
| | `RefinesSessions` | `Spec => SessionsImplemented` |
| | `OneOwnerHolds`, `EndedForeverHolds` | `Spec => []Sessions!OneOwner`, `Spec => Sessions!EndedForever` |
| | `RevocationFinal` | `Spec => RevocationIsFinal` |
| `BrowserSessionProofs` | `SessionsAreRequests` | `SessionSpec => Spec` of `RefreshTokens` |
| | `SessionsInherit` | the properties above, of `SessionSpec` |
| | `SessionTypeCorrect` | `SessionSpec => []SessionTypeOK` |
| | `CookiesAgreeHolds` | `SessionSpec => []CookiesAgree` |
| | `RetryWithinGraceHolds` | `SessionSpec => []RetryWithinGrace` |
| | `JarHoldsLiveTokenHolds` | `SessionSpec => []JarHoldsLiveToken` |
| `OAuthTokensProofs` | `TypeCorrect` | `Spec => []OAuthTypeOK` |
| | `CodeUsedOnceHolds` | `Spec => []CodeUsedOnce` |
| | `TokensGrantedHolds` | `Spec => []TokensGranted` |
| | `SpentNotServedHolds` | `Spec => []SpentNotServed` |
| | `CascadeReachesGrantedHolds` | `Spec => []CascadeReachesGranted` |
| | `RevokedNotAcceptedHolds` | `Spec => []RevokedNotAccepted` |
| | `CascadeMissesOverlapHolds` | `Spec => []CascadeMissesOverlap` |
| | `NothingWithoutUserHolds` | `Spec => []NothingWithoutUser` |
| | `GrantsRefined` | `Spec => GrantsImplemented` |
| | `MintedFromCodesHolds`, `NothingReturnsHolds` | `Spec => []Grants!MintedFromCodes`, `Spec => Grants!NothingReturns` |
| `TaskCacheProofs` | `TypeCorrect` | `Spec => []TasksTypeOK` |
| | `CacheCoherentHolds` | `Spec => []CacheCoherent` |
| `TransactionRetryProofs` | `TypeCorrect` | `Spec => []RetryTypeOK` |
| | `AppliedOnceHolds` | `Spec => []AppliedOnce` |
| | `TriesCountedHolds` | `Spec => []TriesCounted` |
| | `DelayBoundsHold` | `Spec => []DelayBounds` |
| | `ConflictsAreWonHolds` | `Spec => []ConflictsAreWon` |
| `AccessControlProofs` | `TypeCorrect` | `Spec => []AccessTypeOK` |
| | `OneSignUpHolds` | `Spec => []OneSignUp` |
| | `PermissionLagHolds` | `Spec => []PermissionLag` |
| | `GrantLagHolds` | `Spec => []GrantLag` |
| | `RoleLagHolds` | `Spec => []RoleLag` |
| | `ProductionNeedsIdentityHolds` | `Spec => []ProductionNeedsIdentity` |
| `DictionaryProxyProofs` | `ReadsFollowLoginHolds` | `ProxySpec => []ReadsFollowLogin` |
| `TaskEndpointsProofs` | `PermittedBeforeCalledHolds` | `EndpointSpec => []PermittedBeforeCalled` |
| | `TextsArriveHolds` | `EndpointSpec => []TextsArrive` |
| | `ServerErrorsExplainedHolds` | `EndpointSpec => []ServerErrorsExplained` |

### Assumptions

`BoundsAssumption`, `SessionBounds` and `OAuthBounds` say that times and bounds are
naturals; `NullAssumption`, `OAuthNull`, `AccessNull` and `TaskNull` that `Null` is
none of the values it stands beside. `OAuthPrefixes` says that codes, access tokens
and refresh tokens are different values, as their prefixes make them.
`AccessConstants` has the roles the code names among the roles, and a JWT live for
some time: `RoleLag` is strict, and a JWT of no duration is never accepted. Two sets
are finite: `RetryRuns` the calls of `run`, because `ConflictsAreWon` counts them, and
`TaskConstants` the tasks, because a list has a count. `TaskConstants` also says that
the list is no task, Redis no replica, and that there is a replica. TLC evaluates
each on the runs.

### The arguments

**RefreshTokens.** `OneLiveToken` is not inductive: that creating a token leaves one
live token depends on what the request did before. `SerialInv` adds

- `Alone`: a family that is not contended has at most one request in flight;
- `SameFamily`: the latest token a request holds is of the family it read;
- `Exclusive` (`LiveKnown`): the one request in flight knows the only token that
  can be live, and after its update knows that none is;
- `EndedForGood`: in a family that was ended, nothing is live and no request in
  flight is about to create a token.

Its proof has one lemma per kind of step (a read, an answer, an await, a creation, a
login), each of which says what the step leaves true for the family it works on and
for the others; the actions are cases of these.

`LiveTokensExplained` is about families whose requests do overlap, and implies
`OneLiveToken` where none do. `contended[f]` is the set of the requests that found
another one under way on the family when they read their row. So at any time one request at most on the
family is not in it (`OneEarly`). Such a request may hold a live token, and with that
one set aside the others are explained by the requests of `contended` that were served
(`Explained`): each of these adds a token and a request to the count, and the request
that is not counted revokes what it holds before it adds one (`HeldSpent`). The
set of requests need not be finite for this; the sets that are counted are shown to be.

For `GraceServesStaleTab`, `GraceInv`
adds `Sustained` (a family in which no request has failed, and that none has ended, has
a live token or a request about to create one) and, for a request that is about to
reject, or has rejected, what it was told by the row it read (`Wanting`, `Rejected`).
`GraceFailsInWindow` speaks of overlapping requests too, where nothing is known of
who holds what. Its argument starts from `Aged`, that no row is dated later than the
clock: a family without a candidate for `FindLatest` has no live token at all, because
one of its live tokens would be the newest, however many there are. That step is an
induction over `createdAt`; the lemma `Greatest` gets it from the well-foundedness of
the naturals, which the library states for sets, without an operator parameter.
`OnlyPendingRevives` and `StaleReplayIsReuse` are read off the actions with what
`TypeOK` says of the request.

The refinement needs only the part that does not speak of contention (`RefInv`:
`TypeOK` and `SameFamily`), so it holds for any interleaving: a family has "ended"
exactly when no token of it is live and no request can add one (`Pending`), and no
step leaves that state. `OneOwner` and `EndedForever` are invariants of two variables in
`SessionFamilies` and come back through the refinement mapping as statements about the
table: a family has one user, and no interleaving revives one whose last rotation is
over. `RevocationFinal` needs the auxiliary invariant `Dated`, that no revocation lies
in the future: a second one of the same row then is dated back by `Lag` at most, and
that there is a second one at all needs a request that holds the row from before the
first, which is a contended family (`SerialInv`) or a `revokeAllUserTokens`.

**BrowserSession.** `StepInv` says for each request how the call, the cookie sent
with it, the point it has reached and its reply belong together. From it every step
of the browser is one of `RefreshTokens`, or a stutter (`SessionsAreRequests`), so that
the theorems above hold behind cookies too (`SessionsInherit`). `CookiesAgree` then needs that each
reply on its way agrees with itself (`AgreeInv`). For calls that do not overlap,
`LoneInv` says that one request at most is active, that it presents what the jar
holds, and that what it will deliver is the token it made. `RetryInv` and
`SteadyInv` add what is known of the token in the jar: that it can still be retried
(`Retriable`, `Late`) as long as no statement failed, and that it is the live one
(`Steady`) as long as nothing was lost either.

**OAuthTokens.** `StepKinds` reduces the steps to the statements that write, and
`Kept` says once what any step preserves: the grant of a row, that a revocation
stays, and what a request presents. `TypeInv` ties a request to the row it presents
(`Presented`). `CodeUsedOnce` is then inductive, because the update of `consumedAt` is
conditional. `GrantInv` is that a request past its verifier holds a code for which the
verifier was checked (`ProofChecked`), and that each row in the two tables
goes back to such a code. `SpentInv` adds that a request past its update has marked
its row (`Marked`), and that a request sent after an answer reads the mark
(`SpentSeen`); that is where the order of an answer and a later call enters.
A token made counts as spent whether or not its call was
answered, so a retry after a failed or lost answer is covered. `RevocationInv` says the
same of the cascade, for every access token made before the revocation was sent.
`OverlapInv` relates a token to the call that made it (`MadeFor`): a refresh that was
over when the revocation was sent has nothing left to create, and one sent after its
answer reads the mark. `NothingWithoutUser` follows from `GrantInv`: without a code
(`NoCodes`) there is nothing a row of a token can go back to. `GrantsRefined` maps issuing, consuming,
minting and the three revocations to the steps of `OAuthGrants`; every other step is a
stutter. `MintedFromCodes` and `NothingReturns` are proved of `OAuthGrants` alone and hold
of the server through the mapping.

**TaskCache.** `TypeInv` contains what a factory has read: unless a write of the same
task, or for a list of any, came since (`raced`), that is what the table holds, so that what it stores is current or
excused. `CacheCoherent` with it is inductive: an entry becomes stale by a write,
which queues an event (`Invalidating`); the event's deletion removes it from two
layers and puts a message on the bus for each of the others; and only a fault, which
excuses what is stale, ends either without the deletion (`UnacknowledgedKeeps` is the
one that leaves the process running). All of it is
per key, for any number of tasks: a write and the publication that follows it concern the keys in
`Affected`, and a handler every key, because the last tag it deletes is on every entry
(`TagsOfAll`); a crash excuses only the keys whose invalidation it interrupted.

**TransactionRetry.** `LoopInv` relates the attempts, the calls of `fn` and the
commits of a run at each point of the loop. `DelayInv` adds that the delay slept is one
of the backoff of the attempt; the provers know no powers, so `2^n` is taken as the
number of subsets of `1..n`. `ConflictInv` counts: the version is the number of
runs that committed, and each refused attempt was outrun by one commit more
(`Outrun`), so that as many retries as competitors suffice.

**AccessControl.** The three lags are about history variables; `HistoryInv` says that
these record what the tables say now and `HistoryGrows` that they never go back.
`LagInv` follows a permission from the table (`FactoriesTrue`) through the cache
(`CacheTrue`) to an answer, and `IdentityInv` a role from the row through the JWT
(`TokensTrue`) to the request (`RolesTrue`). `SignUpInv` adds that the row of a user
who signed up exists (`Created`).

**DictionaryProxy** and **TaskEndpoints** are sequential for each read or call; their
invariants say what is known at each stage. The lemma `SamePermissions` is the
agreement of the guards' decorators with the tools' own checks, and
`CoercedNeverConforms` that what the coercion changes no schema admits.

### Only model-checked

- `Answered` and `TasksAnswered`: liveness under fairness, which the prover cannot
  reason about.
- `KeysMeanArguments`: `CacheKeys` is recursive over nested values, and what a recursive
  definition computes needs an induction over data.
- The seven violated properties, which are not theorems.

## 5. What is not modelled

- *The generated Prisma client* (`__generated__`): some 80 % of the lines under
  `src/src`, types and forwarding methods without decisions. Its statements are the
  steps of the models; its unique keys, foreign keys and conditional updates are their
  guards.
- *Paging*: `first` and `skip`. `TaskCache` has one list, whose key stands for one
  value of the arguments; that other arguments have other keys is `KeysMeanArguments`.
- *Adapters*: Swagger, the GraphQL output types, the DTOs of login and sign-up.
- *Shutdown*: the hook sleeps, and `main.ts` does not enable shutdown hooks. Every
  model lets a request stop after any statement, and `TaskCache` and
  `DictionaryProxy` let a process stop.
- *Database connection, health, metrics, logging*: I/O without state that others
  read. *Error formatting*: an answer is told apart by what it says, not its text.
- *Migrations and seed*: run before the service; the seeded permissions are the
  records of `AccessControl`.
- *The protocol inside BentoCache* (grace periods, factory timeouts, retries of its
  bus): the repository sets none of them.

## 6. Plan

The order was by importance: sessions (abstract specification, detailed module,
proofs, refinement), the browser on top, OAuth with its abstract specification, the
task cache with its replicas, permissions, the smaller services and the adapters;
then their proofs in the same order. What could follow:

1. **Times in `TaskCache`.** An entry of the model ends by itself, and no property says
   when; with a clock, "at most the TTL after the write" could be stated, and proved as
   in `AccessControl`.
2. **Replicas in `AccessControl`**, with the two layers of `TaskCache`.
3. **`AccessControl` behind `OAuthTokens`**: the two are checked apart, joined only by
   an action of `AccessControl` by which any user with a row may hold an OAuth token. A
   composed specification would derive it.

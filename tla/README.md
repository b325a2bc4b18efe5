# TLA+ models and proofs for CaptCha

CaptCha is a captcha platform in Go: a platform server (HTTP and gRPC) that
issues challenges, tickets and clearances, and gateways (and middleware) that
stand before business systems and ask the platform about every request. This
directory holds TLA+ modules of the parts of it that are stateful and
concurrent, the TLC runs that check them on small instances, and TLAPS proofs
of their main properties for every value of the constants.

`tlc -config X.cfg M` checks a run (`PROJECT.json` pairs the two),
`tlapm M_proofs.tla` checks the proofs of a module.

## 1. Inventory

| part | state it keeps | operations | what is hard about it |
|---|---|---|---|
| Challenge sessions (`internal/api/server.go`, `internal/engine`, `internal/challenge/escalation.go`, the session store in `internal/store`) | a session record: status, failure count, answer and payload, captcha type, deadline | create, get, verify, refresh | each endpoint works on a private copy and writes all of it back; two requests on one session; crash or dropped write between steps |
| Tickets and clearances (`internal/token`, `internal/store/redis.go`, `memory.go`; used by the HTTP API and `internal/grpcserver`) | ticket and clearance records with deadlines | issue, inspect, consume, exchange for a clearance, check a clearance | several servers redeem through an optimistic transaction; expiry, lost replies, crashes |
| Configuration distribution (`internal/configsync`, `grpcserver.getConfig`/`WatchConfig`, the gateway's cache loop) | the version, one channel of capacity 1 per stream, `lastVersion`, each gateway's cache | admin write and `Notify`, fetch, subscribe, push, retry | a snapshot is read in parts, versions are thrown away, versions restart with the server |
| Event batcher (`internal/gateway/event_batcher.go`) | queue, batch, stop/done channels | `Report`, `run`, `send`, `Close` | selects with several ready cases, full queue, close racing with reports |
| Gateway request flow (`internal/gateway/gateway.go`, `integrations/go-middleware`) | config cache, two circuit breakers, the client's cookie | local decisions, ticket consumption, policy call, fail-open / fail-close, audit events | a timeout whose call took effect, late results at the breaker, a snapshot that changes under way |
| Front door (`internal/nettrust`, `internal/grpccontract`, header handling of the gateway) | none | client address, context headers, conversions to and from messages | chains mixed from trusted and untrusted entries; members and widths the messages do not have |
| Rate limiters (`IncrementRate` of both stores) | counters, sorted sets, token buckets | increment, change of strategy | INCR and EXPIRE are two commands, the sliding window a pipeline of four that is no transaction; times read before; bounded retries that fail open |
| Policy evaluation (`internal/policy`, `internal/routepolicy`, and again in `internal/gateway`) | none (reads the store, the gateway's cache and the rate limiters) | evaluate, dry run, local decision | one configuration is evaluated by two implementations and three callers that differ in their checks and their order |
| Risk model registry (`internal/store/memory.go`, `postgres.go`) | model versions and their status | upsert, activate, roll back | at most one active version per name, however the operations follow each other |
| Applications and secrets (`internal/api/server.go`, `internal/secret`, both stores) | application rows with a hash | save, rotate, check a caller | a save carries over a hash it read before; failed statements read as empty lists and are answered as stored |
| Routes, rules, address policies, resources (`internal/api`, `resource_upload.go`, both stores) | rows, resource file, upload directory, audit trail | save, delete, upload, load | change, audit and notice are three steps; crash between write and rename; uploads half done |
| Challenge engine (`internal/engine`) | pre-generation channels | generate, warm, fill, take, verify | warm-up against fillers and consumers; tolerances |
| Resources in a challenge (`internal/resource`) | none | validate, select, choose a type, draw | the list is read twice; what is drawn must agree with what is expected |
| Other: feature records, inference, metrics, commands, web clients | mostly none | | data work, output, user interface |

How they interact. The HTTP API answers a challenge with a ticket
(sessions -> tickets); the gateway, or a business system, redeems it through
`ConsumeTicket`, `/tickets/verify` or `/policy/evaluate` and receives a
clearance, which later requests present instead. Admin requests write the
store and call the notifier; `WatchConfig` streams push snapshots to the
gateways, whose local decisions read the cache. Gateways report their
decisions through the batcher.

What makes each part correct:

- sessions: a session yields one ticket; failures are counted and the limit is
  final; a session that can be verified has an answer to compare with;
- tickets: a ticket is redeemed at most once, by a request that agrees with
  all it carries, and `CONSUMED` is only said when it can be redeemed no more;
  a clearance stands for one redemption, carries the address and user agent of
  the request that redeemed, and nothing its ticket did not admit;
- configuration: no version is missed, a cache never goes back and ends up with
  the last version;
- policies: the gateway decides alone only what it may, and as the platform
  would; a dry run tells the truth; a token that is not honoured has no effect;
- front door and flow: what the configuration blocks is refused, nobody is let
  through without a reason or refused after redeeming, a service that fails is
  left alone, every request is answered, and either transport says the same;
- rate limiters: no more than the limit pass, and nobody is stopped before;
- secrets: the secret in force is the one given last; nothing but a rotation
  changes it;
- tables: what is stored survives, reaches the gateways and is in the audit
  trail, as long as that keeps it;
- challenges: each is given once, what is seen can be solved, solutions pass
  and guesses do not;
- batcher: no accepted event is lost, repeated or reordered on the way to the
  client; bounded memory; `Close` ends and has flushed.

`PROJECT.json` lists the hazards at their lines, those that no property
covers included.

## 2. Modules

| module | models | proofs |
|---|---|---|
| `ChallengeSession` | sessions, their handlers, both stores | `ChallengeSession_proofs` |
| `OneShotTicket` | abstract: what a ticket promises | |
| `TicketRedemption` | tickets and clearances over Redis or memory; implements `OneShotTicket` | `TicketRedemption_proofs` |
| `ConfigSync` | notifier, config service, cache loops | `GatewayFlow_proofs` |
| `EventBatcher` | the batcher | `GatewayFlow_proofs` |
| `RiskModelRegistry` | model versions in the memory store and in Postgres' transactions | `RiskModelRegistry_proofs` |
| `PolicyDecision` | the gateway's local decisions, the platform's evaluation, the dry run | `PolicyDecision_proofs` |
| `FrontDoor` | what a front end makes of a request, and the conversions of requests, decisions and snapshots | `GatewayFlow_proofs` |
| `GatewayFlow` | gateway and Go middleware with their breakers, and the platform they call; extends `FrontDoor` | `GatewayFlow_proofs` |
| `RateLimit` | the counter behind one key, in memory and in Redis | `PolicyDecision_proofs` |
| `ApplicationSecrets` | applications and client secrets over both control stores | `ApplicationSecrets_proofs` |
| `ControlTables` | the other tables, their handlers, file, uploads, audit trail and notices | `ControlTables_proofs` |
| `ResourceChoice`, `PathMatch`, `Captchas`, `ChallengeVisuals` | pure: resources accepted and chosen; strokes compared; challenges made and answers judged; what a picture shows. Each extends the one before it | |
| `ChallengeEngine` | pools, sessions' challenges, refresh, changing resources; extends these | `ChallengeEngine_proofs` |
| `MC*` | symmetry sets for the runs, and small configurations and requests | |

A run checks a few properties, most of them a conjunction of named parts that
belong together; below, the parts are named too. Definitions named `...Late`,
`...Kept`, `...Unbound` and the like, each introduced by the word "Mutant"
before the definition they vary, are plausible bugs, one for every part. `PROJECT.json` says which property notices each; no specification uses
them.

### ChallengeSession

`store` is the session store; `pc`, `target` and `copy` are the handler
goroutines. `Load` is `loadSession`, `Admit` the application and status checks
on the copy, then one of `FailVerification` (`recordFailedVerification`),
`IssueTicket` followed by `MarkVerified` (`handleVerifySession`), or
`RefreshSession` (`handleRefreshSession`) with its write-back. Early returns
are `Reject`. The engine's verdict on an answer is a choice; a challenge is the
number of its generation, 0 when answer and payload are cleared; a captcha type
is its position in the escalation sequence. `backend`, chosen once in `Init`,
is the store the server is configured with (`Durable` when it is Redis), so that
a run covers both: Redis keeps sessions over a `Crash` and drops the error of a failed SET; the memory
store marks a lapsed session when it is loaded (`LoadLapsed`) and a crash of
its process is `Init` again. Redis' own removal of expired sessions is covered
by `Load`, which refuses lapsed ones whether or not the key is still there.

`failed` counts the verifications that failed; `disturbed` collects the
sessions on which requests overlapped, a crash cut a request short or a write
was dropped. Both are history: no action's guard but the bound `MaxAttempts`
reads them.

What holds. The documented one-shot session (`OneTicketPerSession`,
`LockedOutForGood`) fails when requests overlap: two that loaded the active
session each issue a ticket (run `ChallengeSessionTwoTickets`, the finding),
and one that loaded it before its last allowed failure writes its older copy
back, which unlocks it (architecture-design.md:2179 says a locked session is
not used again). What remains under overlap is `SessionsSound`:
`StoredSessionsWellFormed`, `TicketsEarned` and `NeverOvercharged`; and for a
session nothing has disturbed, `QuietSessionsOrderly`: `QuietFailuresCharged`,
`QuietSessionOneTicket` and `QuietSessionMovesForward` hold whatever happens to
other sessions.

### TicketRedemption and OneShotTicket

`OneShotTicket` redeems in a single step and has neither stores nor crashes.
`TicketRedemption` has, when `backend` is Redis (`Durable`), the round trips of
`RedisTransientStore.VerifyTicket`: `Watch`, `Read` (GET and validation),
`Exec` or `ExecAborted` (`TxFailedErr`, answered `ErrConsumed`), between which
other servers' commands, key expiry (`ExpireKey`), connection errors
(`Unavailable`, also after an EXEC that was applied) and crashes fall; on
the memory store `ConsumeLocked` is `MemoryStore.VerifyTicket`. `dirty` is Redis' bookkeeping
of touched watched keys. Redis' behaviour is the one external part. Then
`Mint` is `withClearance`, and `PresentClearance`, `VerifyClearance` the later
use.

A context is a value, or none, for each of `Fields`: the scope (client and
scene), the origin (hashes of IP and user agent), the subject (hashes of account
and device) and the way (path and nonce). A ticket carries only some of them.
One earned in a session of `POST /sessions` (server.go:179-184) carries the
scope alone, one earned in a session a policy decision opened the origin and
subject as well, either perhaps the way (`Carriable`). `validateTicket` and
`validateClearance` skip what is not carried (redis.go:301-334,
memory.go:141-160), which is `Matches`: a ticket of `POST /sessions` can be
redeemed from any address, by any account. A clearance carries the fields of
the request that redeemed, without the way, and is minted only when that has an
address and a user agent (`Clearable`).

`ClearancesHold`: a clearance comes of a redemption by a request that had all it
carries, among it an address and user agent (`ClearancesEarned`), and whoever is let pass by one agrees
with the redeemer in all of these, and the redeemer with the ticket
(`ClearedByRedemption`).

The refinement (`RedemptionIsOneShot`) maps answers to verdicts and derives the
admitted requests from bindings and contexts; `redeemer` is history and the
abstract state's own variable. A ticket counts as lapsed from its deadline on,
since from then Redis may drop the key while an EXEC is on its way.

### ConfigSync

An admin request is `Write` and then `Notify`. A gateway's loop goes through
`StartFetch`, `ReadPart` once per part, `FinishFetch`, `Subscribe`, again
`ReadPart`, `Push`, and from then `Receive` and, unless skipped, another
reading and `Push`. `Fail` is a failing call or stream, `Restart` a new server
process over a persistent store. A part's content is how often it was written.
Sending a snapshot and caching it are one step: the stream delivers in order
and a snapshot lost with its stream was not cached.

`announced` and `trigger` are history. What holds is said of versions:
`NoVersionMissed` (an idle stream has sent the newest version or will be woken,
`NoLostWakeup`, and a snapshot contains the changes announced before its reading
began, `SnapshotCoversTrigger`), `CacheMovesForward` and `VersionsConverge`.
What architecture-design.md:63 promises beyond, `ContentConverges`, fails:
a change that is written after its part was listed and
announced before the version is read (server.go:426) is labelled as contained,
so its notification is skipped and the cache keeps the old content until another
change.

### EventBatcher

`Report`, `Check`, `Offer`, `GiveUp` are the two selects of `Report` for each
event; `TakeEvent`, `FlushOnTick`, `SeeStop`, `DrainEvent`, `EndDrain` the
cases of `run`'s selects, `Sent` the return of `send`; `Close`, `CloseReturns`
`Close`. Whether the platform keeps a batch is left out: a failed send is
logged and dropped by design.

### RiskModelRegistry

`models` are the rows. `backend` is the control store, chosen in `Init`. Without
`Postgres` every operation is one step under
the mutex: `UpsertInMemory`, `ActivateInMemory`, `RollbackInMemory`. With it
registration is the single INSERT (`UpsertInPostgres`), and activation and
rollback are transactions of an admin request: `BeginActivate` or
`BeginRollback` (the SELECTs; the version to restore is chosen here),
`StartDemoting` (the first UPDATE finds its rows in what is committed),
`Demote` for each of them once nobody else holds it (its condition is looked at
again, so a row demoted meanwhile is left alone), `StartPromoting` (the second
UPDATE is sent with `time.Now()`), `Promote`, `Commit`. `Abort` stands for every
failure, the timeout and Postgres' deadlock detection included. That is Postgres
at READ COMMITTED, the level `BeginTx(ctx, nil)` leaves in force. A status is
given as it is spelled: `" active"` stands for those the handler's refusal
does not recognise and `normalizeModelStatus` does.

What holds. In memory a name has one active version; in Postgres it has one
as long as its transactions do not overlap and nobody registers it active
(`QuietNameOneActive`, where `disturbed` is the history of names on which
either happened), and it is the one activated last (`ActiveIsNewest`). Two
activations at once leave two (`OneActivePerName`, which
architecture-design.md:1702 promises, fails), and so may a status spelled with
a blank. What never fails is `StaysServed`: in Postgres
a name once active does not lose its last active version, by any interleaving.

### PolicyDecision

`config` is the platform's configuration and `snapshot` what the gateway holds
of it; `SaveConfig` is an admin request, `UpdateCache` the arrival of a
snapshot (how it arrives is `ConfigSync`). The other actions answer a request
and record the last answer: `GatewayDecides` by `localHardDecision` or
`localDecision`, `EvaluatePolicy` by `handleEvaluatePolicy` (or its twin of the
gRPC server), `SimulatePolicy` by `handleSimulatePolicy`.

The checks are operators with the names and in the order of the code. Each is
the set of answers the code may give: one with Postgres, which lists by
`created_at`, several where the memory store ranges over a map (`FirstListed`)
and where the answer depends on something that is left to choice: the counters
of an aggregated rule or a rate-limited route (`RuleActions`,
`RateLimitActions`), the inference service (`Enriched`), whether a ticket is
valid or a clearance honoured (fields of the request). A pattern, scope, CIDR
or rollout hash is the set of what it matches; of a rule's conditions those are
kept on the model score, the value inference writes, and on the raw ticket and
clearance (rules.go:230-233), as the sets of those that match. Both stores' order of
rules (priority, then age) is `MatchedRule`. An evaluation carries its route,
because the session of a challenge is created for the route's scene
(`WithSession`), and whether a counter has a say in it, which is what the dry
run reports as `rate_limit_evaluated` (`SaysUncounted`). It compares the route's
mode without trimming it (server.go:638), which the evaluator does
(evaluator.go:88) and no upsert: a route may be `padded`. Left out: the choice of the challenge's
type, periods in which a rule is active (both sides read their clocks), the
failure to create a session (an error instead of an answer), and a change of
the configuration while a request is being answered: each answer is made from
one configuration, while the handlers list policies, rules and routes one after
the other.

What holds. `LocalAgrees`: what an up-to-date gateway decides alone has the
effect (forwarded, challenged, refused) the platform's answer would have had.
Its exceptions are named in it: a request with a clearance, and one whose
rule the gateway must leave to the platform. At such a rule the gateway does
not stop but goes on to the routes (gateway.go:725; architecture-design.md:976
says these are decided remotely: `RemoteRulesRemote` fails). `SimulationAgrees`
compares the dry run with the evaluation, except where a padded `rate_limit` mode
answers: there the dry run observes and claims that counters had their say
(`UncountedUnsaid`). `JunkClearanceInert` compares a clearance that is not
honoured with none, except on routes that force a challenge and where a rule's
conditions tell the two apart (`ReadsJunk`). The scene of a challenge is found with rollout,
the scene its ticket is redeemed for without (gateway.go:419), so that
`TicketsFit` (architecture-design.md:1220) fails for a request outside the
rollout of a route of higher priority.

`LockedOutForGood`, `ContentConverges`, `OneActivePerName`,
`RemoteRulesRemote` and `TicketsFit` are stated at the end of their modules
and checked by no run; put into the module's `.cfg` in place of its
properties (`LockedOutForGood` and `ContentConverges` as PROPERTY), each gives
its counterexample in seconds.

### FrontDoor and GatewayFlow

`FrontDoor` has no state. `ClientIP` is `nettrust.ClientIP`,
`EvaluateRequest` the policy request a front end builds (with `TrustsContext`,
`SceneFromRequest`), `RequestProto`, `ActionProto`, `SnapshotProto` what is
left of a request, an action and a configuration after the wire, `CachedRoute`
`matchCachedRoute`. `X-Forwarded-For` is a sequence of header lines, of which
both front ends read the first (`FirstLine`; gateway.go:984, middleware.go:512).
`Width` is the messages' 32 bits; the properties are
stated of values that fit.

In `GatewayFlow` a request goes through `Arrive`, `Exempt` (health checks,
internal paths), `DecideHard` (`localHardDecision`), `ChooseScene`
(`ticketScene`) or `DecideLocally`, and `Call` (or `SkipCall`, the breaker
open). `Platform` may serve a call at any time, also after the front end has
given it up: `TurnedAway` refuses it, `ServeTicket` redeems and mints,
`ServePolicy` decides.
`CallReturns` and `CallFails` end it: redemption and answer are separate, so a
ticket may be spent by a request that fails. `why`, `seen`, `streak` and
`opened` are history. `Update` replaces the snapshot between any two steps,
`Administer` disables the application or changes its secret. `setup` is the
front end, transport, fail policy and breaker threshold of the deployment.

What holds. `RequestsJudged`: what every snapshot of its time blocks is
refused, whether or not the platform answers (`RefusedWhatConfigBlocks`); who
is let through is so by a snapshot, a ticket of its own and of its scene, the
platform's decision, or a failure under fail-open (`ForwardedForAReason`); a
redeemed ticket is never called invalid (`RedeemedIsNotRefused`); the audit
trail has each decision once (`ReportsTell`). `BreakerHolds`: what the breaker
counts (`BreakerCounts`) and when calls start (`OpenMeansQuiet`); a late
success closes it, which both say. `TrustedHopsOnly` and `ContractKept` are
about `FrontDoor`. `AddressIsTheClients`: the address is the client's behind
proxies that join the header's lines, or when the client sent none; of a client's
line that proxies leave as it is, no later one is read. The middleware walks the
chain from the other end than the gateway, so its address is the client's only
when the client claimed none. `UntrustedClaimsInert`: what an untrusted peer says
of account, risk and forwarding changes nothing, nor what a trusted one says of
account and risk without the right context token. A clearance is checked
for the scene of the request although it is minted for the route's; where they
differ it is of no use, which costs another challenge and nothing else.

### RateLimit

`entry` is the key in Redis, `counter` the memory store's. `CountLocked` is
the memory store under its mutex; in Redis `Incr` and `Expire` are the fixed
window's commands. `Evict`, `Add`, `CountHits` and `Renew` are the sliding
window's four: `client.Pipeline()` (redis.go:139) sends them together, but they
are no transaction, so that the commands of other servers come between them, and
the end of the key between ZADD and EXPIRE. Eviction is by the time the server
read when the request arrived. `ReadBucket` and `ExecBucket` are the token
bucket's transaction with its three attempts, `Delete` the DEL of a key of
another type between two of them. `Unreachable` is a command that
fails and lets the request pass, `Switch` a change of the policy's strategy: the
key's name does not have it, so the next command may find a key of another type,
answer 1 and renew it (redis.go:133-150). That the Redis client repeats a command
whose answer is lost is left out.

`LimitsHold`: a fixed window lets at most twice its limit pass in less than a
window (`FixedWindowHolds`), a sliding window never more than the limit, not counting requests whose hit went
with a key that ended between its ZADD and EXPIRE (`SlidingWindowHolds`;
`lapsed` is the history), a token bucket its burst and what flows in
(`TokenBucketHolds`: in Redis as long as requests do not overlap), and nobody
is stopped unless the limit was used up (`StoppedForHits`; a sliding window also
counts the requests it stops). All are stated of runs without failing commands,
since the code then lets pass by design; that an EXPIRE that fails leaves a key
that counts for ever (redis.go:158) is in the model and in no property.

The first three count, of the requests in `log`, those of the present `epoch`:
the request arrived after the last change of strategy, when no request and no
key of another strategy was left (`Pure`). A request of the old strategy that
is still on its way, or a key of another type, makes commands answer 1 and pass
whoever asks, and that may last: a sliding window's EXPIRE keeps alive a key of
the wrong type. So nothing is said of the time of such a change itself. `alone` and `window` are history as well: whether the request overlapped
with no other, and when the fixed window began that counted it. Hits of a
sliding window are sets of members that differ in the number of their request
(in the code, in its nanoseconds).

### ApplicationSecrets

Saving is `LookForApplication` (the list) and `SaveApplication` (the upsert),
rotating (`RotateApplicationSecret`) is a single one, for the store finds
and updates the row in one call. A hash stands for its secret, a secret for its number. `told`,
`rotated` and `upset` are history. `SecretsInForce` (`RotatedOutStaysOut`,
`NewestToldWorks`, `InForceWasTold`) and `SecretsKept` (`SaveKeepsSecret`,
`NeverOpenAgain`) name their exceptions, which are what the code does: a save
that overlaps a rotation puts the old secret back (server.go:859-872); a list
that fails in Postgres reads as empty, and the save replaces the secret; an
upsert that fails is answered as stored (postgres.go:150-154); a body with
another client's id moves that client's row; the memory store may hold two rows
of a client.

### ControlTables

One table of the control store, any of four. `Save`, `Delete`, the upload
(`StartUpload`, `WriteImage`, `StoreItem`, `BreakOffUpload`, `FinishUpload`)
change it; `Audit` and `Notify` are the handler's next two steps; `Restart` is
a new process, which reads the resource file (`Load`). An `outcome` says
whether a statement failed or its answer was lost, or the file was not written.
The audit trail is a sequence, newest event first. The memory store keeps the
`AuditCap` newest (500 in the code, memory.go:568-571), and the events of other
handlers and of decisions (`OtherEvent`) push those of changes out; `since` is
the history of how many came after each. A body may bring any created_at
(`Sent`): Postgres drops it when the row exists, the memory store takes it
(`BornAgain`, `BornFirst`).

`ChangesAreTold`: gateways hold what is stored (`GatewaysHoldWhatIsStored`),
stored changes are audited, and stay so in the memory store until `AuditCap`
newer events have pushed theirs out and no sooner (`ChangesAreAudited`,
`PushedOut`), and audited ones stored (`AuditTellsTheTruth`); `StoredIsKept`: `FileTells`, `ImagesAreThere`,
`AgeIsKept`. Excepted, because the code does so: an upload broken off after its
first image is neither audited nor announced (resource_upload.go:69-98), a
DELETE whose answer is lost counts 0 rows (postgres.go:621-650), a failed save
is audited as done. A row of Postgres keeps its age whatever the body says; in the
memory store only rules do, and only while no body brings another created_at
than the row has (`reaged`), as a body written for an earlier row of the id does
(memory.go:325-334).

### ChallengeEngine and the modules it extends

`ResourceChoice` is `ValidateAndNormalize` (`Accepted`, `Normalized`),
`Select`, `SupportsCaptchaType`, `ChooseCaptchaType` and the loaders' search
(`Image`), over rows that are records; `PathMatch` the comparison of strokes in
whole tenths of a pixel; `Captchas` the makers of all challenges
(`Generate`, random draws by their extremes) and `Verify`; `ChallengeVisuals`
what the picture shows, the control the web runtime gives (`Control`) and every
way of completing it (`Completes`).

In `ChallengeEngine` a filler goroutine is `FillerMakes` and `FillerSends`,
`Warm` is `WarmPreGeneration`; a visitor's request is `Choose` (the type, from
one list), `NewSession` (`takeChallenge`: from the pool or made on the spot),
`Draw` (from the list read again); `Refresh` takes another challenge,
`EditResources` is an admin request. A pool holds serial numbers; what a
challenge asks is chosen when it is taken, which nobody can tell from choosing
it when it is made.

`EachChallengeOnce`, `ServedAndRefilled` (`EveryoneServed`, `PoolsFillUp`).
`SolvedNotGuessed`: everything seen can be completed with the controls there
are, and every completion passes (`EverySolutionPasses`); swapped, missing or
wrong clicks, other tiles, straight and reversed strokes do not, and at most
one value in six of a control (`GuessesAreRefused`); strokes by hand do, with
their own track (`HandDrawnPasses`). `DrawnAsConfigured`: `PictureAsChosen`,
`SelectionIsTheBest` and `OnlyDeclaredBytes`.

`EverySolutionPasses` supposes clearly labelled pictures: an icon without label
borrows the word of one that is not drawn (renderer.go:1918), so that with
fewer than three icons or equal labels the prompt is ambiguous, contrary to the
comment at renderer.go:94; and two grid categories may bear one label. Other
behaviour met: a refresh tries eight times for another family of strokes and
may keep it; making a challenge never fails for the supported types, so the
fillers' waiting branch is dead; a background for a rotation cannot be selected.

## 3. Runs and bounds

| run | states | shows |
|---|---|---|
| `ChallengeSession` | 1.8 M | both stores; one session, two requests, failure limit 2, three challenges, three failures, three instants: two requests overlap after a refresh, writes are dropped and crashes fall anywhere, the limit is reached and overrun, the session lapses while a request holds a copy |
| `ChallengeSessionTwoTickets` | | counterexample with two requests and the code's limit of 5 |
| `TicketRedemption` | 0.8 M | both stores; one ticket that carries all its session had or the scope alone, three requests, three contexts (one with everything, one of another address and path without account, one without address and account): two redeem at once while a third uses a clearance or inspects, and tickets and clearances lapse while used |
| `ConfigSync` | 0.4 M | one gateway (streams do not influence each other), two admin requests at once, two parts, three versions, one failure, one restart: a full channel is overwritten, a change falls between two parts; the caches converge under fairness |
| `EventBatcher` | 17 k | two reporters of up to two events each, batch and queue of 2: full queue, full batch, closing at every moment, and everything sent and closed in the end |
| `RiskModelRegistry` | 0.4 M | both stores; three versions of a name, every spelling, five instants; in Postgres two requests at once, one demoting while the other promotes, aborts, and registrations in between |
| `PolicyDecision` | 42 k | both stores; configurations of up to three of eighteen policies of all kinds and every single change between two of them, with the cache at the old or the new one, and 22 requests that differ in path, address, identity, tokens and scores |
| `GatewayFlow` | 0.4 M | gateway over gRPC (fail-close, threshold 1) and HTTP (fail-open, threshold 2), middleware (fail-close, no breaker); two requests that may present one ticket, from a client, a blocked address and through a proxy; three snapshots, one of which may arrive under way; three instants, so that a breaker opens, cools down and is closed by a late success. `FrontDoor`'s properties are evaluated in the initial states over some 390 requests, every action and every snapshot, chains of up to four entries on up to two lines, and messages of 8 bits |
| `RateLimit` | 1.9 M | both stores, three strategies; two servers, limit 1 in a window of 2 ticks, four requests at four instants, one failing command or change of strategy: windows and keys end between two commands, and three attempts fail |
| `ApplicationSecrets` | 1.6 M | both stores; two admins, two clients, two rows, three secrets, one trouble: a save is overtaken by a rotation, by another save, by a failed list |
| `ControlTables` | 0.5 M | both stores, four tables; two admins, two clients (one without application), three rows, one of them seeded, uploads of two images, two changes, three troubles, an audit trail of two places: events are pushed out, bodies bring older times, writes fail, answers are lost, the server restarts in the middle |
| `ChallengeEngine` | 0.1 M | every type, by name, by draw and by the resources; three lists (all clear, mixed up, empty) and one change between them, images at one of two roots or missing; pools of 1 with four challenges shared by two visitors, one refresh |

`MaxClock`, `MaxChallenges`, `MaxAttempts`, `MaxVersion`, `MaxFailures` (of
`ConfigSync`), `MaxEpoch`, `MaxEdits`, `MaxEvents`, `MaxUpdates`, `MaxHits`,
`MaxSecrets`, `MaxChanges`, `MaxItems`, `MaxTroubles`, `MaxMade` and
`MaxRefreshes` are bounds of the model and not of the code; they appear in the
guards of `Tick` (and of the operations of `RiskModelRegistry` that draw an
instant), `CreateSession` and `RefreshSession`, `FailVerification`, `Write`,
`Fail`, `Restart`, `SaveConfig`, `EditResources`, `Report`, `Update`, `Arrive`
of `RateLimit`, of whatever makes a secret, of whatever changes a table or
uploads, of whatever fails, and of `FillerMakes` and `Refresh`. `AuditCap` is the code's own
limit, made small, and `Ages` are the times the instance lets a body bring.
The runs of `PolicyDecision` do not continue from states with an answer
(constraint `Unanswered`; those states themselves are checked): an answer
changes nothing, so what can follow it can follow the state before it. One
change suffices there, since every configuration is also an initial one.
That of `TicketRedemption` does not continue from states in which two of its three
requests have failed (`OneTrouble`), that of `RateLimit` not with the fourth
request after a failed command, nor, after a change of strategy, beside another
(`FewerInTrouble`): what the limiters promise is said of runs in which no command
fails.
Deadlock checking is off where the behaviour ends: requests in
`TicketRedemption` happen once, changes in `ConfigSync` are bounded, a batcher
is closed once, `RiskModelRegistry` and `RateLimit` run out of instants,
requests of `GatewayFlow` and `ChallengeEngine` end, and in
`ApplicationSecrets` and `ControlTables` secrets and changes do.

Fairness. `FairSyncSpec` (`ConfigSync`): a goroutine that can run does (`Notify` after
a write, the steps of a gateway's loop and of its stream). Nothing makes a
failure, restart or admin request happen. `FairBatcherSpec` (`EventBatcher`): the batching
goroutine runs, `send` returns (its context ends with `reportTimeout`), the
ticker fires; Go's `select` chooses at random among ready cases, so a case that
is ready again and again is taken (strong fairness of run's cases). Nobody has
to report or close. `GatewayFlow!Spec`: a handler that can go on does, and
since its context has a timeout a call that waits can always fail; the platform
need never serve. `ChallengeEngine!Spec`: requests and fillers run. A request's
fairness is stated over `stage` and `GetsOn`, a step of which every step of a
request is one, so that TLC need not draw pictures to see that one is possible.

## 4. Proofs

All theorems hold for every value of the constants under the named
assumptions beside their declarations, which TLC evaluates in each run.

- `ChallengeSession_proofs`: `IInv` joins typing, where handlers are
  (`HandlersPlaced`), the well-formedness of stored sessions and of copies,
  tickets, charging, and `QuietInv`. The last is why it is needed: to know that
  a write-back of a quiet session changes nothing but what its handler decided,
  one must know that the only handler on it holds a copy equal to the stored
  session.
- `TicketRedemption_proofs`: `IInv` joins typing, `Placed`, the agreement of
  the store with `redeemer` (`StoreAgrees`, `RedeemersPlaced`), `LockSound` (a
  request that has validated and whose key is not dirty sees a live ticket: what
  the optimistic transaction is for) and the clearance properties, for any fields and any
  way tickets carry them. The refinement is proved step by step: every action is an abstract action or
  stutters.
- `RiskModelRegistry_proofs`: `Transactions` says of each transaction under
  way that its versions are registered under one name, that what it has written
  bears that name and only the promoted version becomes active, and that it
  commits only after promoting: that is why a commit never leaves a name
  without an active version (`NameStaysServed`). `QuietNames` adds, for a name
  without overlap, that the one transaction on it has found, has taken down or
  promotes whatever is active, which makes `QuietOneActive` inductive;
  `MemoryIdle` says that the memory store has no transactions. `Newest` adds the
  instants: whoever activates a quiet name holds or will read a later instant
  than any row of the name bears, so what it commits is the newest
  (`ActiveVersionIsNewest`).
- `PolicyDecision_proofs`: an answer stands until the configuration or the
  cache changes, so where it came from is inductive (`Provenance`). The rest are
  lemmas about operators: with Postgres at most one policy of a kind is picked
  (`OneMatch`), what the gateway decides is in the platform's evaluation
  (`LocalIsEvaluated`, `LocalIsPlatform`), a dry run without counters is the
  evaluation (`DryRunIsEvaluated`), and evaluations do not look at a clearance that
  no rule's conditions tell from another (`AlikeEvaluations`, which uses `PolicyAssumption`'s list of a request's
  fields). The creation times of policies of one kind are assumed to differ.
- `PolicyDecision_proofs`, second half (`LimitsKept`, `LimiterTypes`): the
  strategies share `OrderInv`: types and places, nothing in the future
  (`PastRequests`, `PastKeys`), as many counted as were answered or are on
  their way (`Bounded`), each request with a number of its own and each hit that of
  one request (`Numbered`, `HitsLogged`), after a change of strategy nobody of the
  present epoch while anything of another is left (`StrategySettled`), a
  fixed window's key without EXPIRE only while somebody is about to send one
  (`KeysLive`), and a request that overlaps with nobody finds the bucket as it
  read it (`AloneHolds`). Each operation is first shown to be an answer or a
  move of one request together with a write of the key (`IncrActs`,
  `EvictActs`, `AddActs`, ...), so that the invariants of the strategies need not
  look at the code again.
  - Sliding window: who arrived less than a window ago has its hit in the set,
    not older than its arrival, unless it went with the key; once it is answered
    the key outlives it (`SlidingKept`). So whoever counts at most `Limit` hits
    has, with itself, at most `Limit` among the requests that have passed or are
    about to since any time less than a window ago, for each of them has a hit
    in the set that is counted (`SlidingLimited`), whatever comes between its
    commands and whatever time each server evicted by.
  - Fixed window (`FixedKept`): at most `Limit` requests pass in the window
    that began at one time, those of the running window no more than its count
    says, and windows lie in a row: the next begins a whole window after the
    one before and after the arrival of whoever passed in that (`Before`).
    Three of them do not fit into less than a window, which leaves twice the
    limit (`FixedHolds`).
  - Token bucket (`BucketKept`): for every time from which one counts, the
    tokens spent since and those that are left are paid for by a full bucket
    and what flowed in. That is stated of the tokens there will be at a later time, since a
    bucket is refilled when it is next used.
  - Nobody stopped too early: the same two relations the other way round.
    `FixedFull`: what a running window counts was let through, or the limit
    was; and its key lapses within a window of each of its requests.
    `BucketFull`: what is missing in the bucket was spent lately.
  TLC has checked all of these on the run's instance with three requests in place of
  four.
- `GatewayFlow_proofs`: `HopsTrusted` and `ContractHolds` are about operators:
  the address found in a forwarding chain of any length (`ClientFound`) or on a
  line of its own (`AloneOnItsLine`), the
  remainder that `Int32` takes of a number that fits, records that lose and get
  back their zeros as JSON. For the flow, `Breakers` says that a counter is the
  streak modulo the threshold and that an open breaker was opened that long ago;
  it is inductive alone, and `BreakersAreTrue` follows step by step. `Requested`
  says of each request where it is (`Shaped`, `Placed`), that a ticket's redeemer
  has its answer under way or has it (`Redeemer`), that every snapshot of its
  time was seen (`Watched`) and that it has a reason for how far it got
  (`Reasoned`). `Placed` and `Redeemer` tie the two ends of a call together: the
  platform may still redeem a ticket when the front end has given the call up,
  and only a request that waits takes an answer.
  The batcher (`EventBatcher`) follows. Its invariant joins typing,
  `ReportersPlaced` (what a reporter still holds), `HandedOnInOrder` (sent, batch
  and queue together are what was accepted, in order), `Stopping` (`run` leaves
  its loop only when stop is closed and is done before `Close` returns),
  `EarlyInv` (until then everything accepted counts as early) and `LastFlushInv`
  (from the last flush on all of that is sent), which is what `NothingLost` says
  when `Close` has returned. Last comes the distribution of changes to the
  caches (`ConfigSync`): `ChannelInv` (what an idle or reading stream's channel
  and last version say about the notifier's version), `AnnouncedInv`,
  `ReadingInv` (what a partly read draft covers) and `CacheInv`.
- `ApplicationSecrets_proofs`: beside what the rows of a client owe its history
  (`ClientInv`), `IInv` has the same of every save in flight (`Carries`): unless
  something came between, its hash is not older than the last rotation, was told
  or will be, and is the one in force. That is why a save that carries a hash
  over cannot put an old one back unless it is `stale`.
- `ControlTables_proofs`: `IInv` joins typing and what the table, the file and
  the handlers owe each other. `FileInv`: the file holds what was written last
  (`kept`), and only seeds that are not in the table are marked as forgotten.
  `NoticeInv` and `EventInv`: while the gateways do not hold what is stored,
  some handler is on its way to tell them, and a stored change that has had no
  event has its handler on its way there. `TrailInv` says where an event is:
  behind as many as are newer, until `AuditCap` of them are. `Truthful` and `Apart` give each
  change to one handler, which knows whether it stored anything; `Placed` and
  `Younger` say of an upload that its image is written before its row and that
  whoever saved that row meanwhile did so later. TLC has checked `IInv` on the
  states of the run. `TablesAssumption` says that `None` is no client, id or
  number, and that the trail has a place.
- `ChallengeEngine_proofs`: the places that hold challenges (sessions, pools,
  hands) are one function `Held` to sequences of serials, and every step does
  one of two things to it: a place gets a serial above all there were
  (`MadeOnce`), or the first one of another place, which loses it
  (`TakenOnce`). That, with `Shapes` (every serial held was made) and
  `NothingYet` (nothing is held before the pools are filled, which numbers all
  of them anew), makes `EachChallengeOnce` inductive. `Turns` shows that the
  pools are filled one after the other, from the cardinality of the set of their
  types; `ChosenIsConcrete` that every list of resources leads to a type there
  is. TLC has checked `IInv` on the states of the run.

The assumptions on the constants of `FrontDoor` and `GatewayFlow` say what the
code's types say: requests, decisions, configurations and routes are records
with the fields of their structs; the tokens of a request are tickets
or clearances (which bear their ticket's name) or absent; the decisions a policy may answer bear no clearance of
their own (the platform adds it when a ticket was redeemed); a wire integer can
hold a score, which `intHeader` keeps within 100. In `ApplicationSecrets` the ids
are finitely many, as rows are.

`SessionsStaySound`, `QuietStayOrderly`, `ClearancesStayEarned` and
`VersionsReachCaches` join the theorems about their parts, which precede them.
`GatewayFlow_proofs` extends the three components that run in the gateway
process, which share no variable and no name: the batcher's and the
distribution's specifications have names of their own (`BatcherSpec`,
`SyncSpec`) for that. `PolicyDecision_proofs` extends `RateLimit` in the same
way (`LimiterSpec`).

Only model-checked: the liveness properties (`VersionsConverge`,
`SentAndClosed`, `EveryRequestAnswered`, `ServedAndRefilled`), whose proofs
would reason about ENABLED; and `SolvedNotGuessed` and `DrawnAsConfigured` of
`ChallengeEngine`, which say what operators compute for the values the code has
(distances along strokes, selections by folds), so that a proof would repeat
the evaluation TLC does or need induction over lists.

## 5. Not modelled

- Drawing, glyphs, the scoring of tracks and model inference: pixels and
  floating point. A track is the score it yields; a picture is what it shows.
- Generated protobuf code, metrics, commands, the web clients' interface, the
  middleware in languages other than Go (they repeat the Go one).
- Feature and sample records: append-only, read by no decision. That audit
  events are written, and by whom, is in `GatewayFlow` and `ControlTables`.
- Postgres' lists of policies and rules that fail and read as empty
  (postgres.go:434): evaluation and snapshots are then without policies, which
  the interface cannot tell from an empty table.
- A connection of `WatchConfig` that dies without an error: the loop waits on
  it for ever, which no property could excuse.
- Components are joined where their state meets (tickets and the flow, tables
  and gateways); `RateLimit`'s counts are a choice in `PolicyDecision`, and
  `PolicyDecision`'s outcomes a choice in `GatewayFlow`.

## 6. Plan

1. An abstract queue that `EventBatcher` implements, and an abstract secret per
   client that `ApplicationSecrets` implements while nothing is upset.
2. The scoring of tracks in whole numbers, as far as it decides.

# DDAG in TLA+

DDAG publishes SQL queries as HTTP APIs. An administrator defines an API over a
source connection; a client calls it at the api-gateway, which asks a connector
service, which queries the source database. This directory holds TLA+ models of
the parts of DDAG where concurrency, failure and ordering decide what happens,
the TLC configurations that check them on small instances, and TLAPS proofs of
their main invariants for every size.

Run a model with `tlc -config Gateway.cfg Gateway`, a proof module with
`tlapm ConnectorProofs.tla`.

## 1. Inventory

| Component | State it keeps | Operations | Talks to |
|---|---|---|---|
| admission controller (`connector/admission.go`) | per connection: slots in use, queue length, notify channel | Acquire, dequeue, release | called by the query handlers |
| circuit breaker (`circuit/breaker.go`) | per connection: state, window counters, half-open slots | Allow, Report | query handlers, dashboard |
| query handlers (`connector/service.go`, `grpc.go`) | breakers, admission controller, registry | handleQuery, Query | gateway (HTTP, gRPC), source |
| connection cache (`connector/conncache.go`) | resolved connections with expiry, single flight | Resolve, load | metadata database, secret store |
| pool registry (`connectorpool/registry.go`) | one entry per connection: pool and version | Acquire, CloseAll | drivers |
| connection administration (`adminsvc/handlers_connections.go`, `store`, `secret`) | connection rows with `config_version`, sealed secrets | update, create, delete, test, health | metadata database |
| gateway pipeline (`gatewaysvc/service.go`) | flights, route table, policy snapshot | serve, resolvePayload, loadRoutes | cache, connectors, metadata database |
| response cache (`cache/cache.go`) | Redis entries with expiry | Get, Set, purge | gateway, cache-service, admin |
| backpressure (`gatewaysvc/backpressure.go`) | one channel per API and connector | Acquire, release | gateway |
| transports (`gateway/dispatcher.go` and clients) | circuit states the connectors reported | Query | connectors |
| route and policy refresh (`gatewaysvc/metadata.go`) | router, policy snapshot | ticker, sync subscription | metadata database, Redis |
| router, parameters, query builder (`gateway/`) | none | Match, ResolveParams, BuildDynamicQuery, Validate | pipeline |
| binding and paging (`connectors/bind.go`, `pagination.go`) | none | StripDialect, ExtractParamNamesDialect, bindDialect, ApplyPagination | validation, connectors |
| rate, address and scope policy (`policy/`, `policyengine/`) | Redis window counters, policy tables | the checks, Allow, edits | pipeline, policy-engine |
| API lifecycle (`adminsvc/handlers_apis.go`, `store/catalog.go`) | definitions, revisions | edit, review, approve, publish, retire | gateway through sync messages |
| tokens and keys (`authservice/`, `auth/`, `gatewaysvc/jwks.go`) | refresh tokens, signing keys, key sets | token, refresh, revoke, rotate | gateway |
| service-to-service authentication (`internalauth/`, `grpcauth/`) | used nonces | sign, verify | gateway, connectors, admin |
| users and roles (`adminsvc/auth.go`, `middleware.go`, `rbac/`, `store/identity.go`) | user rows with failure count and lock, roles, permissions | login, the checks before a handler, administration | metadata database |
| request logger (`gatewaysvc/reqlogger.go`) | bounded buffer, batch | enqueue, flush, stop | metadata database |
| backups (`cmd/backup-runner`, `adminsvc/handlers_backups.go`) | artifacts, manifests, rows of runs | dump, encrypt, clean up, drill | admin backend, timers |
| schedulers and jobs (`workersvc/`, `adminsvc/*_scheduler.go`, `selfmanagement.go`) | running jobs | health checks, clean-up | metadata database |

`PROJECT.json` lists the files of each, the remaining parts (migrations,
observability, documents, dashboard) and why they are left out.

What is hard here, and what correctness means:

* **Counting under concurrency.** Admission slots, queue places, half-open
  probes and backpressure tokens are taken and given back on many paths,
  timeouts and cancellations among them. None may leak, none may be given back
  twice, none may be exceeded, and no waiter may sleep beside a free slot.
* **Reports that come late.** A breaker hears of calls it allowed in an earlier
  state, with clock readings taken before its lock. An open circuit must keep
  shielding the source, a healthy source must be let back in.
* **Configuration that changes under way.** Row and secret of a connection are
  written and read in separate steps, resolutions are cached, pools are rebuilt
  outside the lock. A request must run with one consistent version and an edit
  must take effect.
* **Answers that do not come.** A gRPC call without an answer may or may not
  have run; the gateway repeats it over HTTP. Whoever waits for another's load
  must be answered when that load fails.
* **Decisions on what was read earlier.** Lifecycle handlers check one status and
  write over another. Review must not be bypassed and an approval not be spent
  twice.
* **Stale routes.** Two goroutines load routes and policies in several
  statements and overwrite each other; the messages that start one of them may
  be lost. A gateway must end up with what is published and never serve what
  was not.
* **The same rule written twice.** Three loops read a template, the gateway and
  the policy-engine select rules, the page a client is told and the page the
  source is asked for are computed apart. They must agree.
* **Several statements where one is meant.** Tokens are consumed and then
  replaced, secrets stored and then tokens revoked, keys looked for and then
  generated, users read and then permissions. What comes between must neither
  double a token nor keep a revoked right alive.
* **Ending.** On a signal the request log has to be written while requests still
  run; a backup that fails half-way must not cost the backups there are.

## 2. Modules

| Module | Models | Built on |
|---|---|---|
| `Admission` | the admission controller, one step per critical section | |
| `CircuitBreaker` | the breaker as operators on a record | |
| `Connector` | both query handlers for one connection | `CircuitBreaker`, an instance of `Admission` |
| `SourcePools` | edit of a connection, connection cache, pool registry, shutdown | |
| `Gateway` | serve from the cache lookup on, single flight, backpressure, transports | |
| `Catalog` | definitions and revisions in the metadata database, one step per statement or transaction: the abstract specification of the lifecycle | |
| `Lifecycle` | the admin backend's lifecycle handlers | `Catalog`, which it implements |
| `RouteSync` | how a gateway loads the catalog: ticker, sync messages, route table, policies | `Catalog`, as its environment |
| `Template` | a query template through the scanners of publication and execution | |
| `RequestShape` | route, parameters, statement and page of a request | |
| `Tokens` | refresh tokens, secret rotation, the worker's purge | |
| `SigningKeys` | signing keys of several auth-service replicas, the key set of a gateway | |
| `Access` | the checks of gateway and policy-engine, policy edits, snapshot loads, rate windows | |
| `InternalAuth` | copies of a signed call, clocks, the nonce | |
| `Identity` | logins, lockout, sessions, roles and permissions | |
| `RequestLog` | the gateway's request log and its shutdown | |
| `Backups` | backup runners, retention, drills, the rows of the admin backend | |
| `Platform` | the nine before it and `Lifecycle` side by side, with the inputs TLC gives them | those ten |
| `AdmissionProofs`, `ConnectorProofs`, `SourcePoolsProofs`, `GatewayProofs`, `CatalogProofs`, `LifecycleProofs`, `RouteSyncProofs`, `PlatformProofs` | theorems | the module of that name |

Every module says at its head what it abstracts. Definitions marked *Fault* are
wrong variants of a definition that follows them; they are not used by the
specification and serve to show that a property can fail.

**Admission.** `a.mu` makes every pass of Acquire's loop, `dequeue` and
`release` atomic, so these are the actions. The notify channel is reduced to
what a waiter can tell: whether the channel it captured has been closed
(`woken`). Timer and context are one flag, since the select treats them alike.
The limit is an argument of the call, as in the code, and may differ between
calls that overlap.

**CircuitBreaker.** Time is relative: a stored instant is its distance from now,
`Age` moves it back and stops where no comparison can change any more. That
keeps the state finite without bounding the length of a run. `Skew` is how late
the lock is won after `time.Now()` was read.

**Connector.** `at[r]` follows a request through the handler: resolved, allowed,
inside Acquire, working, about to release. Its admission variables are those of
an `Admission` instance with one key. `probes`, `lost`, `openFor` and `recent`
are history variables that only properties read; `recent[a]` counts the
failures reported to the closed breaker at most `a` seconds ago. gRPC requests
have one more exit, unusable parameters found after the pool was acquired.

**SourcePools.** `RotateSecret`, `SaveConnection` and `SaveFails` are the steps
of `updateConnection`; `Hit` to `Deliver` those of `Resolve` and `load`; `Find`
to `CloseStale` those of the registry. Passwords are numbered in writing order.
Pool identities are reused once nothing refers to them.

**Gateway.** One API and one cache key. `opOf` is the operation of the route a
request matched, which may differ between requests, since routes are reloaded
while entries stay cached. `sent` is the network: a message stays in it until
the connector handles it, also after its sender gave up waiting. An answer
carries the state the breaker had when it was produced (`carried`), and that is
what `Remember` stores, however late the answer is received. `IsOpen` is two
steps: `SeeExpired` reads under the read lock, `Send` from the drop stage deletes
under the write lock whatever entry is there by then, a fresh one included. An
entry that is half open or expired refuses nothing, so the two are one value,
`lapsed`; the breaker is a set, since open and half open may follow each other
without the gateway being told.

**Catalog.** What a definition says is a number that every edit raises; row and
parameters are written together and read one after the other, so a snapshot has
a version of each. `AddRevision` is the whole transaction of `PublishAPI`: a
concurrent one either violates the unique key or finds the status changed, and
rolls back. Of approvals `Catalog` promises what is left of the lifecycle once
handlers act on stale reads: only what has been in review is approved, the first
time in review. `reviewed`, `approvals` and `released` are history. Initial statuses
are those of the migrations; seeded APIs are PUBLISHED without a revision.

**Lifecycle.** `GetRow` and `GetParameters` are the two reads of `GetAPI`, then
one step checks the transition against the status read and writes. `Refuse`
stands for every early return. `SetAPIStatus` always fails: its statement has
two placeholders and is given three arguments (`store/catalog.go:309`), which
the driver refuses before it sends anything. So review, disable, archive and
deprecate answer with an error and change nothing, and an API is in REVIEW only
if the database the service starts with says so. `StatusOneWay` holds the
handlers to the comment of `canTransitionAPIStatus`, with the one exception they
really have, an approval that comes again.

**RouteSync.** `StartLoad` to `SetMetadata` are the steps of `loadRoutes`, for
either goroutine. `CatalogChanges` takes the steps `Catalog` allows, each with a
message that may be lost; approving sends none. If there is a snapshot of any
API, only snapshots are loaded (`store/catalog.go:173`), so the first
publication withdraws every published API that has no revision, the seeded ones
in particular; with the single API of the runs that case does not arise, and
`GatewayConverges` promises nothing for an API without revision.

**Template.** One step is one iteration of one of the three loops of `bind.go`.
Where a quote or comment ends is written as a set of positions (the first
closing quote with an odd run before it), not as the code's inner loops; the
reference of `ScansMatchReference` is a third thing, an automaton that reads
character by character, with the rules of the connection's dialect for all three
scanners. The binder has no dialect (`bind.go:50`), so it is held to that
reference on *portable* texts only, those that need no rule of their dialect;
elsewhere it does differ, see below. An iteration that consumes nothing, at a `$` or
an Oracle `q'` that opens no quote, is a step that changes nothing. Texts are
all sequences of up to `MaxLen` characters over small alphabets, one per kind of
quote and dialect.

**RequestShape.** `MatchNext` is one pass of `Match`'s loop; `Resolve`, `Build`
and `Page` are one function each, since nothing runs beside them. Text is
reduced to what the code compares: segments, kinds of raw values, the words of a
filter name, numbers among them (`Numeral`), since a name that ends in a number
is what could meet a generated key. `Page` draws every int of `Width` bits for limit, page and offset
and wraps as Go does. `PageIsServed` has the limit under the API's ceiling and
under the gateway's, whichever are set. It lets reported page and rows differ only
where the product of page and limit overflows.

**Tokens.** A step is a statement. `straddling` records what a revocation of all
tokens could not reach, a request under way or an error that the handler
ignores; `RotationCutsOff` says that nothing else escapes.

**SigningKeys.** `LoadKeyManager` takes any error of its read for a missing key,
as the code does. A replica loads keys when it starts and never again, so a
gateway must be able to get every signer's key from some replica that is up:
the last one to have read.

**Access.** `View` is what decides: the snapshot at that moment for a gateway,
the tables for the policy-engine and for a gateway without snapshot. `held`
collects which grounds have been true since the request came in; `ceiling`
the largest limit the most specific rules gave while a window lasts. The window
script is one step, as Redis runs it. `QuotaHolds` counts the requests the
script admits: those let through because the script or the rules could not be
had (`LimiterFails`, `StoreFails`) are not in it, and neither are the limits of
equally specific rules told apart.

**InternalAuth.** Moments are finer than the seconds of the time stamp. The
assumption on clocks (`InternalAuthAssumption`: offsets and delay together
below the allowed skew) is what makes `NonceOnce` true for a nonce kept for
twice the skew.

**Identity.** One user, one session. `guesses` counts recorded failures since
the account was last open. A lock that expires leaves the count where it is, so
the next failure locks again. The step that records a success also issues the
session, or does not, since that may fail after the row was reset.

**RequestLog.** The server's order is the code's: cancel, wait for the
goroutine, close the pool, and only then stop listening. Records of requests
that end after the cancellation (`late`) may find nobody to take them.

**Backups.** `Fail` may come after every step and leaves everything where it is.
Days are the only time; `NextDay` waits for runners whose artifact is about to
be due, a run takes less than the retention.

**Platform.** The ten parts share no variable. A behaviour follows one of them
(`subject`) while the others stay as they are; their product would multiply the
states and show nothing that one of them does not show alone.

## 3. Runs

| Run | Instance | States | Shows |
|---|---|---|---|
| `admission` | 3 calls, limits 1 and 2, queue of 1 | 21,474 | slots and queue places accounted for, limits kept although they change, no lost wake-up, every call returns |
| `connector` | 2 requests (one gRPC), limit 1, queue of 1, threshold 2, window and open time 2 s, skew 1 s | 375,872 | probe accounting, the threshold, the shield of an open circuit, trips only on recent failures, recovery unless a probe is lost |
| `connector_recovery` | the same without gRPC and skew | | **violated**: recovery in general (finding 1) |
| `source_pools` | 2 requests, 1 admin, 2 versions, 2 passwords, 3 pools, TTL 1 | 669,912 | the registered pool is open, queries run on the version resolved, passwords are never too old, no duplicate pool before an edit, edits take effect |
| `source_pools_leak` | the same with 4 pools | | **violated**: one live pool per source (finding 2) |
| `gateway` | 2 requests, 1 token, gRPC and HTTP | 490,080 | only reads are cached, tokens accounted for, one load per key, repetition only after a lost answer, everybody is answered, no transport goes on refusing once the breaker stays closed |
| `gateway_cached_write` | the same | | **violated**: writes bypass cache reads (finding 3) |
| `gateway_repeated_write` | the same | | **violated**: a write runs at most once (finding 4) |
| `route_sync` | 1 API, 3 versions, 2 approvals, 1 policy change, 1 pending message | 753,147 | only what was published is served; the gateway converges |
| `route_sync_draft` | the same, smaller | | **violated**: an edit leaves the live revision alone (finding 5) |
| `platform` | texts of up to 5 characters in 9 alphabets; tables of up to 3 routes, 3 filters, ints of 4 bits; 2 token requests and 1 rotation, 3 tokens; 2 replicas, 3 keys; a request to the gateway and one to the policy-engine, 2 windows, 3 counted, 1 edit; 2 copies; 2 logins, threshold 2; 4 records, buffer and batch of 2; 2 runners, 5 days; 1 API, 2 handlers, 3 versions | 2,246,658 | the 17 properties of the ten parts, below |
| `template_ends` | texts of up to 3 characters in 9 alphabets | | **violated**: the validation of a template ends (finding 6) |

What `platform` checks. `ScansMatchReference`: every scanner that comes to the end
has told code from quotes and comments as the automaton does.
`PublishedPortableBinds`: what was published binds, if it needs no rule of its
dialect. `LiteralRouteWins`, `HoldersKeepValues`, `PageIsServed`: the right route
in every order of the table, the right value at every placeholder, an answer
that describes the rows read. `OneLivePerGrant`, `RotationCutsOff`: one heir per
grant, and rotations end what they can reach. `SignersPublished`: whoever signs
is in a key set a gateway can get. `AdmittedOnGrounds`, `QuotaHolds`: no way
around a check, no window beyond its limit. `NonceOnce`: one copy accepted.
`RevocationStops`, `GuessesBounded`: disabling works at the next request, guessing
stops at the threshold. `EarlyRecordsSettled`: no record of the time before the
signal is forgotten. `BackupSurvives`: a backup that succeeded is not lost to
later failures. `PublishedOnApproval`: one revision per approval, whoever races.
`StatusOneWay`: a status goes back only by an approval that comes again.

Why these bounds are enough to be interesting: three calls are needed for one to
hold a slot, one to queue and one to overtake or be turned away. With a
threshold of 2 and a window of 2 s a breaker can open, half-open, fail, and be
reported to by calls of each earlier state. One edit with two requests gives
every order of resolve, build, register and close between an old and a new
version; a third pool lets both build while one is registered. Two requests of
one key give a leader and a follower, or a cacheable and an uncacheable load
competing for one token. Two handlers of one API give every stale check (two
approvals, two publications, an approval over a publication), and three versions
an edit between the two reads as well as between read and write. Two approvals
let a second revision replace a first one while both goroutines load. What holds
for more of each is the proofs' business.

In `platform`: five characters hold a quote, a doubled quote and a parameter on
either side of its end; three routes hold a literal between two that fit as
well; among three of the four filters are names that are prefixes of each other
and names that sanitise alike; with 4-bit ints pages overflow at the size of the
limits. Two token requests and one rotation give every order of consuming,
storing and revoking. Two replicas can both find no key. Two requests, one to the
gateway and one to the policy-engine, hold limits of different rules while they
count in the same windows, and a window limited to 2 is hit a third time
(`MaxCount`); one edit, from an allow list of either entry, puts a swap of the
snapshot between any two checks and empties the list. The moments
reach past the end of the nonce under every drift. Four records overrun a buffer
and a batch of two and leave one to come late. Two runners and five days let
every artifact become old while the other runner fails.

Bounds that are not in the code: `MaxCalls` (calls counted in one window),
`MaxVersion`, `MaxSecret`, `MaxPools`, `MaxEdits`, `MaxApprovals`, `MaxPolicy`,
`MaxLen`, `MaxGrants`, `MaxTokens`, `MaxSecrets`, `MaxKeys`, `MaxCount`,
`MaxMoment`, `MaxRecorded`, `MaxDay`. Each is a guard of one action or of the
initial states. `source_pools` disables deadlock checking because a connector
stops, `platform` and `template_ends` because a template, a request, a gateway that
shuts down and an API that is deleted come to their end.

Fairness. `platform` assumes none and claims safety only. Goroutines that are
not blocked run on (weak fairness of the steps of a handler). Timers fire and
clocks move. Go's select chooses at random among ready cases, so a ready expiry
is not passed over for ever: strong fairness of `GiveUp` in `Admission`. In
`Connector` and `SourcePools` requests keep coming and a step that can fail does
not fail every time (strong fairness of `Succeeds`, `ReadRow`, `ReadSecret`,
`Build`): recovery and taking effect are driven by requests in the code as well,
nothing retries by itself. In `RouteSync` both loops run on and the ticker
ticks; convergence is claimed for behaviours in which loads fail only finitely
often. In `Gateway` an entry that says open expires (weak fairness of `CircuitExpires`):
its time runs from the last answer that said so, and once the breaker stays
closed only the finitely many answers that were under way can renew it. That
alone does not give `RefusalsEnd`: a gateway that stored an open circuit for
failures of another kind would open it again and again (its mutant). In `Template`
a loop that runs goes on running. Nothing forces an administrator to act, a client to cancel, a source to
recover, or the network to deliver.

## 4. Findings

1. **A half-open probe can be lost** (`connector/service.go:222`). Allow counts a
   probe; if the admission controller then refuses the request, or a gRPC
   request's parameters cannot be parsed, the handler returns without Report.
   With all probes lost the breaker refuses every request until the process is
   restarted, while the response says "temporarily unavailable".
2. **Pools can leak around an edit** (`connectorpool/registry.go:69`). The entry a
   builder overwrites need not be the one it captured and will close.
3. **A write can be answered from the cache** (`gatewaysvc/service.go:360`). The
   lookup asks the rule only; an entry of the time when the API was a read is
   served after it has become a write. Nothing is ever stored for a write: that
   half of the promise holds and is proved.
4. **A write can run twice** (`gateway/dispatcher.go:62`). A lost or late gRPC
   answer counts as an unavailable connector and the query is repeated over
   HTTP.
5. **Editing a published API withdraws it** (`store/catalog.go:246`). The edit sets
   the status to DRAFT and the gateway loads revisions of PUBLISHED definitions
   only, while the comment at line 165 says that a draft leaves the live catalog
   alone.
6. **A template can keep its validation from ending** (`connectors/bind.go:326`).
   A `$` that opens no dollar quote, in any dialect, or an Oracle `q'` without end
   (line 347), leaves the position where it is; lines 72 and 93 and the loop of
   `ExtractParamNamesDialect` are the same. `docs/V4_PREVIEW_RELEASE_NOTES.md:10`
   says the parser handles both kinds of quotes safely.

Behaviour that the models have, that no run refutes a document with, and that a
maintainer should know:

* **Publication and execution read templates by different rules.**
  `sqldb.go:43` and `postgres.go:79` call `Bind`, which knows no dialect;
  `BindDialect` has no caller but tests. A published template with `[a:b]` (SQL
  Server), `` `a:b` `` or `#` (MySQL), or `$$:a$$` (PostgreSQL) fails at every
  request with a missing value. The comment at `bind.go:316` and
  `docs/WIKI_HOME.md:72` say the rules are shared. Hence *portable* in
  `PublishedPortableBinds`.
* **`SetAPIStatus` always fails** (`store/catalog.go:309`): three arguments for two
  placeholders. Review, disable, archive and deprecate cannot succeed, so a new
  definition does not get past DRAFT.
* **The lifecycle is not quite one-way.** `api_lifecycle.go:16` says that the
  transitions are enforced. They are checked against the status read earlier and
  written without a condition: of two approvals the slower one takes a PUBLISHED
  definition back to APPROVED, from where it can be published again, or approves
  what has been edited since. `StatusOneWay` is what remains true. Between
  approval and publication, and between the two reads of a snapshot, the
  definition may be edited: what is published need not be what was approved, and
  may combine the row of one version with the parameters of another.
* **An answered CONNECTOR_UNAVAILABLE falls back to HTTP**, although the comment at
  `dispatcher.go:59` says that answers of the connector are returned unchanged:
  the code of the error does not tell who gave it. The connector gives that answer only before the statement runs, so nothing is
  executed twice this way (`RepeatedOnlyIfUnanswered`).
* **Only fully literal routes have priority.** `router.go:64` and
  `docs/ARCHITECTURE.md:53` promise it for literal segments; of two routes with
  a parameter each, the one that comes first in the table is taken.
* **A save that fails leaves the new password** under the old `config_version`
  (`handlers_connections.go:124`), so pools of one version may differ in it.
* **A failed backup leaves the plaintext dump** (`backup-runner/main.go:75`):
  `fatalErr` exits without the deferred removal. The drill takes the newest
  artifact, one that is still being written included, and a row stays *running*
  when the admin backend restarts under it.
* **Without rules nothing limits**: a failed read of the rate limits admits
  (`gatewaysvc/service.go:423`), a failed read of anything else refuses. An empty
  allow list denies, as `policy/policy.go:22`, its test and
  `docs/HTTP_QUERY.md:57` have it; the comment at `store/policy.go:139` says it
  allows all.
* **Equally specific rules are ordered differently** by gateway and
  policy-engine (`metadata.go:82`, `store/policy.go:76`), which count in the same
  windows.
* **Seeding restores the system roles' permissions at every start**
  (`bootstrap/seed.go:14` says existing rows are left intact), and neither a new
  password nor a logout ends a session.
* **A refresh under way when a secret is rotated survives the rotation**, and a
  revocation that fails is not reported (`handlers_clients.go:134`).

## 5. Proofs

All theorems are of the form `Spec => []Inv`, `Spec => [][A]_vars` or, for the
refinements, `Spec => Adm!Spec` and `LifecycleSpec => CatalogSpec`, from the
named assumptions of the modules (finite sets of requests, natural or integer
settings) and nothing else. They hold for any number of requests, any limits,
queue and pool sizes and any breaker settings, ratio included.

* **AdmissionProofs.** `IInv` adds to the typing what ties a call's place to its
  flags: only parked, leaving and retrying calls are queued, a holder is not.
  Slot accounting is by cardinality of sets that one step changes by one
  element. `NeverOversubscribed` is not inductive alone: it needs that inflight
  equals the number of all holders, of any limit, so that a call admitted under
  limit n is one of at most n. `NoLostWakeup` needs that every release wakes all
  waiters of its key and every admission only takes room away.
* **ConnectorProofs.** First `Spec => Adm!Spec`: every step of the connector is a
  step of the admission controller or leaves it alone, so the theorems of
  `AdmissionProofs` carry over. Then probe accounting: in the half-open state
  the probes in use are the members of `probes` plus `lost`, all members are
  between Allow and Report, and in other states both are empty. The shield of an
  open circuit, which neither lets a call through nor changes before its time,
  whatever late reports come in, follows from `openFor` never running behind the
  breaker's own instant by more than the skew.
* **SourcePoolsProofs.** `PoolsInductive` has, besides the typing: which stages
  own a pool, that the pool being built is known to nobody else, that a stale
  capture is never the current entry again (so closing it late cannot close the
  registered pool), and that passwords only grow, that a version's row becomes
  visible after its password, and so that what is read last is at least as new.
* **GatewayProofs.** Who leads is reading and cacheable, there is one leader per
  flight, followers exist only beside a leader, tokens are counted by
  cardinality, and at each stage the number of executions plus messages under
  way is bounded unless a gRPC answer was lost.
* **CatalogProofs.** What every statement of the store preserves: the typing,
  `History` (what is in review counts as reviewed, what is published and what is
  in a revision counts as released), that what was approved is not in review any
  more, and `PublishedOnApproval`.
* **LifecycleProofs.** `LifecycleSpec => CatalogSpec`: the environment of
  `RouteSync` is one the handlers provide. A handler acts on what it read
  earlier; `HandlerInv` says why that is still good enough: definitions only
  grow, so what was read is in the past, review is not forgotten, and a deleted
  API, whose parameters read as none, does not come back to be published.
  `LifecycleOneWay`: an approval over another status than REVIEW finds
  `approvals` above 0, since nothing else leads out of review. The theorems are of
  `LifecycleSpec`, the lifecycle by itself; in `Platform` it is the part a
  behaviour with that subject follows.
* **RouteSyncProofs.** `RoutesWereReleased`, stated of the loads under way too, is
  inductive with the invariant of `CatalogProofs`: a last snapshot is one of the
  revisions, and a row is read only while it is published.

* **PlatformProofs.** The fifteen properties of the other nine parts, part by part; `Parts`
  says that a step of the platform is a step of one part.
  * *Tokens.* `OneHeir` is `OneLivePerGrant` with members instead of
    cardinalities; `HeirsCut` says for every heir, a request under way included,
    what `RotationCutsOff` says of tokens once the rotations are over.
  * *SigningKeys.* A replica that is up verifies with `1 .. n` for some `n` not
    below its own key: sets read later contain those read earlier, and the
    largest one is the witness.
  * *InternalAuth.* The nonce taken by an accepted copy lives at least until
    `stamp - MaxAhead + 2 * Skew`; a copy that passed the clock has a time stamp
    too young to outlive that. This is where `InternalAuthAssumption` is used.
  * *Identity.* A locked account has room for the logins past the check of the
    lock, by cardinality of those; an open one has fewer failures than the
    threshold. For `RevocationStops`: what is true now is already in `held`.
  * *RequestLog.* The goroutine ends only after the cancellation, and from the
    last time it finds the channel empty what is in it is late.
  * *Backups.* The artifact of a runner that is not over is not old, and one past
    its encryption is complete: whoever cleans up has a good one of its own.
  * *Access.* As for sessions, the grounds of the present view are in `held`,
    through edits, swaps and the switch to direct reads; the limit a request is
    held to is below what the most specific rules allow, window by window.
  * *RequestShape.* `MatchInv` is the loop invariant of `Match`. `PageIsServed`
    is arithmetic on wrapped ints. `HoldersKeepValues` needs that a generated
    key is new: every key in use ends in a number below the count of keys that
    begin as it does (`Numbered`), whichever filter made it, and the new one
    gets that count. Both loops
    (`WithHolders`, `where`) are recursive functions; what they compute is shown
    by taking the least index at which it would fail.
  * *Template.* `PublishedPortableBinds` by a set of positions that the scan of the
    validation has visited and that the scan of the connector does not leave.
    `ScansMatchReference` is the longest argument. The automaton is a recursive
    function over the positions (`ModeUnfold`); `QuotePassed`, `BracketPassed`,
    `LinePassed` and `BlockPassed` follow it through one quoted part or comment,
    each by an induction along the part (inside a literal the automaton is in
    code exactly after an odd run of quotes) and conclude that it comes out
    where the scanner comes out and that nothing between counts as code.
    `IterationPasses` puts them together, `IterationMeets` adds the parity of
    colons that tells a parameter from a cast. `ScanInv` then says of a scanner at
    any position what the property says at the end. For the binder `PortableModes`
    shows that on a portable text the automaton takes the same course with and
    without the dialect.
* **ConnectorProofs**, continued. `ConnectorTripsOnRecentFailures`: `WindowInv`
  bounds the breaker's failure count by `recent` at the age of its window, and a
  window that a call counts into is younger than the interval and the skew; a
  trip needs the threshold, so `recent` has it.
* **SourcePoolsProofs**, continued. `PoolsOneUntilEdited`: `SoleInv` says that
  while nothing was edited nobody has captured an entry to close, and every pool
  a request holds is its own, not yet registered, or the registered one.

The assumptions are the named ones: finite sets where something is counted
(`Logins`, `Requests`), natural numbers for sizes and thresholds,
`AccessAssumption` (rates are natural numbers, the first allow lists have entries
there may be), `TablesAssumption` and
`FiltersAssumption` (tables and lists are sequences), `PagingAssumption` (a
positive default limit, which the validation enforces). The texts, alphabets
and dialects of `Template` are arbitrary.

The typing invariants and `QueueBounded` are proved and not repeated by the
runs. Every invariant and action property of a passing run is a theorem.

Only model-checked: everything under fairness (`AcquireReturns`,
`RecoversUnlessProbeLost`, `EditTakesEffect`, `GatewayAnswers`, `RefusalsEnd`,
`GatewayConverges`, and the violated `Recovers` and `ValidationEnds`), since the prover handles neither liveness nor ENABLED.
Induction over data is done by hand, from the well-foundedness of the natural
numbers (`Smallest`, `Climb`), since the library's induction rules take an
operator.

## 6. Not modelled, and the plan

Not modelled at all: the SQL the drivers send, signatures and encryption,
formatting of responses, metrics, logs and documents, migrations, health checks
(their result is read by the dashboard only), configuration and the dashboard.
gRPC calls between services carry a time stamp and no nonce, so there is no
state to model. A pool that is closed under a running query is in `SourcePools`
and the charge of a failed query in `Connector`; the two are not composed. A
leader whose client goes away fails its followers (`Gateway` has it). The lists
a gateway loads end at 200 rows (`store/policy.go:33`); the instances are
smaller.

Next:

1. A composition of `SourcePools` and `Connector`, to see a pool closed under a
   running query and its charge to the breaker.
2. The safety half of the liveness properties as theorems: that a waiter always
   has somebody who will wake it, that a stale route table always has a load or a
   tick ahead of it.

# A TLA+ verification of D-API

D-API (`src/`) is a gateway in Go between API clients and several upstream
model providers: it authenticates a client key, admits the request under
several limits, forwards it to a routed upstream and to the next one if that
fails, relays the answer, scores the upstream, and writes a log record with its
usage and its cost to PostgreSQL. Around the gateway run health and balance
probes, alert rules, a notification outbox, an administration API and
maintenance jobs.

This directory models the parts of that program in which steps of several
goroutines, failures and restarts interleave, and the algorithms whose result
must not depend on how their input is cut or ordered; model-checks them with TLC
on small instances, and proves the most important results with TLAPS for every
value of the constants.

## The system

| component | state | operations | interacts with |
|---|---|---|---|
| Request recorder (`internal/gateway/recorder.go`, `store/log_batch.go`, `store/logs.go`) | bounded queue, the batch of `run`, fallback slots, `closed`, `dropped`, first flush error; tables `request_logs`, `daily_usage`, `hourly_usage` | `Submit`, `fallback`, `run`, `flush`, `Close`, `insertRequestLogBatch` | called by every handler; closed by the shutdown |
| Graceful shutdown (`cmd/dapi/shutdown.go`, `main.go`) | counter of active requests, draining flag, `done` channel | `wrap`, `begin`, `shutdownServer` | the HTTP server, the handlers, the recorder |
| Upstream health (`gateway/handler.go`, `store/upstreams.go`, `ops/monitor.go`) | health columns and `config_version` of `upstreams`; per upstream a semaphore, a reference count and the owed failure | `markSuccess`, `markFailure`, `saveHealth`, probes, `UpdateUpstream` | handlers, the monitor, administrators |
| Generation caches (`store/cache.go`, `load_gate.go`, `apikeys.go`, `upstreams.go`) | entries, generation, active loads | look up, load, store, invalidate | handlers, administrators |
| Request admission (`gateway/limits.go`, `resources.go`, `handler.go`) | authentication slots, gate counters, rate windows, byte budgets | acquire, release, allow, grow | handlers |
| Gateway proxy (`gateway/handler.go`) | the attempt, what is committed to the client | failover over the routes | all of the above |
| Stream relay (`gateway/stream.go`) | one buffer shared by the reader and the relay, timer | `relayStreamWithMetrics`, `readResponseWithMetrics` | proxy |
| Usage parser (`gateway/usage.go`) | line and event in progress, the usage so far | `Feed`, `Usage`, `StreamError` | relay |
| Transport pool (`gateway/transport.go`) | least-recently-used clients | `client`, `closeTransports` | proxy |
| Notification outbox (`store/notifications.go`, `app/notifications.go`) | jobs with attempts, lease version, due time, dead mark | claim, renew, complete, fail, dead, retry | monitor, alert engine, notifiers |
| Incidents and alerts (`ops/incident.go`, `alerts/engine.go`, `store/health_notifications.go`) | streaks, active, notified, cooldown, budget, retry time | `Observe`, `Accepted`, `EnqueueFailed`, `RunOnce`, `ObserveHealthNotification`, `AcceptHealthNotification` | monitor, outbox |
| Monitor (`ops/monitor.go`, `ops/probe.go`) | pending transition and retry in flight per upstream, the balance API that answered last | `RunHealth`, `RunBalances`, `retryPending`, `CheckBalance` | upstream health, notifiers |
| Notifiers (`ops/notifier.go`) | last sent event per key | `Notify` | monitor, outbox worker |
| Administrator sessions (`store/admin.go`, `httpapi/admin.go`) | sessions, password hash, login attempts | login, logout, change password, limiter | console |
| Groups and keys (`store/groups.go`, `apikeys.go`, `upstreams.go`, `httpapi/admin_access.go`, `admin_upstreams.go`) | upstreams, groups, memberships, keys | create, update, delete | caches |
| Pricing and reports (`store/pricing.go`, `usage_report.go`, `dashboard.go`) | price rows with validity, the cache of rates, charges of logs and three aggregates | save, attach, charge, backfill, report | recorder |
| Retention, migration (`store/cleanup.go`, `store.go`) | advisory locks | batched deletes, one transaction | recorder, pricing |

What is hard in this code, and where it bites, is the list `hazards` of
`PROJECT.json`: each entry names the line, and the properties that cover it or
the reason why none does. In short: a record may pass through a queue, a
batch, a bisection and retries while Close runs against a deadline; health
scores are computed from a copy of the row that is older than the row; caches
are filled by readers that race with the change they miss; every resource a
request takes has to be given back on each of a dozen early returns; an
incident flaps while its notification, its record and the process fail apart
from each other; administrators edit the same rows at once; a charge is
corrected while it is counted, and deleted later; and nothing the process waits
for (database, upstream, client) need ever answer.

## Modules

| module | models | extends |
|---|---|---|
| `RequestRecorder` | the recorder, with the inserts it makes | |
| `RequestLedger` | what the callers of `record` and `Close` may rely on: the abstract specification that `RequestRecorder` implements | |
| `GracefulShutdown` | the drain of requests and the exit code, composed with the recorder | `RequestRecorder` |
| `UpstreamHealth` | scoring of one upstream by handlers, probes and updates | |
| `GenerationCache` | one of the three caches in front of PostgreSQL | |
| `FreshReads` | what a lookup promises, caches or not: the abstract specification that `GenerationCache` implements | |
| `RequestAdmission` | what a request holds from authentication to its answer | |
| `GatewayProxy` | one request's failover loop, the relay of the answer and the reader goroutines | |
| `StreamUsage` | the incremental parser of event streams, and the stream read as a whole | |
| `NotificationOutbox` | the jobs of the outbox and the workers of all replicas | |
| `Incident` | the arithmetic of one incident, without variables | |
| `NotificationIncidents` | an incident from observation to notification, on the path of the monitor and on that of the alert engine | `Incident` |
| `BalanceMonitor` | balance protection of one upstream and the announcement of its transitions | |
| `BalanceDiscovery` | how `CheckBalance` finds the balance API of an upstream | |
| `Catalog` | upstreams, groups and keys under concurrent edits, and the invalidation of two caches | |
| `AdminAccess` | logins, the login limiter, sessions, the password change | |
| `RequestCosts` | price histories, the cache of rates, charges, aggregates, backfill, retention | |
| `RequestRecorderProofs` | proofs about `RequestRecorder` and `GracefulShutdown` | `GracefulShutdown` |
| `RequestProofs` | proofs about `RequestAdmission` and `RequestCosts`, which both add up over finite sets | the two |
| `UpstreamHealthProofs`, `GenerationCacheProofs` | proofs about the module they are named for | that module |
| `GatewayProxyProofs` | proofs about `GatewayProxy` and `StreamUsage` | the two |
| `NotificationOutboxProofs` | proofs about `NotificationOutbox` and `BalanceDiscovery` | the two |
| `MonitorProofs` | proofs about `NotificationIncidents` and `BalanceMonitor` | the two |
| `AdminAccessProofs` | proofs about `AdminAccess` and `Catalog` | the two |
| `MC*` | small instances for TLC | |

### RequestRecorder

A request is a record: `pc[r]` says where the handler of `r` stands in
`record` (`handler.go`), from the read lock of `Submit` to the return of the
fallback. `queue` is the channel, `runner` the program counter of `run`,
`batch` its local slice, `flush[w]` the call of `flush` of a worker (the runner
or the handler in the fallback): a stack of segments still to write and the
tries of the first one. `closer[c]` is a call of `Close`. One write of one
segment is an action with the outcomes PostgreSQL offers: `WriteOK`,
`WriteDataError` (a row it refuses, class 22 or 23), `WriteOtherError` (which
includes a commit that was not acknowledged: the rows are there, the caller is
told an error). `Bisect`, `Retry` and `DropSegment` are the three ways
`flush` goes on. `db`, `usage` are the tables; `lost`, `outages` and `rejected`
are history. The order within the channel is abstracted: which record `run`
receives next is nondeterministic, which includes the order of the channel.

`RequestLedger` knows no queue and no batch: a record is taken by `record`,
accepted by `Submit`, written (`Write` of any set of records, the usage only of
rows that are new) or given up (`Drop`), the fallback returns with its record
decided (`Finish`), and `Close` returns nil only if everything accepted is in the
table, an error only if everything accepted is decided (`Return`); after it
nothing accepted is touched (`Open`). In `RequestRecorder` it is instantiated with
`accepted` the records at "queued", `finished` those at "fellback", `logged` the
table and `missing` the `lost` ones. A record can be both logged and missing: its
commit was not acknowledged and the tries were over.

### GracefulShutdown

`requestDrain.wrap` around the handler, `begin`, and the steps of
`shutdownServer`: the server's own `Shutdown`, the wait for the drain and the
background work, the close of the recorder, and the error that decides the exit
code. The recorder runs inside the composition with its own actions; `Closers`
is the one caller `Main`.
The two behave as one state machine, and one run checks both.

### UpstreamHealth

One upstream. The row has the status, the streaks, the circuit and the
version. Each handler keeps the copy it routed with, the outcome it scores and
its place in `markSuccess` or `markFailure`; `state` and `refs` are the entry of
`h.health` with its one-slot semaphore, `owed` the failure that could not be
written. A probe keeps the version it started with. `LockTooLate` and
`LockGiveUp` are the two ways the 2 s deadline ends the wait. Time is three
actions: a circuit's cooldown ends, two minutes pass since the last probe, and
deadlines, which may fire whenever a goroutine waits.

### GenerationCache

One cache with several keys. A value is the number of changes committed to its
key, so that "stale" is a comparison of numbers. `Check`, `Acquire`, `Recheck`,
`Load`, `Store`, `Release` are the steps of a reader between two lock
acquisitions or around a query; `Commit`, `Invalidate`,
`CommitUnacknowledged` those of an administrative change. `Gated` is FALSE for
`MaxAttempts`, which has no load gate. `published` and `floor` are history: what
every finished change had reached when a lookup began. `LookupsAreFresh` is the
refinement to `FreshReads`: `committed` is `db`, `finished` is `published`, a
lookup is out, looking or answered.

### RequestAdmission

`pc[h]` follows `proxy` through its early returns. What a handler holds is
derived from `pc` and `bodyHeld`, `respHeld`; the counters the code keeps
(`active`, `byKey`, `bodyUsed`, `respUsed`) are separate variables, so that
agreement between the two is a property. The rate limiter reads the clock
before its lock (`handler.go:209`): two actions. `passed` and `late` are history.

### GatewayProxy

One admitted request. `pc` is where the handler stands in the loop of `proxy`
or in one of the two relays, `a` the upstream it tries, `status` and `err` what
came of the attempt. `reader[b]` is the goroutine that reads the body of attempt
`b`: it reads, offers a result, waits for the acknowledgement, or is gone;
`filled[b]` is the chunk that lies in the buffer it shares with the relay, so
that a chunk read too early is seen as a chunk written twice or never.
`RequestFails`, `RespondsToRetry` and `Responds` are the outcomes of the call,
`StreamReceive` to `Flush` one round of a relay, `TimerFires` and `ContextEnds`
the other cases of its select, `CommittedStreamEnds` to `AttemptFails` what the
loop makes of the end of an attempt, `GiveUp` the last error. The request's
context may be canceled or expire between any two steps. `sent` is the header
the client got (its attempts are those of `X-DAPI-Attempts`), `log` the entry
that the deferred call of `record` hands over; `headers`, `got`, `scored` and `guilty` are
history. The usage that the parser extracts, response headers other than the
gateway's own, and the time measurements are left out.

### NotificationOutbox

A job is a pair of an event and a channel, with the columns of its row:
`status` (no row yet, a row, a dead letter, deleted), `attempts` and `wait`,
what is left until `next_attempt_at` in ticks of 20 s, the limit of one renewal
and delivery. That column is the retry time of a free job and the end of the
lease of a claimed one. `lease_version` only grows and is only compared with a
copy, so `holder[j]` says whose copy is current. A worker claims a batch, takes
it channel by channel, renews each job of the group, delivers, and settles each
job (`Complete`, `Retry`, `Bury`, or nothing when the lease is lost). Each
statement is an action; `ClaimUnacknowledged`, `RenewFails`, `SettleFails` and
`Crash` are its faults. Ticks may pass between any two steps, except that the
20 s context ends a renewal with its delivery. `accepted` and `tries` are history.
Left out: events without any channel, payloads that do not parse, groups of
different type or severity within a channel, and enabling a channel again.

### StreamUsage

`parser` is the `sseUsageParser`; `FeedChunk` is `Feed` on one chunk, with
`LinesOf` its loop (the parser after the lines that end within the first bytes
of the chunk) and `AppendBytes`, `EndLine`, `ParseLine`, `DataLine`, `Dispatch`,
`Merge` and `ParseObject` its helpers; `Reported` is `Usage` and `StreamError`
together. A byte is a token: a field name, a line end, or a value that stands for
a JSON payload, so that the limit of an event counts tokens. `WholeReading` is
the reference, written without the parser, over positions of the stream: where
lines end (`LineEnds`), which of them are blank (`Blanks`), which lines an event
has (`EventLines`), what its data lines say (`Said`, `Carried`), and for each
count the last event that tells it (`Count`). `stream` is cut in every possible
way. Left out: the decoding of JSON, the measurement of the first text, and
bodies that are no stream.

### Incident and NotificationIncidents

`Incident` has `Observe`, `Accepted` and `EnqueueFailed` of `incident.go` as
operators. Instants are kept as ages in ticks, up to `MaxAge`, and the retry
time as what is left until it. `NotificationIncidents` runs an incident along
the path of the policy: on "health" the monitor saves a status (`SaveHealth`),
observes and leases the notification in one transaction
(`ObserveHealthNotification`), enqueues it, and acknowledges it in another;
an administrator's check observes too (`ManualCheck`). On "alert" the engine
loads the state, observes in memory (`Handle`), enqueues, and saves once;
`EditRule` and `PruneStates` are a rule switched off and on. `EnqueueFails` is
free; refused observations, crashes and late rounds come out of `MaxFaults`.
History: `said` (the last announcement), `fired` (those of the current
budget), `calm`, `spoke` and `lost`. Where the properties except
`policy.stable = 0` or `lost > 0`, the code does announce again: without a
stable time a recovery makes room for the next incident even if the word of the
recovery could not be enqueued, and a lost record is one the state does not know.

### BalanceMonitor

The columns of balance protection (`upRow`), the pending transition with the
loop that retries it (`pending`, `inFlight`), the two loops and the memory of
the `CooldownNotifier` (`last`). A notification is four steps of a loop: the
cooldown is checked (`Suppress`, `Pass`), the event delivered to the outbox
(`Deliver`, `DeliveryFails`), remembered, and, if it was pending, acknowledged.
The administrator's refresh and update send past the cooldown
(`notifyPersistedEvent`, three attempts). `told`, `heard`, `evidence` and
`foreign` are history. A restart, which forgets the pending transition and the
cooldown, is left out: the properties speak of a process that lives.

### BalanceDiscovery

`check[c]` is a call of `CheckBalance`: the paths still to ask, in the order
of `Walk`, and the replies. `hint` is the remembered path of the upstream with
its expiry. `StartCheck` takes one of the slots, `Ask` is one request with its
reply, `CancelCheck` may come between any two. What a reply says is left to
`BalanceMonitor`.

### Catalog

A handler (`op[h]`) is a few statements: what it read, its write, the
invalidations that follow its commit. Under READ COMMITTED another handler may
get between any two. The row locks and foreign keys on which the code relies
are guards (`LockedUpstreams`, `LockedGroups`, `MayInsert`); `Abort` is a
transaction that fails. A load of a cache is one step here, because
`LookupsAreFresh` shows that a cache answers as the database does.

### AdminAccess

`login[l]` follows `login` of `admin.go`: `wait` by address and by account, the
read of the hash, the check, the two calls of `fail` or `success`, and the
transaction of the session. `change[c]` follows `changePassword`. Hashes are
counted, so a session that outlived its password is a number below `hash`.
`sharing` and `owner` are the locks of the administrator's row. There is one
account; passwords, cookies and tokens are abstract.

### RequestCosts

`prices` are the rows with their validity, `cached` the entry of the cache of
rates, whole (the history) or partial (a window). `Cost` is the charge as Go
computes it, `QueriedCost` as the SQL of the backfill does. `log`, `usage` and
`lifetime` are the logged requests and the three aggregates; a deleted log is
kept with a mark, so that the sums can be compared after `CleanupRows`. A lookup
of a rate is one step, for the reason given under Catalog. Rounding is left out.

## Runs

Every run is exhaustive within its bounds.

| run | instance | what it shows |
|---|---|---|
| `recorder` | 3 records, one of them refused by PostgreSQL; queue 1, batch 3, 1 fallback slot and 1 place to wait, 2 tries; 121 k states | `LedgerIsExact` (every record is in one place or done, each loss counted once, usage agrees with the log), `RefusedRecordsAreIsolated`, `NilExitIsClean`, `DoneMeansDrained`; under fairness `CallsReturn` (with the refinement `KeepsLedger` and the action property `QuietAfterClose`), `ShutdownReturns` |
| `shared_state` | health: 2 handlers, 1 probe, 2 entries of the map, threshold 2, 2 versions; admission: 3 handlers, 2 keys, 2 concurrent requests, 1 per key, budgets that hold two of three, 2 minutes; costs: 2 changes of prices, or 1 change and 1 log, over 4 hours; 2.0 M states up to symmetry | `SemaphoreIsSound`, `OwedFailureIsRemembered`, `CircuitMatchesHealth`, `HealthIsEarned`; `ResourcesAreExact`, `RateLimitHolds`; `RatesAreTheTables`, `HistoryStands`, `LedgerAgrees`, `BackfillSettles` |
| `health_liveness` | 2 handlers, 1 probe, threshold 1; 2 versions, the second once one handler has stopped; 255 k states | `Recovers`, `MarkReturns` |
| `health_auth_failure` | 1 handler | violation, see Findings |
| `cache` | 2 keys in a cache of 1, 2 readers, 2 writers, 1 change per key | `LookupsAreFresh` (the refinement), `SingleFlight`; under fairness `LookupReturns` |
| `rate_window` | 3 handlers with 1 key, no bodies | violation, see Findings |
| `gateway` | 2 upstreams, bodies of up to 2 chunks, one status of each kind (200, 400, 401, 403, 429, 504); streams of four pieces for both protocols; 669 k states | `BytesInOrder`, `AnswerIsTrue`, `ScoresAreDeserved`, `UsageIsWhole`; under fairness `RequestEnds` |
| `background` | 2 events for 1 channel, 2 workers, batch 2, 2 attempts, a minute of 2 ticks; 2 balance checks; 3.1 M states up to symmetry | `NoDoubleDelivery`, `NothingSilentlyLost`; `BestAnswerWins` |
| `outbox_liveness` | 1 event for 2 channels, 1 worker; 209 k states | under fairness `HealthyChannelDelivers` |
| `monitor` | one policy of each path, 1 fault; one upstream with 2 transitions, 1 edit, 1 refresh; 521 k states | `FlappingKeepsBudget`, `AnnouncementsArePaced`, `ProtectionFollowsEvidence`, `TransitionsAreKept`; under fairness `AnnouncedInTheEnd`, `ToldInTheEnd` |
| `administration` | 2 upstreams, 2 groups, 1 key, 2 handlers, one upstream deleted at a time; 2 logins from 2 addresses, 1 password change, limit, window and capacity 2; 3.8 M states up to symmetry | `EnabledGroupHasMember`, `CachesFollow`, `SessionsMatchPassword`, `LimiterHolds` |
| `concurrent_deletions` | the same with two deletions at a time | violation, see Findings |

Several runs watch components that share no state: a variable (`subject` or
`side`) of the MC module is chosen at the beginning and says whose steps are
taken, the others rest in an initial state. This is the union of separate runs.
In `MCGatewayProxy` the stream is that of a request without an upstream, which ends at once. `MCGracefulShutdown` watches the recorder by itself, closed at
any time by anyone, or the process, in which the shutdown closes it and one of
the records does not arrive.

The type invariants (`TypeOK`, `BalanceTypeOK`, `AccessTypeOK`, ...) were
checked on the same instances; they are in no run, and all are proved.

Why the bounds are enough to be interesting. Recorder: a queue of one overflows
with two handlers, a batch of three is bisected into segments of one and two of
which one may hold the refused record, the fallback is full with two handlers in
it, and two tries allow a retry and a last failure. Cache: with one place for
two keys every store of the other key evicts, and two writers commit and
invalidate in either order. Admission: both limits of the gate and both budgets
refuse while others hold. Health: with threshold 2 a streak is built by two
handlers, and a version changes under either; a 403 stands for the outcomes that
score nothing. Streams: four pieces hold two fields of an event, an event
between two others, each line end also across a cut, and a line and an event
that exceed the limit of 3. Costs: three rows exceed a history that is cached
whole (2), a day has two hours, and a legacy charge is one that was doubled, one
that was not, or none. Balance: with an access token and a user id all four
APIs are asked, and two checks share the remembered path over its lifetime.
Gateway: with two upstreams an attempt fails over once, with the reader of the
first still around, and two chunks are the fewest of which one can overwrite the
other. Outbox: two jobs of one channel form a group, or are claimed by different
workers; a minute of two ticks is the shortest in which a renewed lease outlasts
a delivery, and a lease taken at the first attempt lapses while two groups are
delivered. Monitor: a budget of two with a stable time of two ticks is spent
and renewed, a lease of two ticks is met by the rounds of the monitor and of the
administrator; two transitions of a row let the newer one replace the pending older one
while that is being delivered by the other loop. Administration: two upstreams let a group
lose its last member, two logins pass the limiter together.

Deadlock is checked except where the system really stops: once Close has
returned and every handler is done (`recorder`), and when the minutes or the
hours of an instance are over (`shared_state`).

### Fairness

* Recorder: a call under way takes its next step (goroutines are scheduled, a
  write ends within its timeout, a timer fires): weak fairness per handler,
  worker and closer. The cases of `run`'s select are strongly fair, because
  select picks at random among the ready cases. Neither requests nor Close need
  arrive, no context need end and the database need never succeed.
* Shutdown: the same, and the deadline of the shutdown context fires.
* Health: a mark under way goes on (its deadline is 2 s), probes are repeated,
  cooldowns end, and strong fairness for `ProbeHealthy`: the premise that the
  upstream answers again and again, and the database takes the result.
* Cache: a lookup under way goes on. That loads succeed and entries last from
  some point on is a premise inside `LookupReturns`, not an assumption.
* Gateway: the handler takes its next step (a write to the client has a
  deadline), readers take those that need no upstream, and `MaxRequestDuration` passes. Upstreams,
  their timers and the client owe nothing.
* Outbox: time passes, a worker with a batch goes on (each delivery has its
  20 s), and a job that is due again and again is claimed (claims are ordered by
  the due time). `HealthyChannelDelivers` has as its premise that from some
  point on statements succeed, nobody crashes and the channel itself does not fail.
* Monitor: the loop of the monitor or the engine takes its next step and time
  passes (tickers); strong fairness for `Enqueue` and `Deliver`, the premise
  that the outbox takes what it is offered again and again. Neither faults nor
  administrators owe anything; that administrators stop checking by hand is a
  premise inside `AnnouncedInTheEnd`, because each check takes the lease.

## Proofs

TLAPS checks every leaf. What is assumed are the named assumptions on constants
in the modules (`RecorderAssumption`, `MainAssumption`, `CacheAssumption`,
`OutboxAssumption`, `DiscoveryAssumption`, `ProxyAssumption`,
`AccessAssumption`, `CatalogAssumption`, `IncidentAssumption`,
`BalanceAssumption`, `HealthAssumption`, `AdmissionAssumption`,
`CostAssumption`, `StreamAssumption`: limits and times are numbers, the sets over
which the code counts are finite, a marker for "nothing" is no value, a stream is
a sequence of bytes), which TLC evaluates in every run, and what the modules of the library state of finite sets, sequences
and well-founded orders. Three theorems have a hypothesis of their own, named
where they are listed below. The inductive invariants were checked by TLC on
small instances before they were proved.

* `RequestRecorderProofs`, the recorder: `TypeCorrect`. The segments of a flush
  form a stack of disjoint sets of records; popping, retrying and bisecting
  never add a record (`PopStack`, `SplitStack` and their neighbours), hence a
  batch never exceeds `BatchSize`. `LedgerBalances`, from `NothingMislaid`,
  `LossesCountedOnce` and `UsageCountsOnce`; `NoSendAfterClose`,
  `NilClosePersisted`, `RefusedIsolated`. None of these is inductive. `IInv`
  adds: a record is in one place at a time (`OnePlace`: queue, batch, one
  segment of one flush, or done), what is lost is in no place any more
  (`LostIsGone`), an idle runner flushes nothing (`RunnerIdle`), and a
  closed queue has no sender and a done runner has an empty queue and batch
  (`ClosedInv`). Each step moves records from one place to the next, so
  `dropped` grows by what leaves a place unwritten. `RunnerRestsAfterClose`
  (`QuietAfterClose`) by `QuietInv`: an error is remembered for every loss, by
  the flush until it returns and in `flushErr` after (`LossKnown`), and a Close
  that returned has seen the runner end (`Ended`).
* `RequestRecorderProofs`, the ledger: `RecorderKeepsLedger`. The initial states
  map to that of `RequestLedger`. A write of the segment on top of a flush is a
  `Write`, the end of its tries and `dropRemaining` a `Drop`: what a flush, the
  batch and the queue hold is open (`PendingIsOpen`), because lost records are in
  no place, and after a Close the runner holds nothing (`NothingInHand`). The test
  of `closed` is a `Take`, the send an `Accept`, the two ends of the fallback a
  `Finish`, and a `Return` is allowed because a done runner leaves no accepted
  record undecided. Every other step changes nothing the ledger knows.
* `RequestRecorderProofs`, the process: `ProcessImplementsRecorder` says that
  `DrainSpec` implies the recorder's `Spec`: each step of a handler in the drain
  or of `shutdownServer` is a step of the recorder or none. Every result about
  the recorder thus holds in the process. `DoneIsClosedOnce`: the count of the
  drain is the number of handlers inside (`DrainInv`). `NilExitLosesNothing`, by
  `ShutdownInv`: as long as the joined error is nil, who was admitted has left
  before the recorder is closed, and the Close of main returned nil only after
  the runner ended with no error kept.
* `UpstreamHealthProofs`: `HealthTypeCorrect`; `ScoresTakeTurns`, by `Refers`
  and `Locking`: a handler refers to an entry of `h.health` from
  `lockUpstreamHealth` to the release, the entry is in the map as long as
  anybody is counted in it, so that all who are inside share it, and who holds
  its semaphore is one of them. The counts are cardinalities of sets of
  handlers; `FailureIsRemembered` needs the same invariant, because the owed
  failure lives in that entry. `CircuitFollowsStatus` and `RecoveryIsEarned`, by
  `Confirmed`: the successes a row counts are at most the healthy probes in a
  row since the last failure that was written.
* `GenerationCacheProofs`: `TypeCorrect`, `NeverStaleEntry`,
  `NeverStaleLookup`, `LoadsAreMerged`, with and without the gate. The
  strengthening says that a value loaded under the current generation is at
  least what was published when that generation began: an invalidation either
  advances the generation, which voids the load, or came before the load.
  `CacheImplementsReads` is the refinement: the initial states map to those of
  `FreshReads`, and each step to one of its steps (a hit or a load to `Answer`,
  the invalidation that ends a change to `Finish`) or to none, because what a
  reader holds is between what was finished when it began and what is committed.
* `RequestProofs`, admission: `AdmissionTypeCorrect`, `ResourcesAreReturned`,
  `RateIsLimited`. Where a handler stands says what it may hold (`Places`); the
  gate's counters are cardinalities, the budgets sums over the handlers. `Limited`
  says how many requests of a key may have passed in each minute, by where the
  key's entry stands: one that is in no past minute and not in the entry has
  used up only what late calls allow.
* `RequestProofs`, costs: `CostTypeCorrect`, with one price of a model at an
  instant. `CacheHasTheRates`: a window ends where the next price begins or
  ends, so no price changes inside it (`WindowIsRight`), and a whole history in
  the order of the query has the valid row first (`HistoryIsRight`), up to any
  limit. `PastRatesStand`: saving touches no row that was valid before the
  instant it names (`SaveKeeps`; two tables that agree on an instant give the
  same rate for it, `AlikeRates`). `SumsAgree`, by `Rebuilt`: a row of usage
  that is missing although requests were counted in it was cleaned up, and no
  request logged now belongs to it. Its hypothesis is `Retention # 0`: with
  usage that is kept for less than an hour (`config.go` only demands a positive
  time) a request under way can be counted in a row that has just been deleted,
  and the new row knows nothing of the old one. `BackfillChargesOnce`: the query of
  the backfill and `calculateRequestCost` are one formula (`SameCost`), under
  the hypothesis `CountsAreNatural`. For a report with a negative count of
  cached tokens and none of input the two differ: Go infers an input of 0,
  the query the negated count. The requests of the run report no such counts.
* `GatewayProxyProofs`, header, log and error: `TypeCorrect`, `TrueAnswer` (from
  `OneTrueAnswer` and `CauseIsShared`), `StaysWithUpstream`. `Uncommitted` says
  at which places of the handler nothing was sent yet, the loop among them, and
  that a header once sent names the attempt at hand; `Counted` and `Flags` that
  the attempts are as many as the upstreams tried and that the two flags say
  what is common to them.
* `GatewayProxyProofs`, body and scores: `NoGapNoMix`, `OnlyTheGuilty`.
  `HandOver` says whose turn the shared buffer is: it holds the chunk taken last
  or the one due next, because the reader waits for the acknowledgement.
  `Offers` and `Results` carry the guilt from what a reader offers to the result
  of its attempt: an error that is not the context's, seen while the request is
  live, is the upstream's.
* `GatewayProxyProofs`, the usage of a stream: `UsageIsTheStreams` and
  `ParserIsBounded`, for every stream, every limit and every way to cut the
  stream. `ParserAgrees(p, s, k)` relates each field of the parser to the first
  `k` bytes of `s`: the pending text to the line that has not ended
  (`LineAgrees`), the data and the type to the event that has not (`EventAgrees`),
  the counts and flags to the events that have (`ResultAgrees`). A byte keeps it
  when it joins a line, when it ends one, blank (`BlankEnded`) or not
  (`SomeLineEnded`), and when it is the LF of a CRLF (`ByteSkipped`);
  `ChunkAgrees` goes from bytes to chunks, by induction over the ends of lines in
  the chunk, a line that began in an earlier chunk being what `append` joins.
  The data of an event are compared as counts and sets of positions
  (`Gathered`), because only an event that carries one value says anything.
* `NotificationOutboxProofs`, the outbox: `TypeCorrect`, `DeliveredByOne`,
  `NoJobLost`, `DeadLetterExhausted`. The strengthening `LeaseHeld` says that a
  job that is being sent is gone or still leased to its worker for what is left
  of the delivery and a minute less one tick; so its row is neither due nor
  anybody else's. It rests on `Minute >= 2`, a renewal of 60 s against a context
  of 20 s. `CopyIsCurrent` and `FailureCounted` tie the copy of a worker that
  owns a lease to the row.
* `NotificationOutboxProofs`, the balance API: `DiscoveryTypeCorrect` and
  `BestAnswerIsReturned`, for any number of checks that share the remembered
  path. A check that still asks has no answer that settles it, and its walk has
  every path whatever was remembered (`Searching`); one that is done has the
  best of its answers (`Best`).
* `AdminAccessProofs`, access: `AccessTypeCorrect`;
  `NoSessionOutlivesPassword`, by `Locks`: a login between its comparison and
  its commit shares the row and holds the current hash, and a change that owns
  the row excludes such logins; `LimiterServesItsBlocks`: each operation of the
  limiter keeps a blocked entry (`Served`) and adds one only below the capacity.
* `AdminAccessProofs`, the catalog: `CatalogTypeCorrect`;
  `CachesFollowTheTables`: an entry that differs from the tables belongs to a
  handler that has committed and has that invalidation still ahead
  (`KeyFollows`, `RouteFollows`); the types say what each operation may touch
  between its statements (`Sane`). `EnabledGroupsKeepMembers` has the hypothesis
  `MaxDeletions <= 1`, and `EmptiedAreLocked`: a deletion about to commit holds
  every group that it empties. The code does not serialize deletions; the run
  `concurrent_deletions` is the counterexample for two.
* `MonitorProofs`, incidents: `IncidentTypeCorrect` with `Places` (what the
  worker holds at each place); `BudgetIsKept`, by `Budget`: the stored count,
  with the lost records and the one under way, covers what was enqueued, and is
  reset only after a time that was calm; the engine's copy counts like the row
  (`CopyCovers`). `PaceIsKept`, by `Paced`: unless a record was lost, the row
  and the worker's copy know what was said last (`RowKnows`, `WorkKnows`) and
  are not older than it.
* `MonitorProofs`, balance: `BalanceTypeCorrect`; `ProtectionIsEarned`, by
  `EvidenceInv`: a reader that carries the version and credentials of the row
  carries evidence about them, and a row with a check to its name has seen a
  zero. `NoTransitionIsLost`, in two steps. `OrderInv`: one loop at a time
  retries the pending transition, the reading loop makes a new one only with a
  clear way or queues it behind the one that waits, and ids do not fall on the
  way from a new transition over the pending one to the one that was told. From
  this, `Known`: unless the administrator has spoken too, everyone who carries
  the newest transition carries the state of the row, and one that has passed
  the outbox is the one told last.

Sums deserve a word. A budget and a row of the ledger are folds over finite
sets, and the prover has no induction over data. The lemmas on `Total` and `Sum`
do without: among the sets for which a claim fails there is one that contains no
other (`LeastSet`, from the well-founded order of strict subsets), and removing one
element from it gives a set for which the claim holds. That gives how a sum
follows a change of its values (`SumChange`, `TotalChange`), whatever order the
fold takes.

The same device stands in for induction over a sequence. The loop of `Feed` is a
recursive function over the positions of a chunk; that its equation has a
solution at every length (`LinesExist`) and that the invariant holds along it
(`ChunkAgrees`) is shown at the least position at which it would fail
(`LeastNumber`).

All type invariants, all safety invariants of the runs and all their action
properties are thus checked by TLC on the instance and proved for every instance
of the constants; `QuietAfterClose` and `KeepsLedger`, which TLC checks within
`CallsReturn`, have theorems of their own, and `NoStaleEntry`, `DeadIsExhausted`
and `BuffersAreBounded` are proved only. Only model-checked are

* All liveness (the two promises of return in `CallsReturn`, `ShutdownReturns`,
  `Recovers`, `MarkReturns`, `LookupReturns`, `RequestEnds`,
  `HealthyChannelDelivers`, `AnnouncedInTheEnd`, `ToldInTheEnd`): fairness and ENABLED are out of reach of the prover.

## Findings

* `health_auth_failure`: `docs/architecture.en.md:81-82` says "Authentication
  failures (401 or 403) open the circuit immediately." `countsAsUpstreamFailure`
  (`handler.go:597`) leaves 403 out, so a 403 changes nothing.
* `rate_window`: the documented fixed window of requests per key and minute
  (`docs/architecture.en.md:224-225`) admits more when a call that read the clock
  in the previous minute takes the limiter's lock late: `limits.go:69` resets the
  entry to the older minute and the next call resets it again.
  `RateLimitHolds` states the bound that does hold.
* `concurrent_deletions`: an enabled group must keep a member
  (`docs/admin-api.md:175-176`), and deleting its last upstream disables it
  (`store_integration_test.go:432`). Two deletions of its last two upstreams each
  see the other still there (`store/upstreams.go:245`) and leave the group
  enabled and empty.

Other places where documents and code part, which no run repeats:

* `docs/architecture.en.md:120-122` has five attempts with their delays before a
  job becomes a dead letter. The claim counts the attempt
  (`store/notifications.go:79`), and a job at the end of a batch of slow channels
  loses its lease before its turn comes; so it may be buried after its first
  failed delivery (`app/notifications.go:125`). `NotificationOutbox` states the
  documented claim as `DeadLetterHadAllItsTries`, next to `DeadIsExhausted`, which holds.
* `docs/architecture.en.md:110` has every balance transition delivered. The
  cooldown compares a transition with the last one the monitor told
  (`ops/notifier.go:79`), so one that follows an administrator's, which goes past
  the cooldown, may be suppressed. `BalanceMonitor` states it as `TransitionsAreDelivered`.

## Mutants

Each property is paired with a plausible mistake in the code that breaks it: an
operator of the same parameters, defined in the module just before the one it
stands for, and used nowhere.

| module | property: mutant for original |
|---|---|
| `RequestRecorder` | `LedgerIsExact`: `RemainingInQueue` for `Remaining`; `RefusedRecordsAreIsolated`: `SplitFromThree` for `CanSplit`; `CallsReturn`: `QueueLeftOpen` for `CloseQueue` |
| `GracefulShutdown` | `NilExitIsClean`: `IgnoreClose` for `Joined`; `DoneMeansDrained`: `CountedBefore` for `LastOut`; `ShutdownReturns`: `SettleForever` for `SettleTimeout` |
| `UpstreamHealth` | `SemaphoreIsSound`: `NothingPending` for `Forgettable`; `OwedFailureIsRemembered`: `LastReference` for `Forgettable`; `CircuitMatchesHealth`: `CircuitStaysOpen` for `HealthyRow`; `HealthIsEarned`: `AnyVersion` for `VersionMatches`; `MarkReturns`: `WaitForEver` for `LockGiveUp`; `Recovers`: `SuccessUncounted` for `HealthyRow` |
| `RequestAdmission` | `ResourcesAreExact`: `ReadFailsAndKeeps` for `ReadFails`; `RateLimitHolds`: `OneMore` for `UnderLimit` |
| `StreamUsage` | `UsageIsWhole`: `ForgetsCR` for `EndsLine` |
| `RequestCosts` | `RatesAreTheTables`: `RowBoundaries` for `Boundaries`; `HistoryStands`: `Reprices` for `Prices`; `LedgerAgrees`: `WholeCost` for `Change`; `BackfillSettles`: `AlwaysCorrects` for `Corrects` |
| `BalanceDiscovery` | `BestAnswerWins`: `HintFirst` for `AccountFirst` |
| `GenerationCache` | `LookupsAreFresh`: `ClearOnly` for `Invalidate`; `SingleFlight`: `GateIgnored` for `GateFree`; `LookupReturns`: `WakeNobody` for `WakeAnd` |
| `GatewayProxy` | `BytesInOrder`: `ReadsOn` for `AwaitsAck`; `AnswerIsTrue`: `EndedSilently` for `RequestEnded`; `ScoresAreDeserved`: `BytesIgnoredAtEnd` for `HasBytes`; `RequestEnds`: `StopsOnAck` for `Stops` |
| `NotificationOutbox` | `NoDoubleDelivery`: `RenewAnyway` for `Renewable`; `NothingSilentlyLost`: `DropExhausted` for `Bury`; `HealthyChannelDelivers`: `FewAttemptsLeft` for `Due` |
| `Incident` | `FlappingKeepsBudget`: `RenewedAtOnce` for `StableLongEnough`; `AnnouncementsArePaced`: `OnlyCooldown` for `TooSoon` |
| `NotificationIncidents` | `AnnouncedInTheEnd`: `AcceptedAtOnce` for `Leased` |
| `BalanceMonitor` | `ProtectionFollowsEvidence`: `AnyVersion` for `Current`; `TransitionsAreKept`: `SendAnyway` for `OlderIsUntold`; `ToldInTheEnd`: `SameType` for `SameEvent` |
| `Catalog` | `EnabledGroupHasMember`: `NoGroup` for `Emptied`; `CachesFollow`: `RouteOnly` for `Both` |
| `AdminAccess` | `SessionsMatchPassword`: `NoLock` for `ShareLock`; `LimiterHolds`: `WindowOnly` for `Over` |

## Not modelled

The web console, the client plugins, deployment files and the rendering half of
the administration API have no concurrent state of their own, nor have the
reports, which are queries. Encryption, address rules, configuration parsing and
error redaction are stateless. The transport pool is a bounded map under one
mutex, without a wait or a callback inside. The migration is one serialized
transaction. `MultiNotifier` and the wire formats of the channels decide only
whether a delivery succeeds, which is a choice in `NotificationOutbox`. Parsing
of the replies of upstreams (JSON, balances, usage of the day) is abstracted to
its outcomes. An upstream is not deleted while it is scored. PostgreSQL is
modelled by what the code relies on: a statement or transaction is atomic, may
fail, and a commit may succeed without being acknowledged; row locks and foreign
keys appear where two transactions can meet. Go's scheduler and channels are
modelled by their documented semantics.

## Plan

What is left, in this order:

1. `GatewayProxy` composed with admission and health, so that a request that
   fails over is scored on two upstreams with the semaphores of each.
2. A service that answers from one upstream as an abstract specification that
   `GatewayProxy` implements.
3. The deletion of an upstream while its health is scored, and a restart in
   `BalanceMonitor`.

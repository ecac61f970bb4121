# CI Radar in TLA+

CI Radar is one Go program: webhooks of CI providers come in, durable jobs diagnose the failures they
report, and notifications, incidents, statistics, reruns and draft repairs come out. This directory
holds TLA+ models of the parts where order, crashes, concurrency and limits decide what is right, the TLC
configurations that check them, and TLAPS proofs. Paths are relative to the repository;
`internal/db/db.go` is `db.go` and so on.

## 1. Inventory

| Part | State it keeps | Operations | What is hard |
|---|---|---|---|
| Job queue, worker pool (`db.go`, `postgres.go`, `worker/worker.go`) | jobs with status, attempts, lease, times | enqueue, claim, renew, complete, fail, requeue stale, retention | leases of workers that are gone or slow, failed writes between steps |
| Webhook intake (`server/server.go`, `connectors/`) | one record per delivery identifier | verify, parse, record, enqueue with job, claim, update, retention | redelivery, notices that leave things out, the record and the job drifting apart |
| Notifications (`notifications/`, `db.go`) | one record per event and channel | begin, send, record | lost answers, takeovers after two minutes, cooldown across events |
| Embedded store's file (`db.go`) | state in memory, state file, backup | open, every mutation, close | crashes between file operations, damaged files, Windows replacement |
| PostgreSQL state store (`postgres.go`, `postgres_relational.go`) | rows in `ciradar_objects` and others | load, run the embedded operation, write back the difference; single objects | three kinds of advisory lock over the same rows |
| Connection pool (`postgres_pool.go`) | idle connections, slots, closed flag | acquire, release, close | selects that race with close |
| PostgreSQL client (`pgwire/client.go`) | one connection, its transaction status, a deadline, the broken flag | connect, query, cancel, reset, close | answers that arrive after their statement was given up |
| Incidents (`db.go`, `tenant.go`, `worker.go`, `server.go`, maintenance loop in `cmd/ciradar/main.go`) | one incident per tenant and fingerprint | correlate, upsert, acknowledge, resolve, resolve stale | read and write in separate steps, late writers |
| Reruns, comments, issues, chat actions (`worker.go`, `server.go`, `connectors/`) | a record per run, analysis or button | check, external request, record | handlers that start again, crashes after the request |
| Draft repair (`worker.go`, `repair/`) | result per analysis, a branch, files of a directory | propose, branch, commit, open; apply, roll back | every call fails before or after its effect, others push or edit |
| Limiters, gate (`server/ratelimit.go`, `admission.go`, `postgres_rate_limit.go`) | windows and blocks of an address, slots | take, record, forget | two processes and one row, clocks, eviction |
| SSO, OAuth, API keys, sessions (`sso/`, `server/`, `sso_replay.go`) | flow cookies, key cache, replay records, codes, tokens | begin, callback, authorize, exchange, revoke, authenticate | lookups in separate calls, what is good once, what is taken back |
| MCP runtime (`mcp/state.go`, `server/`) | sessions, event channels, confirmations | create, prepare, consume, notify, close, stream | channels that others close |
| Marketplace (`marketplace/`, `server.go`) | the plan of an account, twice | claim, read, change, write | notices out of order, handlers that overlap |
| Test statistics (`quality.go`, `testintelligence/`) | counters and last execution per test | read reports, record, classify, quarantine | late and repeated observations, operators next to the system |
| Test selection (`testselection/`) | one import graph per repository | index, merge coverage, select | merges that read and write back whole, reachability, limits |
| Analyzer, diagnostic memory (`analyzer/`) | verdicts remembered per tenant | analyze, look up, remember, feedback | two passes, memory that overrides |
| LLM, similarity, source context, insights, benchmark | almost none | text in, text out | data, not order |

How they interact: a webhook handler writes the delivery record and the job in one store operation
(`EnqueueDeliveryForTenant`). `WorkerCount` goroutines claim jobs; `processWithLease` runs the handler
next to a heartbeat goroutine that renews the lease; a handler calls the store, external services, and
enqueues further jobs, for instance `notify.event`, whose handler is the notification dispatcher. A
sweep (`requeueLoop`) gives back jobs whose lease is old, the maintenance loop resolves stale incidents
and applies retention. HTTP handlers authenticate through the same store. All shared state is behind the
`Backend` interface: one mutex and one file in the embedded store (single process,
`docs/architecture.md`), one transaction per operation in PostgreSQL, through the pool; what is in the
memory of a process only (key cache, MCP sessions, counters of the limiters, diagnostic memory) is lost
when it restarts.

What makes each part correct: a job has one valid lease, one verdict and as many attempts as its
faults explain, a delivery one job; an endpoint gets a message once per reason; an acknowledged change
survives, a reported failure leaves nothing; a pool loses no slot, a connection answers the statement it
was asked; an incident that opens is announced once; a build whose end is said in a known word is heard of, and rerun
once for each of its jobs at most; a draft or a
repair is whole; what is good once is used once, what is revoked stays out, what is limited stays
limited; statistics do not depend on the order of arrival; a selection called safe leaves out nothing
of its list that the change touches; what a tenant confirmed overrides what is guessed.

## 2. Modules

| Module | Models | Composes |
|---|---|---|
| `JobContract` | what the queue promises, without workers or clocks | |
| `JobQueue` | jobs, deliveries, workers, heartbeat, sweep, retention | implements `JobContract` |
| `JobQueueProofs` | theorems about `JobQueue` | |
| `Notifications`, `NotificationsProofs` | dispatcher and delivery records, on the leases of the queue; theorems | |
| `StateFile` | the file protocol under every mutation | |
| `PgClient` | one PostgreSQL connection and its caller | |
| `Storage`, `StorageProofs` | what a backend stands on, and theorems about file and connection | `StateFile`, `PgClient` |
| `PgPool` | the connection pool | |
| `ObjectStore` | what a call of the store promises, in one step | |
| `PgObjects` | the transactions of the PostgreSQL backend on its table of objects | implements `ObjectStore` |
| `PostgresProofs` | theorems about `PgPool` and `PgObjects` | |
| `Incidents`, `IncidentsProofs` | failures that become incidents, operators, the resolving sweep; theorems | |
| `Clock`, `Faults` | the ticks and the count of faults that other modules share | |
| `SignIn` | OIDC and SAML sign-ins, the key cache, replay records | `Clock` |
| `Credentials` | authentication of requests, the OAuth code exchange, revocation | `Clock` |
| `McpRuntime` | sessions, channels and confirmations of MCP | `Credentials` |
| `Limits` | the limiters of two processes and their store, the admission gate | `Clock`, `Faults` |
| `Access`, `AccessProofs` | everything about entering the server, and theorems about it | `SignIn`, `McpRuntime`, `Limits` |
| `LogFetch` | logs fetched whole or in pieces | `Faults` |
| `SideEffects` | handlers that act outside and record it | `Faults` |
| `DraftRepair` | draft pull requests | `Faults` |
| `ApplyRepair` | `ciradar repair apply` | `Faults` |
| `Remediation`, `RemediationProofs` | what is done about a failure, and theorems about it | the four above |
| `Intake` | notices of fifteen CI providers, deliveries, reruns | `Faults` |
| `Marketplace` | notices about the plan of an account | `Faults` |
| `TestStats` | reports, counts, classes and quarantine of one test | `Faults` |
| `Selection` | the import graph, coverage, the selection of tests | `Faults` |
| `Verdicts` | verdicts, their memory, feedback, the decision on a rerun | `Faults` |
| `Evidence`, `EvidenceProofs` | what is learned from what reaches the program, and theorems about it | the five above |
| `MC...` | instances for TLC, symmetry | each extends its module |

`Access`, `Remediation`, `Evidence` and `Storage` put parts that share a clock, a fault budget or a
choice beside each other. A behaviour is about one of the parts (`scene`, `casting`, `backend`, chosen in
`Init`), except where parts do share state: `McpRuntime` runs on the credentials of `Credentials`. So the
state spaces add up instead of multiplying; nothing is lost, because the parts do not read each
other's variables.

### JobQueue

One store operation is one step: it runs under one mutex or in one SQL transaction, and a write that
fails restores the memory (the `old := ...` copies in `db.go`). That the file under it behaves like one
step is what `StateFile` is about. `job`, `delivery`, `enabled` are the tables; `worker[w]` is the stack
of a worker goroutine (`idle`, `working` in the handler, `settling` before `UpdateDelivery`, `reporting`
before `CompleteJob` or `FailJob`) with its lease, whether the heartbeat has cancelled it, and the
renewals it missed. A lease token contains fresh random text, so the number of the claim stands for it.
Clocks are ages: `Tick` makes leases older and backoffs shorter. `Crash` is a worker goroutine or
process that disappears, an "error" is a store call that fails. `succeeded` and `expired` are history.
A handler is reduced to its result.

### Notifications

One step asks `BeginNotificationDeliveryForTenant`, one posts, one records; between them workers die,
answers get lost, writes fail, processes are suspended past their lease, and attempts outlive the two minutes
for which their record is believed (`Outlive`): `config.go:534` allows a Timeout of just that, an e-mail restarts its
deadline after the dial (`enterprise.go:159`), and after a 429 up to half a minute passes before the failure is
recorded. Each such attempt counts as a fault, because what it records comes late. `posted` counts what the
endpoint really got. The job around it is the queue of `JobQueue` reduced to status, attempts and the
time since the last renewal. Routing rules appear as the set of channels, quiet hours as an outcome.

### StateFile

The state is the set of operations it contains. `persistLocked` is walked through file operation by file
operation; each of them may fail, the program may stop (a file being written is then broken) or the
machine may (any disk since the last directory sync may be what is left, `survivors`). `windows` is
chosen at the start: there `replaceFileWithRollback` needs three moves and moves are taken to be durable
at once. The model decides only whether a file decodes. `Corrupt` damages the main file while the program
is down; see section 8 for damage while it runs.

### PgClient and Storage

Client and server exchange messages in order over two queues; the server is external and may answer,
fail, leave, or send what nobody asked for. `Query` and `QueryParams` are walked through message by
message. The caller's context may end and a deadline pass at any point: `context.AfterFunc` is a
goroutine of its own (`query.hook`), which sets a deadline that may strike the next call unless the call
has waited for it. `Reset` and the way into and out of the pool follow `postgres_pool.go`. Connecting
is a walk through TLS, the authentication the server asks for, and the start of the session, for
strings that `ParseDSN` accepts and for those it refuses (`Settings`). Bytes, encodings and the
arithmetic of SCRAM are abstracted to right and wrong.

### PgPool

The two channels are their lengths; a user is at a place in `acquire` or `release`. A `select` takes any
ready case. Every check of `isClosed` is a step of its own because the flag may change before the next
statement.

### Incidents

One fingerprint of one tenant. An observer is a failing job under analysis: it counts
(`CorrelationForTenant`, its own failure included), records, decides, reads the incident, upserts it and
enqueues the announcement; each is a step because each is a store call of its own (`worker.go:316` to
`:357`, `server.go:1048` to `:1085`). `CutShort` is an error or a crash between two of them; the job may
run again, and what was recorded stays. The sweep resolves and announces in two steps, and so does an
operator who uses the HTTP API; other operators announce nothing. Times are ages. An announcement is an
event put on the queue: whether it is sent is the subject of `Notifications`.

### ObjectStore and PgObjects

`ObjectStore` is the embedded store seen by a caller of an object: a call takes effect at once, or is
refused for what the store held while it ran, or answers with an error and may still take effect later,
once. An object's value is the set of calls whose effect it carries (`by`), so that an overwritten update
is visible, and the call that created it (`created`), which also tells a row from a later one of the same
key. A call is a record: the `specs` it locks, what it `writes` and `removes`, which objects it `needs` or
must not find (`lacks`).

`PgObjects` takes the same calls through the phases of a transaction, those of `pgStateWith` and of the
methods that write single objects: `Lock` (one advisory lock per statement, in the order of `normalizeSpecs`), `CheckLimit` or
`FilterObservations`, `Load` (the snapshot of `SELECT ... FOR UPDATE`), `Scan` (wait for the owner of a row
of it, look again, lock), `Decide` (run the embedded method on what was read), `Insert`, `Commit`. A row that
is locked takes its write without waiting and needs no step. `Cleanup` and `DeleteObject` take no advisory
lock and enter at `Load`. `GiveUp` is a timeout or a broken connection: the caller has an error, its
session keeps its locks until `Abort`, and a COMMIT already sent may still happen. The refinement maps
`took` to a committed transaction and `doomed` to one whose snapshot no longer holds what it needs.
Client identifiers are new random text, so the lookup by identifier that follows the count in
`PutObjectIfKindBelowLimit` finds nothing. Collisions of the 64-bit hashes in `advisoryLockKey`, which
only make calls wait, and the fairness of PostgreSQL's lock queues are left out.

In this the two backends differ: `Cleanup` in PostgreSQL forgets a resolved
incident by the time it was last seen, the embedded one by the time it was resolved (`postgres.go:1275`,
`db.go:1275`). `Expired` follows PostgreSQL: an old incident that the sweep resolves can be forgotten at once.

### SignIn, Credentials, McpRuntime, Limits: Access

`SignIn`: the tabs of a browser share one cookie jar, so a second sign-in replaces the flow cookie of
the first; a callback may be posted twice. An OIDC callback reads the cookie, redeems its code at the
provider, looks for the key in the cache, fetches the keys if need be (the fetched set replaces the
cache when the answer is there, `sso.go:496`), and accepts or refuses. A SAML callback claims its response
in the store, which forgets claims when they expire. The provider rotates its keys at any time.

`Credentials`: a request offers cookies and tokens in the order `authenticate` tries them. Opening a
sealed value checks its expiry; then session, key, tenant, client and token are looked up one call after
the other, while administrators revoke and retention deletes. `request[r].barred` is history: what had
been taken back when the request began. Authorization codes are redeemed by a claim of a delivery
record (`server/oauth.go`), which retention removes later.

`McpRuntime`: a step is what happens while `Runtime` holds its lock once. A request finds its session,
prepares an action, consumes a confirmation and carries the action out, or closes the session; a stream
waits on a channel that others close. `misused` records a send on, or a second close of, a closed channel.

`Limits`: two processes count in memory first and then in the row they share. The time of a statement is
taken before it reaches the row, so the row sees times out of order (`StatementTimes`), by up to a tick.
Entries in memory are evicted, a process restarts, the store fails (then the request is refused). The
gate is a counter of slots that a handler takes and gives back. `admitted` is history.

### LogFetch, SideEffects, DraftRepair, ApplyRepair: Remediation

`LogFetch`: sizes in a small unit; a limit of zero means the default in `FetchBytes`, which is why a
request for "nothing more" would be one without a limit. Decoding (`Decodings`) may make a log shorter or
up to three times as long, a byte that is not UTF-8 becoming a replacement character of three; it is cut
to the limit again everywhere but for Buildkite (kind "wrapped"), see section 8.

`SideEffects`: a handler is a list of calls, in the order of the code. Each call fails before its
effect, fails after it, or succeeds; the program may crash between calls; a handler that failed starts
again, as the job queue or the sender of the webhook makes it. `overlapped` marks behaviours in which a
handler looked at a record while another was about to act on what it had seen: the code takes no lock
there, the properties that fail in that case say so by this flag, and hold for all others. The list of
comments has only so many pages, and is not read at all with `update_existing` off: a handler may find
nothing where there is a comment, and `search.missed` counts how often.

`DraftRepair`: an automatic and an explicit job of one analysis, with two patches (the model may propose
another when it is asked again). Branch names depend on the patch; `Push` is somebody else.

`ApplyRepair`: every operation on the disk is a step: backups, temporary files, the second look, links
for files that are added, moves aside and back, the rollback in reverse order, the clean-up. The program
may die and be started again, and somebody may edit files; `unsafe` are edits after the last look of the
command, which no program could notice.

### Intake, Marketplace, TestStats, Selection, Verdicts: Evidence

`Intake`: for each of fifteen providers, which events count, how it spells the end of a build and which
of these words the code knows (`Spelling`, `NormalizeConclusion`: "succeeded" of Azure and CodeBuild, "errored" of Travis,
"stopped" of CodeBuild and Bitbucket and "internal error" of Cloud Build are not among them, and such a notice is ignored), what
identifies a delivery (a header, which two notices may share, or what is put together from the notice), and what identifies a build
when a rerun is asked for. Two providers leave no key of a build (`Unkeyed`), two give the same key to
every build of a definition (`ByDefinition`); the property names them. `auth` is a signature, token or
secret that is right, old or wrong. A worker looks for the record of a rerun, writes it and asks in three steps, between
which others run and it may die; `overlapped` remembers the keys that two found missing one after the other.
For GitHub it asks at once and nothing is recorded: all it goes by is the attempt the event names. How long delivery
records are kept is in `JobQueue`; records of reruns are never removed.

`Marketplace`: a clerk claims a delivery, reads the subscription, finds or creates the tenant, binds
its installation, and writes the subscription in two places. `raced` is to this what `overlapped` is to
`SideEffects`.

`TestStats`: five formats of reports are read into observations; the store counts an observation once
by its identity, and classifies. The handler then quarantines in a second call, with operators and the
clock in between. `history` has all that was ever recorded, and the counters are compared with what the same
observations give in any order; `kept` are the places in it that are still stored, because retention of the database removes observations
and leaves the counts (`Cleanup`; the file keeps them all). Duplicates are known by those alone. What a reader sees
is a page of the last ones stored (`ListTestObservations`), and of its failures the most frequent kinds
(`GroupFailureTypes`). The test and its page are read by two calls; the property compares them at one moment.

`Selection`: files are paths with an extension, imports a relation over them. Indexing and merging coverage
read and write the graph as a whole, next to a selection that reads tests and graph one after the other. It has a list
of the known tests that is cut at `ListLimit` (5000); which ones are cut depends on an order that is not
modelled, so that they may be any.
Scores keep the weights of `selection.go`, so that the limit cuts where the code cuts.

`Verdicts`: weights of rules become a category, a confidence and an attribution; the worker makes the
verdict twice, the second time with what it has looked up. The memory of each tenant is bounded
and expires; feedback is kept in it. `MaybeRetry` decides over the verdicts of all jobs of a run.

## 3. Runs

| Run | Instance | Shows |
|---|---|---|
| `jobqueue_safety` | 2 workers, 2 jobs, 1 delivery, 1 tenant, 2 attempts, lease 2, heartbeat 1, 2 faults | leases, verdicts, deliveries, attempts; refinement of `JobContract` |
| `jobqueue_liveness` | 2 workers, 2 jobs, 2 tenants, 1 fault | `EveryJobEnds` |
| `notifications_safety` | 2 runners, 2 jobs, 2 events of one key, 1 channel, 2 attempts of the channel and 3 of the job, an attempt of up to 3 units with a window of 2, 2 faults of five kinds | duplicates, attempts, nothing left half done, cooldown |
| `notifications_liveness` | the same with 1 crash, lost answer or late attempt | `EveryNotificationEnds` |
| `storage` | the file: 3 operations, 2 crashes, 2 failing file operations, 2 damaged files, both systems; the connection: 3 statements, 2 dials, 8 settings | what survives, what is undone; `InStep` |
| `statefile_windows` | 2 operations, 1 error | `FailedIsUndone` is violated, see section 6 |
| `pgpool` | 4 users, 2 connections, close at any time | slots, what stays open, `EveryAcquireReturns` |
| `incidents` | 2 failing jobs of two organizations, one with a possible provider outage, one with an event time; one fault or operator's change; all times one unit | counts and openings, announcements, late writers, `ResolvedAtLast` |
| `pgobjects` | 3 calls out of one of four groups of calls that share objects, a quota of 1, 1 caller that gives up | `ImplementsStore`, `OnlyCleanupDeadlocks`, `EveryCallReturns` |
| `access` | 2 tabs and 3 callbacks; 5 requests in one of five castings; 3 requests of an address at 2 processes with 1 fault; 3 ticks | `UsedOnce`, `ChannelsUsedWell`, `LimitsKept`, `KeysTrustedInTime`, `RevokedStaysOut` |
| `remediation` | 3 handlers in one of six teams, 3 starts each; 2 jobs and 2 patches of 2 files; 3 files, 2 applications, 2 edits; 3 pieces of a log; 2 faults | `OutsideMatchesRecords`, `DraftWhole`, `AppliedWhole`, `LogBounded` |
| `evidence` | 15 providers and 3 posts; 3 deliveries in one of four stories, 2 clerks; 3 reports in five formats, 1 operator's act; retention after a tick, pages of 2 and 1 kind of failure; a graph of 21 files in 3 languages, 3 tests of which 2 fit the list, 8 requests, 2 merges; 2 tenants, 2 runs, 1 word; 1 fault | `EveryBuildHeard`, `RerunsFit`, `PlanKept`, `StatsHonest`, `SelectionTrue`, `FeedbackHolds` |

Why the bounds are enough to be interesting: two workers are what it takes for an old and a new holder
of a job, two faults let a fault strike the recovery from another, two attempts give a retry and a last
attempt, a lease of two heartbeats lets one renewal fail harmlessly and a second one cost the lease (the
code has ten minutes and two). Two events of one key are needed for the cooldown, two jobs for one
event enqueued twice. Three operations are needed to see a damaged file cost one of them and not two.
Three statements and two dials let a late answer or a late cancellation meet the next statement, and
a connection the one that replaces it. Four users on two connections have both users and waiters; in the
pool nothing is bounded but the users: the state space is the whole one.

Two failures are enough for an incident: one opens it (by outage or as the second organization), the
other updates it, reopens it or overlaps with the first; a retry records a failure twice. Of the store's
calls only those that touch the same objects can disturb each other, so `MCPgObjects` lists groups of
these: incidents with the sweep and retention; tenants with analyses and retention; the statistics and
quarantine of tests; deployments and clients with the quota. Three transactions are what it takes for a
cycle through a third one's lock. Ages saturate just above the threshold they are compared with.

In `access` every lifetime is one or two ticks, which keeps their order where the code fixes one (a code is
forgotten after it expired, a cache outlives a fetch); two posts of one callback and a second
tab give every pair of callbacks that share a cookie; a window of two ticks and a limit of one give the
burst at the edge of two windows. In `remediation` two faults let a handler fail, start again and fail
elsewhere; three files give the rollback a first, a middle and a last. In `evidence` three posts are a notice,
its repetition and another; three deliveries about one account come in each order; three reports are what
makes a test flaky (`ConfirmAt`); the chain of imports is one longer than the depth that is followed;
two verdicts fill the memory of a tenant. Two workers are enough to overlap over one record of a rerun. Pages, groups and
the list of tests have limits that the instance both stays within and exceeds. All other bounds are constants: `MaxJobs`, `MaxFaults`,
`MaxCrashes`, `MaxErrors`, `MaxCorruptions`, `MaxEvents`, `MaxNow`, `MaxRuns`, `MaxPosts` and so on; each is
named as a bound where it is declared.

Symmetry is used in safety runs only, over workers, events, jobs, operations and the handlers of
`Evidence`: no definition tells them apart. Deadlock is not checked where the system may rest: no work
left and no fault left, the store given up, the pool closed, or the bounds exhausted. Each property is
paired in `PROJECT.json` with a mutated definition that breaks it.

### Fairness

- `JobQueue`: weak fairness of each step of each worker (goroutines of a loop that only ends with the
  process; handlers return because their external calls have timeouts), of the heartbeat, the sweep and
  time. Nothing makes webhooks, tenant switches, retention, crashes or errors happen.
- `Notifications`: weak fairness of a runner's steps, of resuming, of the sweep and of time. An attempt ends within
  `SendTime`, which may be longer than the window.
- `Incidents`: weak fairness of the steps of a handler that has begun, of the sweep (a ticker), of pending
  announcements and of time. Failures, operators, faults and retention need not happen. Time waits for a
  handler that has read the clock and not yet written (`Handling`): a job's context is cancelled with its
  lease, ten minutes to the thirty of the default `IncidentResolveAfter`. A suspended process may be later than that.
- `PgObjects`: weak fairness of "some transaction takes a step, drops the session of a client that is
  gone, or is the victim of a deadlock": as long as one can go on, one does. PostgreSQL does all three by
  itself. Giving up need not happen. (Transactions are finite, so that progress of some is progress of all.)
- `PgPool`: weak fairness of a user's steps once it has entered `acquire` (it releases what it got: each
  caller defers the release), of leaving a closed pool, and of draining. Strong fairness of getting an
  idle connection or a slot for a waiter: Go channels serve blocked goroutines in order.
- `Storage`, `Access`, `Remediation` and `Evidence` state safety only and assume no fairness.

## 4. Proofs

The theorems hold for any number of jobs, workers, users, events, files, patches and so on, any bounds on
faults, and all values of the constants that the named assumptions of the modules allow. Each proof has
the same plan: an inductive invariant that was model-checked before it was proved, for each action a lemma
that says what the action does to the fields of the records it touches, and then one lemma per action and
part of the invariant. Invariants are split into parts with names, so that a part that needs another says so.

`JobQueueProofs` (`TimingAssumption`: `0 < Heartbeat <= LeaseTimeout`):

- `TypeCorrect`: `Spec => []TypeOK`.
- `LeasesExclusive`: `Spec => []LeaseExclusive`. `LeaseExclusive` is not inductive: nothing in it says
  that a claim gets a lease no sleeping worker has. `LeaseInv` adds that the lease of a running job is its
  newest claim and that every busy worker holds one of the claims made so far.
- `DeliveriesTakenOnce`: `Spec => []OneJobPerDelivery`. It needs `FreshInv`: job numbers from `nextJob` on
  were never used, so that a new job does not overwrite an old one.
- `QueueKeepsContract`: `Spec => ContractSpec`, the refinement: each action is an action of `JobContract`
  or changes nothing it sees.
- `HealthyLeasesKept`. `HoldInv` ties the age of a lease to the beats its worker has missed; without it the
  sweep could find an old lease of a worker that is well.
- `RetriesBounded`. The attempts of a job are an account: a queued job has one attempt less than
  `MaxAttempts` and the faults allow, and so has a running one, unless a worker is `AtIt` with the newest lease and
  has missed nothing; then the attempt that is over is paid for when that worker ends, or fails.
- `VerdictsAreHonest`. `VerdictInv` numbers successes by the lease they were reported under, so that a late
  report of an old holder is not the last run's. A delivery record promises less: `UpdateDelivery` asks for no
  lease, so processed says that some run of the job succeeded, not that the last one did.

`PostgresProofs`, of the pool (`PoolAssumption`): `PoolTypeCorrect`, `SlotsNeverLeak`
(`slots` is the number of idle connections plus those in a hand) and `ClosedPoolDrained`. The
invariant is their conjunction with `RaceInv`: after the close the users that are resetting a connection
only become fewer, and each of them leaves at most one. The step of a user is first reduced to a move
between two places (`UserMoves`), then counted (`MoveCounts`).

Of the calls (`PgAssumption`, `CallsAssumption`, `WritesAssumption`), for any number of them on any objects:

- `CallsNeverDeadlock`: `Spec => []OnlyCleanupDeadlocks`. `PgInv`: a transaction holds the locks of the specs
  it is done with (`LocksTaken`), no two hold locks that exclude each other (`LocksExclude`), no row has two
  owners (`RowsOwned`), and but for retention each keeps to the objects of its call (`RowsOfCall`). From
  it every transaction that waits gets a `Level`, and who is waited for is further up (`WaitsUpward`): among
  those that wait for advisory locks because specs are taken in order, among those that wait for rows because
  the locks they hold leave them to meet only at a row that some lock one by one and others together
  (`Meeting`), and there one of the two has a single such row. A finite set has no cycle of such waits.
- `CallsImplementStore`: `Spec => ImplementsStore`, the refinement. `StoreInv` says of each transaction that what
  it has read is what is there (`SeenHolds`), that of the objects its locks guard it has read, or is about to read,
  all there are (`GuardedSeen`), and that there is room for what it may add to a kind with a quota (`Room`). Each step
  keeps this for the one that takes it (`Fits`) and a commit for all the others (`OthersFit`), because two
  calls past their locks are `Apart`, so that neither puts what the other guards. A call that turns out to
  be in vain is so by what the store holds at that step (`Honest`); hence a refusal, and a delete that finds nothing, has its
  moment. A commit is then the step of the store (`AllThereIs`): what was read and what is there give the same
  writes, values and removals.

What the proofs need of the calls is stated in the module and evaluated by TLC for the calls of `MCPgObjects`: what
the callers of `pgStateWith` and `RecordTestObservations` write is in the specs they lock, a call of one object
touches one, two calls that may put what one of them reads and relies on never pass their locks together, and nothing but
`PutObjectIfKindBelowLimit` puts objects of a kind that has a quota (`oauth_client`, `oauth.go:175`).

`NotificationsProofs` (`TimingAssumption`: `Window` is within the lease, nothing about how long an attempt takes;
`KeyAssumption`: an event has one key; `BoundsAssumption`):

- `PostsStayBounded`, its first half for every behaviour, suspended processes and slow attempts included. `Budget` counts what
  may still reach the endpoint against the faults so far: the runners about to post or to record a failure
  that is to be retried, the runners without a safe lease (`Firm`) that have yet to come to the channel,
  and the record itself while it is `Open`, that is, new, to be retried, or "sending" with nobody whose
  request is younger than it and whose lease is safe. `Leases` keeps the leases apart. Every step keeps the sum or has a
  fault to pay for it; only the fault that takes a runner out, or makes it late, can open the record it owns.
- `ExclusiveAlways`, and from it `CooldownHolds` and the second half of `PostsStayBounded`: as long as
  no attempt outlives the window (`Timely`) a runner that is sending owns its record (`Owns`), alone for its event (`Single`) and, where there is a
  cooldown, for its key (`Alone`), and nothing of the key was sent lately (`Quiet`); every request was counted before it
  went out (`Counted`, `Fits`). Without a cooldown two events of one key may be under way together, and the code means them to be.
- `JobsAlwaysLeaveNothing`: `JobsInv`, while no store write failed and no attempt outlived the window. `Cared`: for a channel that is
  not settled some job of the event is queued, waits for the sweep (`Orphan`), or has a runner that `Minds` it. A runner
  passes over a record only because it is fresh, and then `Awaited` finds the one who will come back to it: the
  sweep takes the job of a dead runner no sooner than the record has gone stale. That a job is put back as often as needed is
  `Accounted`: each of its claims beyond the first has a crash, or an attempt on a channel, of its own (`Used`), and of
  these there are as many as `JobsLeaveNothing` asks of `JobAttempts`. Channels are finitely many.

`StorageProofs` (`NamesAssumption` of `StateFile`, `PgClientAssumption`): about the file `DiskTypeCorrect` and three
invariants over every disk that a crash may leave (`Disks`), about the connection one theorem:

- `AcknowledgedSurvives` (`AckedInv`), `DamageCostsTheNewest` (`DamageInv`: main file and backup each hold
  all but the newest operation) and `FailuresLeaveNothing` (`CleanInv`: no file an `Open` may read holds what
  was refused). All rest on `Staged`, which says for every step of `persistLocked` what the files it has
  written hold. `StorageSafe` states the three for `Storage`.
- `ConnectionsStayInStep` (`InStep`). While a statement is under way, `Work` numbers its messages from the last:
  what is in the caller's hand and what is on its way make the end of the statement, the server skips only
  while the last message is to come, and the end of an answer is never sent before something of the answer (`Shown`).
  `Ends`: after that end nothing is on its way that was asked for, so that reading it puts the connection
  `AtRest`. `Callers` ties a hook or a deadline to the call it belongs to, `Handshake` allows one message at a time.

`IncidentsProofs` (`ThresholdAssumption`, `TimingAssumption`, `BoundsAssumption`), all from `IncidentsSafe`:

- `EveryCountIsRight`: `CountInv` (each attempt leaves one analysis at most, and a second one of a failure
  needs a fault), `BoundInv` (what a handler has counted stays true, because failures are never taken
  back) and `OpenInv` (the handler that could see a cluster has opened the incident by the time it is done).
- `AnnouncementsAlwaysAgree`: `AnnounceInv`, in behaviours where nothing overlaps: whoever is engaged is
  alone, and the difference between openings and announcements is the one it has yet to make.
- `LateWritesNeverHarm`, an action property: `TimesInv` bounds the age of what a late handler writes.

`AccessProofs` (`CastingsAssumption`, `ClockAssumption` and those of the parts, `LimitsAssumption` among them):

- `UsedOnceAlways`: `SpentOnce`, `TakenOnce` and `Remembered`, one for each thing that is good once. For codes
  the reason is an order of lives: the record of a redemption outlives the code.
- `ChannelsAlwaysUsedWell`: `ClosedIsOver`; a closed channel belongs to a session that is gone for good.
- `KeysAreTrustedInTime`: `FetchedInTime`; a fetch that is under way was begun when what it brings was published.
- `RevokedAlwaysStaysOut`, an action property: `TakenBack` and, for what a request has yet to look up, `Looking`.
  Retention may forget the revocation of a token only when the token is over.
- `LimitsAlwaysKept`: `Most` bounds, for a stretch of time that begins at any tick, what has passed in it by what
  the row counts now (`SharesKept`). The first request of a window comes when the window begins, so a stretch
  holds all of one window's requests or all of the next one's, never of both; a statement that comes late to
  the row counts in a window that began after it, by a tick at most, and takes nothing from the bound.
  `SlotsKept`: the tokens of a gate are the requests it works on. `BlocksEnd`: no block is longer than the longest delay.

`RemediationProofs` (`LogAssumption`, `DraftAssumption`, `ApplyAssumption`, `RemediationAssumption`):

- `LogsStayBounded`: while pieces are fetched, something is left to ask for; what is decoded is at most three
  times what was read.
- `DraftsAreWhole`: `Worked` says what a job has behind it at each of its calls; `Shared` that no call of anyone
  undoes what was good.
- `PlansAreAppliedWhole`: `Progress`, `TakingBack`, `BackedUp`, `Finishing` and `NothingLost` describe the disk at each
  operation of apply, rollback and clean-up, for each file before, at and after the one in hand.
- `EffectsMatchRecords` (`EffectsInv`): how often each thing can have happened follows from who may be about to
  do it. `LookedAlone`: while no look overlapped, one handler at most is between its look and its act; so what
  it saw is still so when it acts (`RetryInv`, `CommentInv`, `IssueInv`), and a second one needs a fault.
  Chat actions need no such condition, because the store claims them (`ChatInv`). `FactsInv`: what was done
  outside rests on an analysis that is stored. It assumes that handlers are finitely many and that
  one pipeline is not read both with and without the identifiers of its rerun.

`EvidenceProofs` (`IntakeAssumption`: the providers are among the fifteen, a build belongs to one definition, whose
number is not 0; `MarketAssumption`: the times in notices are numbers; `VerdictsAssumption`: the memory has room for one
entry and time for an hour, a failure matches finitely many rules of whole weights; `SelectionAssumption`: failures are
counted in whole numbers, a limit is at least 1; `TestStatsAssumption`: it takes more executions to call a test flaky
than to classify it, a quarantine lasts, a page and a list of kinds have room for one; workers are finitely many), from `EvidenceInvariant` and the invariants named below:

- `BuildsAreHeard`: `Filed` ties answers, delivery records and jobs together: the record under an id is that of one
  notice that was answered, the first. It rests on two lemmas about
  the fifteen parsers: a notice is read as the end of a build exactly when its word is one the code knows
  (`OverIsTerminal`), and two notices without an id whose bodies agree are read alike (`SameReading`).
- `RerunsAlwaysFit`: `HandsFull` says what a worker between its look and its request has in hand, `KeysOnRecord` that what was rerun is
  on record by its key and, without a fault, `RecordsRerun` that what is on record was rerun or is about to be;
  `KeyOfBuild` says for each provider what the key is made of. `OneAsker`: of a key nobody overlapped one worker at
  most is at it, and that was before any rerun. `Counted` is the account behind the bound: the reruns of a build and the
  workers at it are no more than the jobs of it that are used up, plus the faults.
- `PlansAreKept`: `Behind`, if the two records of a subscription differ, a delivery is left that mends them when it is
  handled again; `Newest`, what is written comes from a notice that was claimed, and nothing handled is newer;
  `Reads` and `Off`, what a handler writes fits what it read, and a cancelled plan has its tenant off from
  before it is written.
- `CoverageStays`: `CoverageKept`, the part of `SelectionTrue` about coverage. A merge that no other save came between
  has loaded what is stored.
- `SelectionsAreTrue` (`SelectionInv`): between its two steps a selection has a finite set of known tests in
  hand, and a list of some of them, or of all if they fit (`Listed`); the rest is what its second step computes of them and the graph. The model walks the imports level by level with a fold; `TableExists` shows that there is a function with the
  values the fold goes through, by the least number for which there would be none. From a test the walk goes up what it imports
  (`LevelChain`), what is due is found from the changed files down (`ReachChain`), both equally far, so that they meet
  (`ChainFound`), and what is found scores at least the `Floor` (`AffectedScores`), which only a caller who asks for
  more can miss. The best `limit` of a set of tests are all of them when none is left out.
- `StatsAlwaysHonest` (`StatsInv`): `Remembered` says of what is stored that of observations known by the same only the last can be
  among it, and of what is not that it was old enough to be removed. `Honest` says what the counters have to do with a history, and is kept by one more
  observation. The store counts the new observations of a report one at a time, which is a fold again
  (`CountChain`), so it is kept by a report (`ReportCounted`), by one that was there before and by one that fails. The
  positions of executions stand in for the sequence of them, because what is true of a sequence picked out of another
  would need an induction over it. `GroupsAddUp` compares the failures of a page with those counted. Of a handler it says what it has read of the test and that an
  operator acted since, if what it read is no longer so.
- `FeedbackAlwaysHolds` (`VerdictInv`): a fingerprint has one entry per tenant (`OneEntry`), which is the word that was said
  last while that counts (`WordsKept`) and stems from a verdict of the same tenant (`WordsSourced`); what an analyst has
  in hand goes against no word (`InHand`). That nothing that is looked up makes a failure less external
  (`StillExternal`) compares sums of weights over sets of rules; what the proof needs of a sum, it shows
  by the smallest set for which it would fail.

Only model-checked:

- Liveness under fairness, which the prover does not handle: `EveryJobEnds`, `EveryNotificationEnds`,
  `ResolvedAtLast`, `EveryAcquireReturns`, `EveryCallReturns`.

Every other property of a run that passes has a theorem.

## 5. Plan

Modelling to come: the partitions and migrations of PostgreSQL if they gain concurrency.

## 6. Findings

`statefile_windows`: on Windows, when the old file cannot be removed after a replacement,
`replaceFileWithRollback` returns "replacement succeeded but rollback cleanup failed" (`db.go:434`).
The operation is undone in memory and reported as failed, and a restart brings it back.
`TestReplaceFileWithRollbackPreservesOriginalOnFailure` (`db_test.go:375`) requires of a failed call that
the original is in place; it tries a move that fails, not a clean-up that fails.

## 7. Not modelled

Text: rules and excerpts of the analyzer, message layout, reporters, prompts of the language model,
similarity, source context. Cryptography, XML and token formats: a signature or a key is good or not.
Addresses, headers and status pages of other systems. Migrations, partitions, health and the plain
reads of PostgreSQL; pages and reads of the HTTP API and of MCP; insights, which are sums over what is
stored. The other commands of the command line and the parsing of the configuration; benchmark, secrets,
guards and logging, which are pure helpers. They have little state, and what a model could say about
them is what a unit test says. `PROJECT.json` lists every component with its status.

## 8. Known behaviour that no property states

Met while modelling, and left as it is in the models or outside of their bounds. In the first four the code
does less than a document says; the models do what the code does, and the properties except just these cases:

- `docs/configuration.md:28` calls `max_log_bytes` the "Maximum decoded log size accepted for analysis". The answer of
  Buildkite is read up to that limit, decoded, and returned without being cut again (`connectors.go:934`): a byte
  that is not UTF-8 becomes three. `LogBounded` allows such a log three times the limit.
- `docs/connectors.md:62` says that an automatic rerun can run only when "the run has not already been retried by
  CI Radar". The record of it is read and written by two calls of the store, and the provider is asked after both
  (`worker.go:404`): of two jobs about one run, worked on at the same time, both may find no record and both ask.
  `RerunsFit` bounds the reruns of such keys (`overlapped`) by the jobs and the faults.
- `docs/postgresql.md:89` calls the ids of observations "idempotency keys" by which "duplicate deliveries are filtered
  before compact test statistics are updated". Retention deletes observations (`postgres.go:1263`, `1273`) and
  leaves the statistics; one that is reported again after that is counted again. `StatsHonest` lets an observation
  be in the history again once it is old enough to be removed.
- A selection that has to fall back on the full suite says that "the selected list contains every known test"
  (`selection.go:71`, `docs/test-intelligence.md:60`). It is made from a list of 5000 tests at most (`selection.go:22`,
  `quality.go:405`); the rest of a larger suite is neither selected nor counted as skipped. `SelectionTrue` speaks of
  the tests that were listed.
- The program does not see damage to the state file while it runs; the next write makes the damaged bytes
  the backup (`db.go:358`). The models damage the file only while the program is down.
- `decodeStateFile` fills the state before it looks at the version, so that the backup is decoded over
  what a refused main file left (`db.go:182`); an error of the directory sync is ignored (`db.go:374`).
- A notification that is suppressed because another with its key is in flight stays suppressed when that
  one fails for good (`db.go:1595`). A channel may be given ten attempts, its job has eight
  (`config.go:540`): then the record still says "retrying".
- A block of the failure limiter may become shorter when its failure window starts again
  (`ratelimit.go:303`); `LimitsKept` bounds its length from above only.
- A rerun record that says "requesting" stays so when the worker dies at that point; the rerun is not
  asked for again.

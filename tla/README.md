# A TLA+ verification of DataConnect

DataConnect collects a person's records with connectors and keeps them in a personal
server. Connectors that need the person's own machine run there, inside a *collector*, and
their records travel to the server through a durable outbox. Losing a record, storing it
twice, or moving a connector's cursor past a record that never arrived are the errors no
later run repairs: the next run starts from the cursor. This project models that path,
from the row in the collector's SQLite file to the accepted batch on the server, and what the
server does around it: the indexes it derives from records, the connectors it installs, the
grants and tokens under which clients read, and the events it sends them.

All paths below are relative to the repository's root.

## The system

| Part | State it keeps | Operations | What makes it hard |
| --- | --- | --- | --- |
| local device outbox, `packages/collector-runtime/src/local-device-outbox.ts` | rows with status, lease (holder, epoch, expiry), attempts, retry time; the ledger of superseded terminal commits | enqueue, claim, renew, acknowledge, fail, dead-letter, recover, requeue, prune, retire | several processes on one file; statements that act on what an earlier SELECT saw; leases that end by the clock |
| collector drain, `packages/collector-runtime/src/collector-runner.ts` (`runCollectorOutboxDrain` and below) | the claimed batch, in memory | peek, claim, renew, send, acknowledge or fail, wait | crashes and lost answers between the server's effect and the acknowledgement; a clock that moves between two checks; commits that must not overtake records |
| collector run, same file (`runCollectorConnector`) | the connector child, staged state, gaps | scan, checkpoint, gap recovery, heartbeat | partial failure of a run |
| device ingest, `reference-implementation/server/routes/ref-device-exporters.ts`, `stores/device-exporter-store.ts` | one reservation row a batch: body, durable prefix, facts, status | reserve, refresh, ingest a record, repair, complete, answer | two processes on one database, retries, deadlines, manifests that change under a batch |
| record store, `records.ts`, `postgres-records.ts` | current rows, history, derived indexes | ingest, query, index maintenance | an index computed outside the transaction that publishes it |
| write coordinator, `connector-instance-write-coordinator.ts` | keyed gates, admission slots, ownerships | acquire, hand over, time out, release | hand-over against timers; the order of two gates |
| search indexes and dirty scopes, `search.ts`, `search-semantic.ts`, `search-index-dirty-store.ts`, `search-index-reconcile.ts` | derived entries; dirty mark, revision, backoff, park; jobs in memory | mark, publish, check, rebuild, backfill, clear, park, re-arm | an entry computed before a write and published after it; a clear that races a new mark; writers and workers of a storage generation that is gone |
| connector install, `connector-install/`, `server/index.ts` | record, published tree, journal, marker and aside tree on disk; registry in memory; activation and instance rows | install, update, reuse, compensate, uninstall, recover | crashes between two renames; a deadline that fires in the middle of a commit; a run or a connection that begins during an uninstall |
| authorization server, `server/auth.ts`, `routes/as-consent.ts`, `routes/as-oauth.ts` | consent request, codes, grant, tokens, refresh family | decide, redeem, rotate, revoke | transactions that lock rows one after the other; codes presented twice; reuse of a spent token during a revocation |
| terminal run commit, `stores/terminal-run-commit-store.ts` | receipt event and connector state | commit, replay | two writes that must be one |
| client event delivery, `client-event-delivery-worker.ts` | delivery queue, subscription status | enqueue, claim, deliver, retry, disable | status read before the request and used after it |
| controller and scheduler, `reference-implementation/runtime/controller.ts`, `runtime/scheduler/` | the claim of a run on its connection, in memory and as a row; promises, watchdogs, settled runs; backoff, cooldowns, attention | admit, launch, wait for a browser surface, watch, clean up, continue, restart | two records of one claim; cleanups nobody waits for; children that hang; admissions without the lock; policy spread over many tables |
| browser surface leases, enrollment, connectors, CLI, desktop and console | | | listed in `PROJECT.json` with the reason they are not modelled |

How they meet: a run of the collector scans a source and *enqueues* record batches, gaps and, at
its end, a checkpoint or terminal commit. The drain *claims* rows, *sends* them over HTTP and
*acknowledges* them. The server turns a batch into an *attempt* that shares the reservation row
with every other attempt for the same batch identity. The answer is a callback into the drain,
which may have died, lost its lease, or given up waiting.

## Modules

| Module | Models |
| --- | --- |
| `DeliveryObligations` | what an outbox promises: an obligation is owed until it is delivered and forgotten only afterwards |
| `LocalDeviceOutbox` | the outbox, statement by statement |
| `CollectorDrain` | extends the outbox with the drain loop of each process, the server's answers and crashes |
| `BatchPromise` | what a batch identity promises: it stands for the first body that took it, whose records take effect in order, and "accepted" is said of that body only, after all of them |
| `DeviceIngest` | the server's attempts at one batch |
| `WriteCoordinator` | the gates a writer of a connector instance passes in the server |
| `ClientEventDelivery` | one client event subscription, its queue, and the workers that deliver it |
| `SearchIndex` | the records of one stream, its lexical and semantic index, and what keeps them together |
| `ConnectorInstall` | one connector on the server: its files, its registration, and who uses it |
| `GrantTokens` | one consent request, the grant it becomes, and the tokens under that grant |
| `ControllerRuns` | the run slot of one connection: who may run, and who gives it back |
| `CollectorDrain_proofs` (the outbox and its drains), `DeviceIngest_proofs`, `WriteCoordinator_proofs`, `ClientEventDelivery_proofs`, `SearchIndex_proofs`, `ConnectorInstall_proofs`, `GrantTokens_proofs`, `ControllerRuns_proofs` | theorems |
| `MCLocalDeviceOutbox`, `MCCollectorDrain`, `MCDeviceIngest`, `MCWriteCoordinator`, `MCClientEventDelivery`, `MCSearchIndex`, `MCConnectorInstall`, `MCGrantTokens` | the instances TLC checks |

A definition named `Mutant` in its comment is a plausible bug of the code above or below it; it is
used by no specification. Replacing the definition it imitates by it breaks the property that
`PROJECT.json` pairs it with.

### LocalDeviceOutbox

`rows` is the table, `superseded` the supersession ledger. `candidates`, `claims` and `doomed` are
what a process holds between two statements: the rows `claimReady` has selected and not updated, the
leases its drain loop has to work off, the identifiers `pruneSent` is going to delete. A holder is one
drain with a fresh UUID; that is what makes the fence on holder *and* epoch effective, since
`claimReady` writes an epoch it read before, and two claims may write the same one.

A fenced UPDATE takes its clock reading along and is one step. SELECTs whose result is used by a later
statement are steps of their own (`SelectReady`, `SelectPrunable`). `requeueDeadLetters` also selects
first, but its UPDATE tests the status again, so that it comes to requeueing some subset of the dead
letters: `RequeueDeadLetters(S)`. Two observable consequences are kept: a candidate selected before it
failed may be leased while it backs off, and an identifier pruned and enqueued again is a new row with a
new insert order.

Abstracted: payloads, hashes and error texts; one source instance; the kind of a row is a function of
its identifier; `attempt_count` saturates at `AttemptCap`; one prune at a time. Time is not counted: a
lease may expire and a backoff may elapse at any moment. Left out: schema migration, the index of
observed streams, backup, compaction and the read-only summaries.

### CollectorDrain

`pc` says where a drain is in `runCollectorOutboxDrain`; its other steps are the actions of the outbox.
`accepted` is the set of rows whose effect the server has, and `refused`, for one property,
the rows that have failed in a way that is not retryable. `StartRun` and `RecoverLeases` are what
`runCollectorConnector` does before it drains. Waiting for a retry is going round the loop. `Scan`, the
enqueueing of rows, is an environment that may run at any time, as the connector does while draining.

What the model shows that is easily missed: a checkpoint at the head of the queue that is held back
hides every row behind it from the drain; `blob_upload` rows hold no commit back.

### DeviceIngest

`outcome` is the reservation row, `records` the rows of the keys the batch touches with the facts they
were derived under, `facts` the manifest fingerprint and semantic capability in force, `attempt` what
each request holds in memory. Requests of one process take turns (`Begin`); requests of different
processes meet in the database only. `written` counts how often each record of each body was written,
`answered` the bodies answered "accepted"; both are there for properties.

Insert and re-read of a reservation are two steps, so are the refresh of its facts and their re-read. A
deadline strikes only after an attempt has ingested one record, and never an attempt that finds every
record durable: that is the code's own cure for a batch that could not be completed in time.
Revocation of the connector instance, and every other error, is `Fail`. Index maintenance after the
answer is left out.

### WriteCoordinator

`pc` says where a call of `withConnectorInstanceWrite` or its control-plane variant is; `held` and
`keyWaiters` are `keyedGates`, `active` and `slotWaiters` the admission counter and its queue, `owners`
the live ownerships. Every stretch of code between two awaits is a step. A hand-over resolves the first
waiter's promise and leaves the counter, or the gate, as it is; the waiter goes on in a step of its own,
so that arrivals and timers come in between. A timer that fires takes its waiter out of the queue in the
same stretch. Abstracted: how long a timer runs (any time), what an operation does, and whether it
succeeds: the `finally` block is the same. Nested calls with a live ownership pass no gate and are part
of the operation they run in. The advisory lock that excludes other processes is a different mechanism,
taken per transaction, and is not part of this module.

### ClientEventDelivery

`status` is the subscription's, `queue` has a row for every event, `due` is the order in which pending rows
came due, which is the order of the claim. `tick` is a worker's tick: the rows it claimed, the
subscription's status as claimed with them, and the outcome of the last request. `job` is an operation in
progress: each is a load and then a list of statements (`Plan`), decided by what was loaded (`Admits`). The
worker's follow-up after an outcome is an operation of the same form, `verified` or `failed`.

A `Scenario` is a backend with the requests and bounds of one life of a server; a run checks several at once, and the variable
`scenario` never changes. The two backends differ: SQLite deletes dropped rows where Postgres marks
them, and its statements are synchronous, so that an operation, or the worker's code from an answer to
the next request, runs through. On Postgres every statement is awaited. Revocation marks the grant before
its hook runs, and from then on no client request passes its authorization; those under way go on.

Abstracted: an event's type is `verify`, `notice` or `record` (test and record events are treated alike);
outcomes are the kinds of `executeDelivery`; retry times are "not yet" and "now". A 2xx answer without the
right challenge is a failed attempt, as in the code. A request is one call, and has at most one event. Left
out: secret rotation, signatures, scopes and the derivation of events, the attempt log, starting and
stopping the worker, and errors of the database in the middle of a tick, which end it as `Crash` does.

### SearchIndex

`rec` holds the records with their versions, `index` the entries of the lexical and the semantic index,
`meta` the fields, and the backend, each was built for, and `mark` the stream's row of `search_index_dirty` with its revision.
A write stores the record and marks the stream in one transaction and appends a job to `jobs`; the job reads
the manifest, awaits the embedding, and publishes in a transaction that compares version, manifest and
backend again (`IsCurrent`, `Computed`). Two workers go through whole indexes: the reconcile, which lists the
marked stream, checks or rebuilds both indexes, and clears the mark only under the revision it listed; and
the backfill after a start or a registration, which clears nothing. `backend` is the embedding backend: its
number (an attempt that awaits is fenced by the object) and its identity, or `None`, which is hashed into every
semantic entry and stored in the meta, so that an index another backend has built matches nothing. A backend comes
with a start, and no start marks anything because of it. A start is either a new process (`Crash`), or `Reopen` and then
`ConfigureBackend` in the same one: `gen` counts the times the storage was closed and opened, perhaps on another
database, and jobs and workers survive that in memory. Requests are served once the backend is configured
(`Serving`). `due` is a start under way, or the backfill that is to begin, or that has failed.

A page of records is one record. The second pass of a check is one step. Jobs run one after the other; one
backfill runs at a time and reads the manifest when it begins, while in the code a registration passes its
own. A fresh database keeps the manifest.
`unmarked` is there for two properties: a registration over HTTP marks nothing, nor does a start with another backend
over a clean mark, so that `CleanMeansInSync` leaves out the index whose fields or whose backend has changed, and
only that one, until something marks the stream again. `IndexesConverge` leaves such a lexical index out; a semantic
one only when its backfill has failed, which nothing repeats. Not modelled: progress rows,
fields declared by an attempt's context, the bytes of embeddings and the inventory of the vector table, empty
field values, and signals that abort a job.

### ConnectorInstall

One connector and its versions. Durable are the rows (`active`, `registry`, `connection`) and the data
directory (`disk`, the trees put `aside`, `marker`, `journal`); the lock, the operation in progress and the
admitted run are memory, and end with a crash. Each rename, write and removal is a step, a crash may come
between any two, and the start that follows recovers by journal and marker as the code does (`boot`), and may
crash again. `Admit`, `Launch` and `Connect` are the runs and connections that take the same lock. It is reentrant by
asynchronous context, so that what a run starts in its own (a continuation, or a run that waited for its surface) is
admitted without it: `AdmitInside`, which may come long after, in the middle of an update or an uninstall. `entry` says
how a run was admitted; the properties promise nothing to one that was admitted inside. The deadline of
an install may pass at any moment; later than the wait for the lock it only asks to stop, at the points where
the code looks. `gone` and `drift` are there for properties: what the caller was told last, and whether one of
the known causes has parted the registry from the active record.

A catalog entry may lack the digest of the config (`Configured` are those that have it); `readVerifiedRecord` then
takes no tree for readable, so that one without a record is removed and staged anew, and one that an update could
reuse is refused (`Refuse`, `Reuse`, `Stage`).

Assumed: removing a file and renaming back do not fail; connectors of the catalog are publicly listed; the
activation row goes with the record. Corrupted content is modelled as a file that is lost. The look at the marker
and the insertion of a run's row are one step, as on SQLite. `Disconnect` has no guard on runs: the look at them comes
before an await that a run may come in during. One connection, and one run or admission at a time; the start that the
model begins with has listed its installs (there are none).

### GrantTokens

`db` is what is committed, `held` what each open transaction has locked together with what it will commit,
`todo` the rows that a multi-row `UPDATE` has selected and not yet reached. The model is Postgres at
READ COMMITTED, statement by statement and row by row: a statement sees what was committed when it began,
waits for a locked row, and tests its condition again. Rows of one statement are visited in ascending order.
`FOR SHARE` is treated as exclusive, which changes nothing here: two redeemers of one code meet on its row
before. SQLite's transactions are a subset of these interleavings. A request may lose its connection at any
point (`Lost`); what it has not committed is rolled back, and the client learns nothing.

`decide` stands for approval and denial. How a token is delivered depends on the request (`path`): an authorization
code, an exchange code, or a poll with the device code. The latter two may also be answered with the token
itself (`DeliverToken`), and a request of the device flow that is approved on the HTML page mints an exchange code as
well. `redeem` stands for the three ways to the first token, `rotate` for the
exchange of a refresh token, including the response to reuse (the family is revoked), `revoke` for the
revocation of the grant. Every redemption of an authorization code is modelled as one that issues a refresh
token. Packages of grants (same order of locks), deletion of clients, the owner's device flow, expiry,
validation of requests, single-use grants and the journal of events are left out, and so are the proofs of recovery:
an exchange code bound to one may be answered again to the bearer of that proof (`auth.ts:11204-11209`), and
`RedeemedOnce` speaks of codes without one. Left out, too, is the copy of the token that is kept for an agent's
connect attempt (`routes/as-agent-connect.ts:1071`).

How the code works, seen while modelling it: an authorization code may be answered with tokens after a
revocation has committed (the check and the consumption are separate; the token is inactive by then);
the revocation's first statement can miss a generation, or a token, that another call inserts while it runs,
and both are fenced by the status of the grant; two approvals at the same time may leave two consent exchange
codes open; a client that retries a rotation whose answer was lost revokes its family, by design
(`RefusalEndsFamily`). The refusals that say nothing of the family, of a token that is expired, unknown, or
another client's, are not in the model; a call whose connection is lost is not refused, and is rolled back.

### ControllerRuns

`activeRun` and `row` are the two records of who runs: the entry of `activeRuns` and the row of
`controller_active_runs`. `tracked`, `settled`, `newest` and `timer` are the controller's other maps, `clears` the
deletions of the row that `finalizeRunCleanup` starts and does not wait for, `ended` the runs whose end the
event spine has. `pc` follows a run through its admission, its child and its end. A step reaches up to the next
`await` another step could matter to.

`Start` takes the connector's lifecycle lock and checks the memory; `ReadRow`, `Judge` and `Register` are the
durable check and the insertion, and the lock is held up to the launch. It is reentrant by asynchronous
context (`connector-lifecycle-lock.ts:252`), and what a run starts in its own context counts as holding it long after it
was given back: recovery continuations, and the launch of a run that waited for the surface the
first run releases. These are `StartInside`, and need no lock. `Fire` and its two successors are the watchdog,
which looks for any entry of the connection. `Reserve` is an attempt of the scheduler, which knows only the
row. `Restart` forgets the memory, keeps waiting runs (their lease is stored), and is about to delete the row
it finds; `run.abandoned`, which the start writes, carries no connector instance, so that `runAlreadyTerminal`
never sees it.

`taken` is there for two properties: whether an admission has taken the entry of the run that has the row.
Left out: the scheduler's policy, cooldowns and retries, the attempt watchdog, cancellation by the owner, admission of
source webhooks, and the surfaces themselves, which a run gets, waits for, or does not get. Database answers are
not lost: a statement fails or it works.

How the code works, seen while modelling it:

* An entry is judged stale when its run is settled or has no promise. By design that should find entries left
  behind; but marking and deleting are one stretch of code, so that every entry the judgement ever takes belongs to a live run
  (`EntryTakenOnlyInAGap`): one that is registered and not launched yet, met by an admission without the lock, or
  one that waited for a surface (the finding below). In the first case the run, if it gets no surface, finds no entry
  to clean up and leaves the row: the connection is blocked until the next start, without any failure.
* A run that ends early (no surface) writes no terminal event, so that its row is not recognised as stale when
  its one deletion fails. After a hang, two failures (of the terminal event and of the deletion) block the
  connection; after a start, the one failing deletion of the old row does so until the next start.
* The generation fence (`controller.ts:4561-4573`) guards the terminal event of a run that throws, and nothing
  else: a superseded run that returns goes on to its continuation.

## Runs

| Run | Instance | Question |
| --- | --- | --- |
| `outbox` | 2 holders, 2 terminal commits of one boundary, 2 epochs, 3 insert orders | Do lease discipline, insert order and the delivery promise survive every interleaving of statements? Does a retired commit stay retired? |
| `drain_one` | 1 drain; a batch, a gap, a checkpoint and a terminal commit; 2 faults | Does a commit ever overtake its records? Is what is acknowledged always accepted? Does it leave work it could have done? Is every row delivered once the faults end, if they are retryable? |
| `ingest_race` | 2 processes, 2 bodies of 3 and 2 records over 2 keys, 1 change of facts, 1 fault | Is every record written once, and the batch promise kept? |
| `ingest_turns` | 1 process, 2 attempts, 1 body, 2 changes of facts, 1 fault, any number of deadlines | Is an accepted batch free of older facts? Is it answered in the end? |
| `writer_gates` | 7 calls for 4 instances, 4 of them for one and one of these of the control plane; 1 slot, queues of 2 | Are instances exclusive? Is a gate or slot ever lost, granted twice, or taken past a waiter? Does every call end, though no timer need fire? |
| `events` | 1 process, 2 failures; Postgres with create, test, disable, enable, delete and no crash, or SQLite with create, operator's disable, enable, two revocations and 1 crash | Is an event the receiver took ever sent again? Does the handshake count, and every event come to an end? On SQLite, does a subscription keep to its lifecycle, and is a revocation announced once, and truly? |
| `install` | 2 versions, one of them with a config digest; 2 faults and 2 crashes, 3 together; install, update, uninstall, a run with or without the lock, a connection | Is a tree put aside only under a journal, and what is in use under the lock installed? Do registry and active row agree? Does recovery keep what was reported, and a failed update the version that ran? Does the server come to rest? |
| `index` | 2 records, 2 fields, 2 manifests, 2 identities of a backend; 2 storage generations; 3 events, of which 2 may be writes | Is a stream whose mark is cleared in sync? Is anything stale ever published, or written by a storage generation that is gone? Do the indexes converge? |
| `grants` | all 3 ways of delivery; 2 decisions, 2 redemptions, 3 rotations, 1 revocation; 1 lost call | Are refresh generations a chain, and does a refused rotation end the family? Is a code or generation redeemed once? Does a revocation ever come between the check and the commit of a rotation or of an exchange code? Do calls wait for each other in a circle? |
| `controller` | 2 runs, 2 failing statements, 2 restarts; any number of hanging children | Does a run that was not given up own the row? Who may take an entry? Does the slot come free in the end? |
| `events_revoke_race` | Postgres, 1 process; create, revoke, test | (violation) the revocation that is overwritten |
| `controller_hang` | 2 runs, no failure | (violation) a run that its watchdog does not end |

Bounds. Two holders are enough for every race on one row, since a row has one lease at a time and a
third holder could only repeat what the second does. Two epochs let a lease be lost and taken again;
in the drain runs the epoch never reaches its bound, as it grows only by a fault. Three insert orders
let a row be pruned and enqueued behind another. The two bodies of the ingest runs differ in length, one
writes a key twice (so that the last record of a key is not its first) and one deletes a key and writes
it again. In `writer_gates` four calls for one instance are one at its gate, two in its queue and one
refused; the other three instances take the slot and fill the queue for it, so that the first one is
refused the slot while it holds a gate others wait for. In the event runs the backoff table has two
entries, so that a row fails once for a retry and once for good; the claim takes every row. In `install` two
versions let an update fail over an installed one, and two crashes let recovery itself be interrupted. In
`index` one write makes the publication of another stale, and three events are two writes and one disturbance
(a manifest, a failure, a crash, an exchange of the storage, a park), or one write and two, in any order; a start
with a backend of another identity counts as two. The theorems cover longer histories. In `grants` three rotations are one that
succeeds, one that reuses its generation, and one of the next generation; calls of one kind are alike, so
`BeginInOrder` looks only at the orders in which they begin by rank. In `controller` two runs meet in every gap of an
admission; three runs were checked by hand, for safety with one failure and one restart (7.4 million states) and
for liveness without (1.1 million), and the theorems cover any number. Faults are bounded because a run must
end; two are a crash and a second failure on the way back. `CHECK_DEADLOCK FALSE` is there because the systems really stop: all rows
delivered, every drain off, or all requests over and the bounded changes used up.

Fairness. `drain_one` assumes that the machine's timer starts runs again, that a started process takes
its steps, that the server or the network eventually answers, and that clocks advance past leases and
backoffs. It assumes nothing of scans, crashes or budgets. `ingest_turns` assumes that the collector keeps
sending a batch it has no answer for and that a request that has begun goes on; deadlines may strike
whenever the code lets them. `writer_gates` assumes that promise continuations run and that
operations settle; it assumes nothing of timers or arrivals. `events` assumes
that the worker's timer ticks, that requests are answered or time out, that an operation that has begun
goes on, and that backoffs end; requests need never come. `install` assumes that the event loop runs, that
the deadline's timer fires, and that a stopped server is started again. `index` assumes only that the
process does not stop while something in it can run. `grants` assumes that a call that has begun goes on
whenever the rows it waits for are free; calls need never begin. `controller`
assumes that an admission and the ending of a run go on, that timers fire and that deletions come to an end; it does not
assume that a child ever ends, that a surface ever comes, or that anybody asks for a run.

## Findings

1. **A revocation may be overwritten** (`events_revoke_race`). On Postgres the worker's follow-up writes a
   status it decided on before the revocation was written: the revoked subscription is active again.
   On SQLite `events` shows that it cannot happen within one process; two processes on one file have it as well.
2. **A run may hang for ever in spite of its watchdog** (`controller_hang`). A run that had to wait for a browser surface is
   cleaned up when it begins to wait, and thereby marked as settled for good. Launched under the same run id when the surface
   is there, it is taken for stale by the next request, which deletes its entry and is itself refused by the row. If
   the child then hangs, the watchdog finds no entry and does nothing, and every later request is refused until
   the process restarts.

Some runs are confined to instances where their property holds. What happens beyond them is how the code
works, and worth knowing:

* `drain_one` has one drain, as `local-collector.md` advises. With two on one outbox `CommitNeverOvertakes` fails:
  `claimReadyOutboxItems` (`collector-runner.ts:2709`) inspects the head of the queue and claims by a second
  statement; when another process takes that head in between, `claimReady` returns the next commit, which nobody
  inspected.
* `ingest_turns` has one server process. With two on one database `AcceptedUnderCurrentFacts` fails: the
  repair of skipped keys does not test the reservation's facts, so that an attempt compiled under an older
  manifest may repair after a newer one did and before that one completes.
* `HandshakeCounts` exempts crashes: the queue row is delivered first and
  the subscription activated second, and nothing tries again.
* `events` claims every due row. On Postgres a claim takes the first 100; rows that wait for
  verification are skipped but stay first, and so many of them would keep the verification itself
  waiting: with `ClaimLimit = 1`, `EveryEventSettles` fails.
* `events` has one process; that two processes settle every event is not checked.
* `grants` has one revocation at a time. Two of one grant can wait for each other in a circle with a rotation.
  Both run their statement over the refresh rows before a code exchange inserts the first one; the first
  revocation also updates the first token, a rotation supersedes the first generation and a second rotation
  locks the next; the first revocation commits; the second locks both tokens and waits for the grant, which
  the second rotation has locked and found revoked, and which now waits for the tokens it is about to
  revoke. Postgres ends one of them with an error. This is against the comments at `auth.ts:12443` ("Lock
  refresh rows, tokens, then the parent to match refresh and consent redemption") and `auth.ts:8419`: the way
  out of a rotation that finds its grant revoked takes the grant first.
* A start with another embedding backend marks nothing (`search-semantic.ts:1258`). A stream whose mark is clear
  has a semantic index of the earlier backend until the backfill of that start has rebuilt it; when that fails, until
  the next start or the next mark. In between the server reports its index as stale or building
  (`computeIndexState`).
* `IndexesConverge` and `CleanMeansInSync` leave out an index whose fields a registration over HTTP has changed. After
  one, the publication of a single record stores the new declaration before the backfill, which compares it
  and only counts the entries, has looked; other records stay indexed under the old field, against the
  comment at `search.ts:1637-1643`.
* Resets of a stream and deletions of a connection are not modelled. A reset deletes the version counter, so
  that a publication pending at version 1 may publish the old text (`records.ts:2733`); deletion drops the
  mark, and its revision starts anew, against `search-index-dirty-store.ts:38-39`.
* `RegistryAgrees` exempts the causes that `drift` names. One needs no failure: the scan of installed
  manifests after a start (`polyfill-manifest-reconcile.ts:334`) lists active installs, and registers them
  later and without the lock, so that it may write the old manifest over a completed update, which stays
  until the next start.
* A journal that is left behind (the marker exists already, or putting back the record failed) makes the
  next start restore the earlier record over whatever was installed since. A connector that is active and
  marked without a journal, after a crash in a reinstall, answers "not installed" until it is installed
  again. A complete published tree without a record blocks the install of that digest, deliberately
  (`connector-install/index.ts:896-910`), if the catalog entry names a config digest; otherwise it is removed and
  staged anew. An incomplete one, or any without a config digest, blocks an update to it.
* A run that is admitted in the context of an earlier one does not hold the lifecycle lock
  (`connector-lifecycle-lock.ts:252`, `controller.ts:4657`). During an update it may take the new entrypoint while
  that is active, and a compensation (`connector-install/index.ts:747-754`) then removes the tree it executes. When its
  connection is deleted meanwhile, and its row is inserted between the two looks of an uninstall
  (`server/index.ts:8476` and `8488`), the connector is uninstalled under it. `InUseIsInstalled` and `GoneStaysGone`
  speak of runs that were admitted under the lock.
* Retryable failures are counted as attempts, although they never dead-letter a row (`EveryRowDelivered`):
  a later failure of another class finds less of its budget left.

## Theorems

Proved for every value of the constants, from the assumptions named in the modules (finite sets of
identifiers, numbers that are naturals, a null value outside the holders, versions and journals):

* `TypeCorrect`, `InsertOrderTotal`, `RetiredForever`, `LeaseIsExclusive` and
  `OutboxImplementsObligations` of the outbox.
* `IngestTypeCorrect`, `ExactlyOnce`, `IngestKeepsPromise` of the ingest, and `AcceptedFacts`, which
  assumes a single server process.
* `CoordinatorTypeCorrect`, `WritersExclude`, `NothingEverLost` and `NobodyOvertakes` of the write
  coordinator.
* `DrainsKeepPromises`, `DrainTypeCorrect`, `AcknowledgedIsAccepted` of any number of drains, and
  `OneDrainKeepsOrder` and `OneDrainEndsDone`, which assume that there is one. (With two, a row of one's own may be
  put to wait by the other, between the two looks that the argument is about.)
* `DeliveryTypeCorrect` of the client event deliveries with any number of server processes, and `NothingSentTwice`,
  `NoticesFollowRevocation` and `SqliteKeepsLifecycle`, which assume a single one. The last two are about SQLite: there one
  process runs each operation through, but two processes on one file interleave statement by statement, as on Postgres.
* `IndexTypeCorrect`, `CleanIsInSync`, `NothingStalePublished` and `GenerationsFenced` of the search indexes.
* `GrantTypeCorrect`, `FamilyStaysAChain`, `RefusalsEndTheFamily`, `CodesAreRedeemedOnce` and `HandedOutUnderTheLock` of the grants, and
  `NobodyWaitsInACircle`, which assumes that there is one revocation: with two it is false (Findings).
* `InstallTypeCorrect`, `MovedTreesAreJournaled`, `UsedStaysInstalled`, `UninstallIsFinal`, `RegistryFollows`,
  `RecoveryIsDecided` and `InstallsKeepRunnable` of the connector install: every safety property its run checks.
* `RunTypeCorrect`, `ClaimsAreHeld`, `OneRunClaims` and `EntriesAreKept` of the controller.

The type invariants of all components are proved and not run: their enumeration would only repeat that.

The arguments. A lease is exclusive because no step but those of its holder changes the status, holder or
epoch of a row whose lease is current: claims test for `ready`, recovery for `expired`, pruning for
`succeeded`; the invariant `TypeOK` is what ties holder and lease to the status. Insert orders are total
because a new one is above all stored ones. A retired commit stays because no requeue admits its kind.
For the ingest, the invariant says of each point of an attempt what its memory implies about the
reservation: an attempt that ingests has the reserved body and a prefix that was durable when it was
read; the compare on the prefix then makes each write the next one. For `AcceptedFacts` a stronger
invariant is needed: of every key the attempt in progress has passed, the row is either someone else's or
carries the attempt's facts, which holds because no second attempt of the process can be past its turn.
The properties of the coordinator are inductive together with one fact about its queues: each holds
exactly the calls that wait there, once each. The count of slot holders is followed through every step
by the theorems on the cardinality of finite sets; `NoOvertaking` follows, since a queue is never longer
than empty while its gate or a slot is free.

Every step of a drain is a step of the outbox or none, which gives the drains all that is proved of the
outbox. A row succeeds only by an acknowledgement, and a drain acknowledges only with an answer in hand for a
row the server has taken in; a crash discards the hand, never the acceptance. With a single drain the row
that is inspected at the head is the row that is claimed; once no earlier record or gap is owed, none becomes
owed again, since drains delete nothing that is undelivered and new rows come behind. That a drain leaves nothing
it could have sent is a matter of the order of its last two looks, first for rows that back off and then at the
head: a row may become ready between the two, but then the second look sees it, and none begins to back off, since
only a claimed row fails. What is ready at the end therefore stands behind a head that may not be claimed yet
(`LookedForBackoffs`); the head is the smallest of finitely many insert orders, which `InsertOrderIsTotal` makes
unique.

For the deliveries the invariant counts how often each event was taken: a row that is open, or that the worker still has
to send, has not been taken since the last crash, unless its success is about to be recorded (`AcksOK`). A single process makes
this inductive, since a second one could claim what the first has in hand. On SQLite at most one actor of a process is
midway at a time, because its statements are synchronous, and with one process that is everyone: what an operation has loaded still holds when it writes
(`SqliteOK`), which is what Postgres lacks in `events_revoke_race`. `NoticeMeansRevoked`
and `SqliteRespectsLifecycle` speak of scenarios on SQLite alone.

For the indexes the work is in one lemma, `NotOvertaken`: a round whose revision still stands when it
completes was not overtaken, because whatever changes what an index should hold (a write, an install, an
exchange) also changes the revision or fails the fence. Under that, the invariant says what of the index a
worker has already proved at each of its points, by the backend it began with, and publications keep it, since what they publish is current.

For the grants the invariant says of each point of a call which rows it has locked, what it is going to
commit there, and how that relates to what is committed; no row is locked twice, so that the commit of one
call leaves the others' relations alone (`Bystander`). A rotation commits with its generation active, which
by the chain means that no newer one exists. While a family is being revoked its advisory lock keeps new
generations out, so that the rows a statement has selected are all there are (`Covers`). The commit of a
revocation turns active rows into revoked ones and nothing else. That a refused rotation leaves nothing that works
needs one thing more (`EndInv`): once a generation is revoked no token of the family is linked, because whoever
revokes generations goes on to the tokens before it commits, and no token is linked meanwhile (`Sweeps`, `Grows`).
The rotation that finds its own generation revoked therefore finds the family ended. A second success of one code would need the
code unspent at its commit, and the first success spent it. That nobody waits in a circle follows from how
far each call is along a common order (`Rank`): exchange codes in ascending order, the code and the generations, tokens in
ascending order, the grant, and nothing more. A call that waits is behind the one that has the row (`WaitsForHigher`), so
that of any calls the one that is farthest waits for none of the others; a call that has not begun holds nothing and is in no
circle. One path leaves the order: a rotation that has locked its grant and found it not active goes back to
generations and tokens. The invariant shows why that is harmless: nobody who could then wait for the grant holds one of them,
for the only revocation is over (`Parent`), and another rotation would need the lock of the family. That a call whose needs
are free can go on is a matter of `ENABLED`; TLC checked it on the instance of `grants`.

For the install the invariant follows the lock: who has it, and at which point of an install, an uninstall or a
recovery what is on the disk and in the rows. An install that has the lock has, at every point, either the tree that
could run before or the one it has verified (`InstallInv`), and never touches the tree a run executes that was
admitted under the lock; an
uninstall that is past its check is alone, and its journal holds exactly the trees there are (`UninstallInv`);
a recovery has decided by the active row, and its journal is there until its last step (`BootInv`). The other
properties follow from these parts, `RegistryAgrees` with the registry of the version a compensation returns to.

For the controller `ClaimHeld` is not inductive: a deletion of the row that nobody waits for might be that of an
earlier life of the same run. The invariant adds that as long as a run is on its way to its row, a pending
deletion under its name means that the row is still the old one, so that the insertion it needs fails; and that
the entry of the memory names the newest run, at a point where it is tracked or about to be. `OneRunClaims`
follows since there is one row.

Every safety invariant and every action property that a passing run checks is stated by a theorem, where needed with
the same restriction to one drain, process or revocation that the run's instance has. Only model-checked are the liveness
properties: `EveryRowDelivered`, `EventuallyAnswered`, `EveryCallEnds`, `HandshakeCounts`, `EveryEventSettles`, `ComesToRest`,
`IndexesConverge`, `NobodyWaitsForever` and `SlotComesFree`. Liveness under fairness is out of the prover's reach; of
three of them the safety part is proved: a drain ends with nothing it could send, calls never wait in a circle, and no
gate, slot or waiter of the coordinator is lost.

## Plan

1. `CollectorRun`: a run's partial failures, gaps, checkpoint staging and the terminal commit
   (`terminal-run-commit-store.ts:170`, one transaction with a replay check), composed with the drain.
2. The scheduler's policy: backoff, cooldowns and attention, over the run slots of `ControllerRuns`.
3. Proofs that go with these two; and of the present modules what liveness rests on, such as that a mark which is not
   cleared is either parked or taken up again (`SearchIndex`).

## Not modelled

`PROJECT.json` gives a reason for each part. By far the largest share of the repository is code whose
correctness is not a matter of states and interleavings: page scrapers and parsers for some dozens of
providers, React views of the desktop and the console, read models that assemble reports from many tables
(`ref-control.ts`), validation of requests and manifests, and two storage layers that state the same tables
in two dialects of SQL. Modelling them would restate them. Left are components of the kind modelled
here, which the plan names; the modules cover the lines that decide, and not the modules around them.

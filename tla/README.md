# Verification of RCAT PDF Hub

TLA+ specifications of the parts of RCAT PDF Hub in which several processes meet
on shared state: the API, the RQ workers, the webhook dispatcher, the cleanup
worker, the operator's recovery command and the two services beside the workers, over PostgreSQL,
Valkey and a local or S3 object store; and of the tables and conversions that were written in several places
and have to agree. TLC checks the specifications on small instances, and TLAPS proves every safety
property of the passing runs for every value of the constants, under the hypotheses that section 4 names.

Paths below are relative to `src/apps/api/app/` unless they start with `docs/`.

## 1. The system

| Component | Code | State | Operations | Speaks to |
|---|---|---|---|---|
| Job API | `routers/pdf.py`, `routers/jobs.py` | `JobRecord` | create, cancel, retry, clear history | PostgreSQL, RQ |
| Worker | `worker_tasks.py`, `write_journal.py`, `worker_heartbeat.py` | `JobRecord`, `FileRecord`, `JobOutputArtifact`, `ArtifactWriteJournal`, objects | claim, progress, store, publish, compensate, fail; lease renewal in a thread | RQ, PostgreSQL, store, webhooks, Paperless |
| Lease recovery | `lease_recovery.py` | `JobRecord` | inspect, apply | PostgreSQL, RQ |
| Queue policy | `queue.py` | RQ queues | enqueue, routing table | Valkey |
| Webhooks | `webhooks.py`, `webhook_runner.py`, replay in `routers/admin.py` | `WebhookDelivery` | queue, dispatch, retry, dead-letter, replay | PostgreSQL, receivers |
| Files | `routers/files.py`, `storage.py` | `FileRecord`, objects | upload, retention, delete, bulk delete | PostgreSQL, store |
| Cleanup | `cleanup.py`, `cleanup_runner.py` | `FileRecord`, objects | purge expired files | PostgreSQL, store |
| Policy | `policy.py` | `ServicePolicy`, rate buckets | rate limit, daily and storage quota | PostgreSQL, Valkey |
| Credential hand-off | `services/pdf_unlock_handoff.py`, `services/pdf_protect_handoff.py` and their routers | one Valkey key per job | publish once, take once, erase | Valkey, worker |
| Native sidecar | `services/native_sidecar_server.py`, `..._client.py` | nonce table, permits | authenticated decode | worker |
| URL fetcher | `ops/url-fetcher/server.py`, `services/url_fetch_core.py` | nonce table, permits, firewall lease | fetch | worker |
| Paperless | `routers/integrations.py`, `integrations/paperless.py` | `ArchiveRecord` | submit | worker, API |
| Result readers | `services/output_artifacts.py`, `storage_reconciliation.py`, `artifact_recovery.py`, `routers/jobs.py` | none | manifest, drift reports | PostgreSQL, store |
| Identity and admin | `identity.py`, `security.py`, `routers/auth.py`, `routers/admin.py` | keys, sessions | sign-in, scopes | PostgreSQL |
| Tool requests | `routers/to_pdf.py`, `routers/from_pdf.py` and eleven more, `filetypes.py`, `queue.py` | none of their own | one endpoint per tool | worker |
| Converters | `services/pdf_tools.py`, `services/to_pdf_*`, `services/from_pdf_*` | none | about fifty pure conversions | worker |
| Web interface | `src/apps/web` | none that others read | polls the API | API |

No component holds a lock across components. What keeps them apart is conditional
UPDATEs, unique constraints, names derived from a lease token, and the order of
steps; the hard behaviour is in the interleavings of those, in a process that dies
between two of them, and in calls that fail although they took effect.
`PROJECT.json` lists the places one by one under `hazards`.

### What makes each part correct

* **Worker**: one attempt executes at a time however often RQ delivers the job; the
  results appear as one bundle together with the completion; a stored object is
  owned by a FileRecord or named by an open journal row; nothing published is
  cleaned up; an expired lease stays expired; a recovered or cancelled job does not
  publish; a job left behind comes within reach of recovery.
* **Job API**: a status changes only along the life cycle that callers are told of.
* **Webhooks**: every queued event is delivered, given up after its whole budget, or
  cleared; a delivered one is not sent again; attempt numbers account for requests.
* **Files and cleanup**: deletion leaves no object without a row; inputs of active
  jobs are spared; expired files that no active job uses do go in the end.
* **Policy**: a quota that was checked under the lock holds at the commit it was checked
  for; no minute admits more than its limit.
* **Hand-off**: a secret is used at most once, and is gone when its job has ended, unless it is left to its time to live.
* **Sidecar, fetcher**: a signed request is worked on once, every permit comes back.
* **Tool requests**: what the route admits the worker does not refuse, except for a reason
  that can be named; a retry asks for what the endpoint asks for.
* **Converters**: what is recorded is whole.
* **Readers of foreign mark-up**: they agree with the parser behind them and lose no text.
* **Listings, archive**: an answer has no hole and is no mixture of two moments; the archive row is true.
* **Sessions**: a session is worth what a sign-in of its owner is worth under today's settings; that it loses the groups its owner
  has lost is promised and not kept (finding 6).

## 2. The modules

| Module | Models | Status |
|---|---|---|
| `JobLifecycle` | abstract: what a caller sees of one job | done |
| `JobExecution` | one job through API, queue, attempts, journal, store, recovery | done |
| `JobExecutionProofs` | theorems about `JobExecution` | done |
| `WebhookDelivery` | the delivery rows, the dispatcher, replay | done |
| `FileRetention` | uploads, job inputs, deletion, cleanup | done |
| `MCJobExecution`, `MCWebhookDelivery`, `MCFileRetention` | model values and symmetry for TLC | done |
| `WebhookDeliveryProofs`, `FileRetentionProofs` | theorems about the safety of the two | done |
| `CredentialHandoff` | one-time passwords between API, Valkey and deliveries | done |
| `ServiceQuota` | the policy row lock, quota sums, uploads, job creations, both kinds of worker | done |
| `RateLimit` | the counter of a minute, INCR and EXPIRE apart | done |
| `ToolCatalog`, `ToolRequests` | the tables of about ninety operations, and one request through route, queue, dispatch and retry | done |
| `Converters`, `ConversionStages` | what each engine checks and how it names its output, and two attempts at it | done |
| `HtmlBoundaries` | the URL, CHM and HTML readers and the parser behind two of them | done |
| `SidecarGate` | admission to the native decoder and to the URL fetcher | done |
| `ResultViews` | the artifact listing while files go away | done |
| `PaperlessArchive` | one archive row, several submitters | done |
| `Sessions` | sign-ins, the session cookie, the key of an OIDC login | done |
| `MCServices` | the ten parts above in one exploration | done |
| `HandoffProofs`, `GateProofs`, `PolicyProofs`, `ResultProofs`, `ServicesProofs` | theorems about those parts; `ServicesProofs` extends the other four and ends with the types of all ten | done |

None of the modules declares a recursive operator, so that they can be proved about as they are: the doubling
back-off (`PowerOfTwo`) and the line of due rows (`Without`) are recursive functions, and where a theorem
needs that such a function exists, its existence is shown by a smallest number at which it fails, which takes the place of an induction. Two
things the provers read differently from TLC shaped a few definitions: `@@` of the TLC module is opaque to them,
which is why the engine tables are put together by `AsOne`; and what only a look at every row of the tables of
`ToolCatalog` can tell is stated as an assumption (`TablesAssumption`, `SuffixAssumption`) that TLC evaluates for all tools.

`JobExecution` composes with the others at its edges: its `Notify` is the `Insert`
of `WebhookDelivery`, its `ClearDelete` is `ClearHistory` there, and the `Work` of
`FileRetention` is the status of `JobExecution` seen from its input files. They are
kept apart because they share no variable but the job's status.

### JobExecution

One row, its queue entry, and a set `Attempt` of deliveries that each run
`process_job`. Every commit is one step and so is every call to the object store;
`pc[a]` says which comes next.

| Variables | Code |
|---|---|
| `status, token, epoch, lease, output, rqRef` | columns of `JobRecord`; `lease` is `lease_expires_at` minus now, in ticks |
| `journal` | `ArtifactWriteJournal.state` by destination |
| `files` | destinations that a committed `FileRecord` owns |
| `objects` | destinations with an object in the store |
| `events` | names of the webhook rows queued for the job |
| `rq, stop` | the RQ job's status, and a stop command on its way |
| `pc, seen, cursor, absent` | per attempt: stage, the in-memory `job.status`, the length of `stored_names`, destinations proven to have no object |
| `creator, cancel, clearing, recovery` | the API requests and the recovery command between two of their steps |

| Actions | Code |
|---|---|
| `Start`, `Claim`, `LegacyStart` | `process_job` entry, `claim_queued_job`, the legacy start |
| `Progress`, `CheckCancelled` | conversion and scan (one step each that may fail), the cancellation and quota check |
| `CheckLease`, `WriteJournal` | `reserve_writes`, whose check and commit are separate steps |
| `Store`, `Flush`, `Publish` | upload of each part, INSERT of its rows, `mark_committed` with the completing UPDATE and the commit |
| `Cleanup`, `Compensate`, `Refresh`, `MarkFailed` | the exception handler in its order |
| `AutoArchive`, `Notify` | after the outcome |
| `Heartbeat`, `Tick` | renewal thread; the clock |
| `Crash`, `StopHorse`, `Abandon` | the work-horse is killed, stopped by command, or given up by RQ |
| `Enqueue`, `RecordQueueId`, `FailEnqueue`, `CreatorCrash` | `_create_job` after its commit |
| `CancelRead`, `CancelQueue`, `CancelWrite` | `cancel_job` |
| `ClearRead`, `ClearDelete` | `clear_terminal_jobs` |
| `RecoverInspect`, `RecoverApply` | `inspect_or_recover_expired_job` |

A call may fail after it took effect: an upload that raised may have left the object, a
delete likewise, the completing commit may be acknowledged or not, and so may
the enqueue and the cancellation in RQ. `JournalEnabled` selects between the fenced worker
and the legacy one (`artifact_write_journal_enabled`, default off).

`JobLifecycle` is the promise: a job goes from queued over running to an outcome,
its bundle appears in one step together with "completed", and nothing removes it.
Because `cancel_job` and `_create_job` write without looking, the promise lets a
cancellation or a failed enqueue land in any status. `JobExecution` implements it
under `status <- status` and `published <- files`; `ImplementsLifecycle` is its
specification.

### WebhookDelivery

`status`, `attempts` and `wait` (ticks until `next_attempt_at`) are the rows;
`line` is the order in which due rows come up, which is what the query's ORDER BY
with LIMIT sees. `batch`, `loaded` and `seen` are what the dispatcher's session holds
since its query (`expire_on_commit=False`), `flight` is the request that is out.
`Fetch`, `Post`, `Record`, `DeadLetterOrphan` are the parts of
`process_due_webhooks` and `deliver_webhook` between which others may act; a commit
on a row that is gone raises and ends the cycle (`Abort`). `ReplayRead` and
`ReplayWrite` are the two halves of the admin's replay. `tries` and `lost` are
history: requests sent, and those whose outcome was never committed.

### FileRetention

`record` is the row with its expiry, `objects` the store, `job` and `inputs` the
jobs. `CreateCheck`/`RetryCheck` and `CreateCommit` are the two sides of the window
in `_create_job` and `retry_job`: the former refuses expired files, the latter does not. The
cleanup worker reads active jobs (`CleanStart`), then expired files (`CleanList`),
removes objects one by one (`CleanPurge`) and commits the rows (`CleanCommit`).
The API deletions have the same shape. `fresh` remembers jobs that were
committed since the cleanup worker looked. One deletion request runs at a time. "live" stands for no expiry or one in the
future; expiry of a file without one is thereby allowed, which only adds behaviour. A request
that dies is one that takes no further step.

### The parts behind `MCServices`

These share no variable with each other, so nothing is learnt from interleaving them. A behaviour of
`MCServices` has one of them in `focus` and the others stand still; the state space is the sum of theirs.
`ToolRequests` is extended, the others are instantiated by name.

* **CredentialHandoff**. `sealed` is the set of Valkey keys, `submission`, `cancel` and `attempt` are
  where `unlock_pdf_request` or `protect_pdf_request`, `cancel_job` and each delivery stand. Every call to Valkey
  or RQ may fail with or without effect; the API and the work-horse die anywhere; a key
  lapses at any time. `OneUse` counts deliveries that were handed the secret (`took`). `SecretGone` is about jobs
  that completed, failed or were cancelled and submissions that were refused. It excepts (`unerased`) the keys that are left to their time to
  live: an erasure failed or the API died before it, a worker rejected the source before it asked for the secret, or its GETDEL raised.
* **ServiceQuota**. `lock` is the row lock of the policy, which ends with the transaction: for uploads, new
  jobs and the legacy worker that is the commit of what was checked, for the fenced worker the commit
  of its journal (`Reserve`), before the output is stored. `QuotaHeldToCommit` therefore excepts by name the outputs of
  fenced workers, renewals of expired files and services without a row, which have nothing to lock; the
  model shows each of them passing a limit.
* **RateLimit**. A request that dies between INCR and EXPIRE leaves a counter without expiry; clocks of API processes
  differ by up to half a minute. A limit of zero is no limit (`Unlimited`).
* **ToolCatalog, ToolRequests**. Each operation is described at its endpoint (flags, scope, ownership, MIME
  type, suffix, size, number of inputs, parameters), in the dispatch of `process_job`, in `QueueClass` and in the retry rules; the four
  are transcribed apart and one request runs against all of them, with API and worker started with
  different flags, an input that expires, is deleted or is itself an output, and an owner whose scopes shrink. Sizes are the classes between the
  limits that occur. `RefusalExplained` names the reasons for which a worker may refuse what a route admitted.
* **Converters, ConversionStages**. An engine is a row: whether it first asks for a new output, which
  defects of the source it refuses, which faults of the product it looks for before the product
  has the output's name, how it gets it (new, renamed, linked, written over), what it checks afterwards. Two
  attempts run any of them; each may raise, be cancelled or be killed between any two steps. `LetsThrough` names the engines
  outside the first tools that publish without looking for a fault.
* **HtmlBoundaries**. Tags come one at a time; what the reader emits is fed to the second parser in the same step. `covers`
  and `astray` are what a browser would hide or show, independent of the reader's stacks.
* **SidecarGate**. Threads, the slots before the headers, the busy permit, stamps by the clients' clocks, nonces
  with their expiry, the firewall lease and a restart that forgets the nonces (`runs` counts since the start). The order
  of these differs between the services, which is `service`. Time may pass at any point of a body: the sockets bound each read
  and not their sum. `WorkedOnOnce` therefore excepts a repeat whose body takes longer than the time to live has to spare (`Spare`) over the
  time a stamp can pass; the model reaches that case, with the nonce dropped and the request let in twice.
* **ResultViews**. The listing reads the job, then the links, then each file, in queries that
  see different commits. `stood` is what there was when it read the links; an answer is compared with that, as
  the code compares the parts it finds with their own number and not with the bundle's.
* **PaperlessArchive**. Each submitter holds the row as its session loaded it and writes back what it
  changed; the row is unique per file.
* **Sessions**. `settings` are those the API was started with, `directory` what the provider says of people,
  `cookie` one session, `callback` two calls of the OIDC callback. Role and owner name are worked out by `IdentityFromClaims` at a sign-in and
  by `DecodeSession` at every later request; the property compares the two after any restart and any change. A person's `mail` is an
  attribute of its own beside the subject: mailboxes change hands. `SessionIsSignIn` takes the groups held within a session's lifetime, which is what the code
  gives; that a group is gone at once is `NoStalePrivilege`, which finding 6 refutes.

## 3. The runs

| Run | Instance | Shows |
|---|---|---|
| `job_journal` | 2 attempts, 2 files, TTL 2, grace 1, journal on | ten properties of the fenced worker, among them refinement of `JobLifecycle`; 767 thousand states |
| `job_legacy` | 1 attempt, 2 files, journal off | saved files keep their objects and an outcome is kept, under single delivery |
| `job_liveness` | 2 attempts, 1 file, TTL 1, grace 1, journal on, fair; 545 thousand states | a job left running comes within reach of recovery |
| `webhook` | 3 deliveries of 2 jobs, batch 2, budget 2, 1 crash, 1 replay, fair | six properties of the dispatcher; 121 thousand states |
| `retention` | 2 files, 2 jobs, 1 failed deletion, fair | deletion and cleanup, and that expired files are purged; 1.75 million states |
| `services` | the ten parts, one in focus at a time; 953 thousand states | seventeen properties, one type invariant among them |
| `job_cancel_finding`, `job_event_finding`, `job_legacy_cancel_finding`, `webhook_replay_finding`, `file_erase_finding`, `session_stale_finding` | as small as the trace needs | section 5 |

**Why the bounds are enough.** Two attempts are a delivery and its duplicate: every
predicate compares an attempt with the row, so a third attempt meets the same row that a
second one does, and the theorems hold for any number. Two files are a primary output and a
part, the least for which a bundle can be torn. TTL 2 leaves a renewed and an expiring
lease apart, grace 1 keeps "expired" and "recoverable" apart. The liveness run has one file and TTL 1, since it
is about the queue entry and the lease, and needs the second delivery: it is what leaves an entry "finished" beside a dead attempt. Three deliveries with a batch of two
leave one outside; two of them share a job, so that clearing takes two rows from under
one batch. A budget of two has one retry; three was also run and passes. Two files in retention make a
deletion that fails after the first; two jobs make a retry. Counters are bounded by
`MaxCrashes`, `MaxReplays`, `MaxFailures`; all are guards on the
environment, never on the code.

In `services`: two deliveries of one secret job are a delivery and its duplicate, two kinds of
job come from `kind`. Three writers let one pass while another holds the lock and a third is between
its check and its commit; sizes of 1 against a limit of 2 make the third the one too many. No limit or one call per minute, and three calls in three
minutes, meet a counter that is fresh, full and stale. Two attempts at a conversion are a
run and its retry or its duplicate. Mark-up: `Depth` 2 stands for the code's 128, `MaxPictures` 1 for 32, so that
the limits are met and passed. `SidecarGate` has 2 slots for 4 and 8, and 1 and 2 busy permits; its clock constants
keep the relation `TtlAssumption` that the code's have: 180 s against 2 * 75 s for the decoder, which leaves `Spare` at 30 s, and 100 s against
2 * 45 s for the fetcher, which leaves 10 s. How long a body takes is bounded only by `MaxClock`, the end of the run. A bundle has two parts, the least for which one may be missing. `Sessions`
has two people, so that names can be confused, and two events (restarts with one
setting changed, changes in the directory, codes); with three it has 1.96 million states and passes as well.

**Deadlock** checking is off: requests, jobs and files are finite, so
the systems do come to rest.

**Symmetry** is used for attempts in `job_journal`, and in `services` for writers, calls and connections, which are one set of model values so that
the group stays small; only invariants and action properties are checked there.

**Fairness.** `job_liveness`: the clock, the next step of an attempt that is under way, the queue's watch over dead workers and
the creating request's next step are weakly fair, nothing else: no delivery is assumed to come, heartbeats are not assumed
to succeed and recovery is never assumed to be run (the property says that it *can*).
`webhook`: the dispatcher's loop and the clock, since `run_forever` never ends; receivers need not ever accept.
`retention`: the cleanup loop alone; deletions fail finitely often. Jobs are not assumed to end, since a killed
work-horse leaves one running and an API that dies before the enqueue leaves one queued: `ExpiredPurged` is about files that no active job uses.
The specifications name them in `FairSpec`.

Each property is paired with a mutated definition of the module (marked `mutant:`),
a plausible bug in that code, under which TLC finds the property violated.

## 4. What is proved

`JobExecutionProofs` proves for any set of attempts, number of files, TTL and
grace, from `NamesAssumption` and `BoundsAssumption`:

* `TypeCorrect`: `Spec => []TypeOK`, for both workers;
* for both workers and any overlap of deliveries: `PublicationAtomic`, and `EndedStaysEnded` (below);
* for the fenced worker (`JournalEnabled =>`): `OneExecutor`, `PublishedFilesExist`, `NoUnknownOrphan`, `ExpiredLeaseStaysExpired`,
  `RecoveredStaysFailed`, `CancellationHolds`, `PublishedNotFailed`, and
  `JobRefinement`: `Spec => ImplementsLifecycle`;
* for both workers, as long as no two attempts have executed at once: `UndisturbedFilesExist`
  (`Spec /\ []SingleExecutor => []PublishedBacked`), and its case for a single delivery, `OneDeliveryFilesExist`;
* for the fenced worker, what its recovery rests on: `EvidenceAllowsRecovery`, `StuckOnlyAges`.

None of the four safety invariants is inductive alone. `IInv` strengthens them in two parts:

* `RowInv`, about the row: a queued row has no token and no executing attempt; a claim
  needs "queued" and no step returns the row there, so no second claim succeeds. A row without a result is not being cleared, a
  row whose lease was revoked is terminal, and so is one whose cancellation is done.
* `DestinationInv`, about names: what stage an attempt is in determines which of
  its names can be planned, have objects, or be owned. Attempts have disjoint names (`NamesFacts`), so
  a step of one leaves the part of the others alone (`StageFrame`, `StoreFrame`),
  and only six steps need an argument of their own: one lemma each.

`Inductive` puts them together, `Invariant` is `[]IInv`, and the invariants follow by
unfolding. The action properties use the invariant at both ends of a step after
`RowSteps` has reduced the steps to those that write the row. `JobRefinement` maps
each of those to a step of `JobLifecycle` and all others to a stutter.

`WebhookDeliveryProofs` proves for any deliveries, jobs, budget, batch size and overlap of replay requests `TypesHold`
(no count passes the budget, no wait the longest back-off) and `NothingSettledIsSent`: the
dispatcher's batch holds nothing that was delivered or given up since it was read, although its session never
reads a row again. The counts and the state machine need `OneAtATime`, that replay requests do not overlap
(finding 4 is what happens otherwise); under it `BudgetSpent`, `RequestsAccounted`,
`NoSecondDelivery` and `DocumentedTransitions` are proved. `AttemptsAccounted` becomes inductive with `HeldInv`: what the dispatcher holds is
either gone or still active with the count that was loaded, what a replay holds is either gone or
still dead, so the two never hold the same row. `BudgetInv` keeps the counts below
the budget, `UnbornInv` keeps a later insert from finding traces.

`FileRetentionProofs` proves `TypeCorrect`, `DeletionLeavesNoOrphan` from `RowInv` (only a file
whose upload is done has had a row, and the deletions work on such files alone) and
`CleanupSparesInputs` from `SpareInv` (from the moment the worker has looked, its list holds
inputs of no other active jobs than those committed since).

`EndedStaysEnded` (`NoResurrection`) needs no invariant but the types: an attempt past its start writes "completed" only over
"running". `PublicationAtomic` follows from `IInv` under the fence; without it all attempts have the same destinations, and
only the completing commit writes files and link, together (`PublishAlone`), so a second publication adds nothing to the bundle.

`UndisturbedFilesExist` is about two legacy deliveries that share their destinations. `BackedInv` adds to `PublishedBacked` that
an attempt between its first upload and its publication has the objects of the parts it has
counted (`StoredInv`). What breaks it is another attempt's clean-up, and `SingleExecutor`, which is a hypothesis
here and a theorem for the fenced worker, says that nobody else is there. Deliveries one after
the other, with crashes between them, are covered.

`StuckBecomesRecoverable` is a liveness property. Two facts it is made of are proved:
`EvidenceAllowsRecovery` (a job that is running past its grace period, with the queue's entry over and the queue id
recorded, has never a result or a committed destination that would stand against its recovery) and `StuckOnlyAges` (a running job
that nobody executes is taken up by no further delivery, and its lease does not grow, until its status changes). That the clock ticks and the queue comes to a verdict
is the fairness left to TLC.

### The parts behind `MCServices`

Each theorem is about `Spec` of `MCServices`. Its invariant has the form "while this part is in focus, ...": the
part moves by its own actions and otherwise stands still (`HandoffFocus`, `GateFocus`, ...), so that only
those need an argument. Every inductive invariant below was checked by TLC on its part before it was proved.

| Theorem | Property | For any | Rests on |
|---|---|---|---|
| `SecretTakenOnce`, `NoSecretLeft` | `OneUse`, `SecretGone` | jobs, deliveries | `HandoffInv` |
| `RequestWorkedOnOnce` | `WorkedOnOnce` | requests, connections, clocks, bodies | `GateInv`, `TtlAssumption` |
| `NoPermitLost` | `PermitsReturn` | finite set of connections | `PermitInv`, `GateAssumption` |
| `RateIsHeld` | `RateHeld` | finite set of calls, limit above zero | `RateInv`, `RateAssumption` |
| `QuotaIsHeldToCommit` | `QuotaHeldToCommit` | finite set of writers, sizes, limits | `QuotaInv`, `QuotaAssumption` |
| `ListingIsUnbroken` | `ListingUnbroken` | parts, listings | `ViewsInv` |
| `ArchiveIsTold` | `ArchiveTold` | clerks | `ArchiveInv` |
| `RecordedIsWhole` | `PublishedIsWhole` | attempts | `StageInv`, `AttemptsAssumption` |
| `LoginSignsInOnce` | `OneSessionPerLogin` | people, lifetimes, events | `LoginInv`, `SessionAssumption` |
| `SessionStandsForSignIn` | `SessionIsSignIn` | people, lifetimes, events | `SessionInv`, `LoginInv` |
| `NoWordIsLost` | `NothingLost` | depth, pictures, length of page | `WordInv` |
| `ReadersAgree` | `BoundaryAgrees` | depth, pictures, length of page | `AgreeInv`, `ReaderAssumption` |
| `HtmlTypesHold` | none, a part of `TypeOK` | depth, pictures, length of page | `SizedInv`, `AgreeInv`, `WordInv` |
| `ServiceTypesHold` | `TypeOK` | all of the constants | `HandoffTypesHold`, `GateTypesHold`, ..., one per part |
| `RefusalIsExplained`, `FilesAreTheOwners`, `NoWayAround` | `RefusalExplained`, `OwnLiveFile`, `RetryIsNoDetour` | retries | `RequestInv`, `TablesAssumption` |

**The assumptions** are in the module that declares the constants and TLC evaluates them in the run. `TtlAssumption` is
the relation between nonce lifetime and permitted clock skew, without which a
replay after the nonce is forgotten would be accepted at once; section 3 gives the code's numbers. Nothing is assumed of the time a body takes. `TablesAssumption` says of
each tool that what its route admits lies within what its dispatch takes (`Fits`), that the queue asks for no other flag, and that a retry asks
for the endpoint's scope and flags unless the tool is in `Unscoped` or `Secret`. The tables in it are the transcribed ones
and no parameters, so that for this code it is a fact; so is `SuffixAssumption`, that what a tool puts out has a suffix that can be uploaded again. The
others say that sets are finite and numbers are numbers (`BoundAssumption`, for one, of the bounds on answers, events and retries).

**The inductive invariants**, and why the property is not one by itself:

* `HandoffInv`. A second taking is prevented by the key being gone, so the invariant says for each delivery whether
  its key can still be there: `SubmittedFirst` (keys, queue entries, deliveries and cancellations come after the submission, and a key is
  sealed under the operation of its job only), `TakenOnce` (one that took has removed the key), `CompletedTook`, `ErasedGone`.
* `GateInv`. `SpentIsKnown`: a nonce that was let in since the start is in the table until its stamp would be refused and a `Spare` longer, and
  `HeadersWereTimely`: a request whose body is being read had a stamp that passed when it arrived. Together they turn a second arrival into
  either a known nonce, or a body that has been coming for longer than the `Spare`. `PermitInv` counts those who hold a permit.
* `RateInv`. The calls of a minute have distinct ranks up to the counter (`Ranked`), and the counter outlives every call
  that can still name its minute (`CounterOutlives`); those let through have ranks up to the limit.
* `QuotaInv`. `LockInv`: who has checked and not let go holds the lock. `CheckStands`: what is used and the size of the one who has checked
  stay within what was allowed. A sum over a finite set of rows is unfolded one row at a time. The induction over the
  size of the set is made by taking a smallest set on which two sums differ, since the prover cannot use the library's induction.
* `ViewsInv`: what a listing has linked is what stood when it looked, or the job was cleared meanwhile.
* `ArchiveInv`: whoever leaves the row at "submitting" is still at work on it, or dead (`SubmittingInv`), and has loaded the row that
  is there (`LoadedInv`).
* `StageInv`. Per attempt `Sound(a)`: that the file under the output's name is one's own until
  it is recorded, if the worker is fenced or no other attempt overlaps. `RecordedIsWhole` needs of every engine that it looks, before or after, for each fault that
  `LetsThrough` does not name; this is shown for each table of engines by itself (`Bounded`) and holds for the union.
* `LoginInv`: one callback at most is between reading and deleting the key and none after that. `SessionInv`: a group in a cookie was held by its owner
  not longer ago than the cookie can live (`HeldInv`, `CookieInv`), so `DecodeSession` finds what a sign-in would.
* `WordInv`. The words that the reader hides are those a browser hides: the elements that cover text form a
  subsequence of the reader's stack, with only `<embed>` in between. The map `Places` between the two orders is the witness, and each
  of opening, closing and popping gives the next one.
* `AgreeInv`. As long as the second parser has refused nothing, its stack (`Within`) is what the reader has emitted and not yet
  ended, in order; elements the reader keeps without emitting them stand in the reader's list as `"embed"`, so that `Places` serves here again.
  `Follows` adds what makes the end acceptable: a text seen if the reader has emitted one, no topic that is yet to come, and of a URL
  never more than `Depth` elements. `FoldLeft` over the pieces is shown to exist as a function and to come to one piece after the other
  (`FoldRuns`, `FoldConcat`). These lemmas and `AcceptEndings` take a smallest counterexample where one would use induction.
* `SizedInv`. The bounds in `Boundaries!TypeOK` are on the second parser: it holds at most `Depth` elements and the one it refuses, and
  likewise with pictures. One tag of the page may feed it many pieces; each of those a reader sends (`Sendable`: known
  elements, links to chapters there are) keeps the bounds until one is refused, and after that nothing changes.
* `RequestInv`. What was admitted is still admitted unless the file's time ran out (`AdmittedInv`), and a file that was uploaded has passed
  the upload's check (`UploadInv`); with `Fits` the worker's reasons to refuse are those in `RefusalExplained`.

### Model-checked only

* The three liveness properties, `StuckBecomesRecoverable`, `Resolves` and `ExpiredPurged`: fairness and ENABLED are
  beyond the prover. Safety facts behind the first are proved (above).
* The refuted sentences of section 5, which have traces.

## 5. Findings

Each is a run that TLC ends with a counterexample, with the sentence of the
repository that it contradicts in `PROJECT.json`.

1. `cancel_job` reads "running", calls RQ, and writes "cancelled" over a job that has
   completed in between. Its results stay published (`OnlyLiveJobsCancelled`).
2. The completing UPDATE bypasses the session, so the in-memory status that names the
   event is still "running": "job.running" is queued in place of "job.completed"
   (`CompletionAnnounced`).
3. The legacy worker's start overwrites a cancellation that committed after it read the row, and
   the job publishes (`CancelStopsPublication`).
4. Two overlapping replays of one dead delivery: the second re-queues what the
   first has had delivered (`LegalTransitions`).
5. A deletion through the API that checked before a job was committed removes the
   input of the active job (`ActiveInputsKept`).
6. ADR-0004 and a comment in `decode_session_token` say that the removal from a group leaves no stale privilege in a cookie. The
   groups that are mapped again at each request are those the cookie has carried since the sign-in (`NoStalePrivilege`).

## 6. Abstractions and limits

* A conversion is one step that succeeds or fails. Bytes, names beyond their
  identity, MIME types, hashes, previews and staging files are left out.
* An UPDATE whose predicate samples the clock is one step: the sample and the row lock are
  not separated.
* RQ is external. Its statuses are those the code reads; a job may be delivered
  again as long as its entry exists.
* A database transaction is atomic, and a unique index makes a second inserter wait for the
  first; isolation is READ COMMITTED as the engine's default.
* The legacy run has one attempt: two legacy deliveries of a job share destination names, and if they overlap, one can remove the
  other's object (`UndisturbedFilesExist` shows that nothing else does). The journal exists to end that, so no promise of the code is contradicted.
* `FileRetention` leaves out previews, `JobOutputArtifact`, `ArchiveRecord` and `output_file_id`, which
  the deletions update in the same transaction as the rows, and the temporary directory.
* What a conversion computes is left to the libraries that compute it; `Converters` says what is
  checked about it. The engines' private directories and their removal are left out: each engine has its own context managers and `finally`
  clauses, and no shared state depends on them. Limits on numbers of tags, characters and image bytes are left out of `HtmlBoundaries`.
* In `Sessions` an OIDC token is what the provider says, and the signature is valid. API keys are not
  among the credentials: a key is a row that is read once per request.

### Not modelled

* `storage_reconciliation.py`, `artifact_recovery.py`: reports over a listing of the store that change nothing.
* Audit log, metrics and health checks: append-only or stateless. Signed downloads: a stateless token.
* The choice of an address by the URL fetcher and the transfer itself; S3 transfers: network I/O.
* The web interface (`src/apps/web`): pages that poll the API. Deployment, scripts, generated contracts and quality gates.

## 7. What the models show and no run states

The properties except these by name, because no text of the repository promises otherwise
or because the text is too general to be contradicted.

* An API that dies between the enqueue and the commit of the queue id leaves a job that neither
  `cancel_job` nor the recovery can reach in RQ; a `keep` on a file the cleanup worker has listed comes too late; an object
  that can never be deleted ends every cleanup cycle before the files behind it.
* A second delivery that the claim turns away after the first has died returns normally, and RQ marks the entry "finished".
  `lease_recovery.py` does not count that among the statuses of an entry that is over, so the job stays running (`StuckBecomesRecoverable`). A job stuck in queued or
  running protects its expired inputs from cleanup for ever.
* A password job whose source is rejected, or whose GETDEL raises, fails and cannot be retried, and its key lies in Valkey until its time to live
  is over (`SecretGone`).
* Some operations can be retried without the scope or the flag their endpoint asks for (`Unscoped` in
  `ToolRequests`).
* The CHM helper and the parser behind it count differently: depth before or after the section around
  a chapter, pictures once or as often as they occur, tags per chapter or in all; and links to a topic that turned
  out blank are dropped by one and expected by the other. `<embed>` has no end tag in HTML, and the URL and HTML readers wait for one.
* A bundle whose last parts were deleted before a listing reads the links is answered with 200 and the parts that are left: the
  code looks for holes, and does not know how many parts there were. A job cleared from the history between the first two queries has its bundle
  listed alone.
* An automatic archiving that collides with a manual one, or whose file is deleted, raises past the
  announcement of the job.
* Two unfenced attempts at one job share the output path: either may store the other's file.
* A signed request sent again whose headers come in time and whose body trickles in for longer than 30 s (decoder) or 10 s (fetcher) may be
  let in a second time (`WorkedOnOnce`).
* A call the URL fetcher turns away as busy has used up its nonce; a client that gave up is still worked for.
* A session outlives the
  provider's being switched off and the administrator's password. A session whose groups are no longer mapped is answered with
  500, not 401: `get_principal` catches errors of the token only.
* The key of an OIDC login is read and deleted in two calls, so two overlapping callbacks with
  different codes both sign in.

# Funnelmanager: a TLA+ model of its long-running work

Funnelmanager is a set of Python services behind a gateway (search, leads, mail,
knowledge, agents, jobs, mcp), a shared runtime library (`libs/fm_runtime`) and
four browser front ends.  Its own logic, as opposed to what it asks of Postgres,
Mongo, Milvus, Apollo, Gmail or a language model, is the long-running work it
starts, shows, pauses, resumes after a crash and stops.  This directory models that
work in TLA+, checks it with TLC on small instances and proves theorems about it
with TLAPS.  `PROJECT.json` names the source lines behind every definition.

## 1. Inventory

| Component | State it keeps | Operations | Hard behaviour | Module |
|---|---|---|---|---|
| Event contract (`fm_runtime/job_events.py`) | none | statuses, terminal set, control actions | two writers of one row | `JobEvents` |
| Producer hub (`fm_runtime/jobs_producer.py`) | latest event per job, subscriber queues | publish, prune, subscribe, dispatch_control | events during the snapshot query; a restart empties it | `JobsPipeline` |
| Jobs service (`jobs/app`) | a row per job | subscriber per producer, `apply_event`, `proxy_control` | two sessions on one row; reconnects; lost events; database errors | `JobsPipeline` |
| Agents: turns (`runner.py`, `session_manager.py`, `history.py`) | buffers, active turn, message rows, watermark | start, publish, subscribe, finish, expire, persist, summarise | one turn at a time; expiry under a running turn; retried saves; restarts | `AgentTurns`, `ChatHistory` |
| Agents: approvals (`approvals.py`, `_await_approval`) | waiters, pending rows, spent references | register, decide, wait, re-issue, expire | decision against cancel and deadline; parallel calls | `AgentApprovals` |
| Agents: scheduler (`scheduler.py`, `schedules.py`, `cron.py`) | schedule rows, captured tokens | poll, claim, fire, pause, re-arm, cancel, create | several pods; crash between claim and spawn | `AgentScheduler`, `FiringLedger`, `CronSchedule` |
| Leads: stream jobs (`stream_jobs.py`, `routers/leads.py`) | job buffers, flags, embedding queue | walk pages, embed chunks, trim, finish, expire | backpressure, pause, cancel, detached readers | `LeadStreams`, `LosslessStream` |
| Leads: store (`routers/leads.py`, `derived.py`, `embeddings.py`, `milvus_client.py`) | a document and a vector per lead | four kinds of write, embed, mark, backfill | writers without a lock, stale copies, webhooks | `LeadRecords`, `LeadEnrichment`, `LeadCard` |
| Leads: Milvus gate and grouped search | holder, waiters, semaphore, slots | acquire, release, fan out, stream | cancel in the moment of a hand-off; partial failure | `MilvusGate`, `GroupedSearch` |
| Search: relay, history, batches (`routers/search.py`) | result rows, history rows, counts | relay, store, turn pages, delete, enrich a batch | cancel against completion; a stale copy of a row; hang-ups | `SearchIngest`, `SearchHistory`, `EnrichBatch` |
| Mail: campaigns (`campaigns.py`, `routers/mail.py`) | campaigns, recipients, send log | tick, send, start, pause, cancel, continue, one-off send | double sends, caps, lost answers, crashes | `MailCampaigns` |
| Mail: sync (`sync.py`, `gmail.py`) | archive, history anchor, page token | incremental cycle, catch-up, backfill, mirrored send | expiry, arrivals during a walk, half-committed cycles | `MailSync` |
| Knowledge sync (`knowledge/app/sync`) | table, marker, page to resume, stamps | walk, embed, distil, stamp | arrivals above the marker; paying twice | `KnowledgeSync` |
| Identity and gates (`tokens.py`, `principal.py`, `confirmation.py`, `grants.py`) | token cache, signing keys, approvals | exchange, verify, gate | shared exchanges, key rotation, stale consent | `TokenBroker`, `Admission`, `ConfirmationGate` |
| Policy (`authz.rego`, `verify_policy`, `check_mesh_anonymous`) | copies of one table | compare | the copies drift apart | `PolicyDrift` |
| MCP gateway, UIs, knowledge graph and query, observability, deployment | request-local, rendering, configuration | | | none (section 9) |

How they interact.  An engine (a turn, a schedule, an ingest) publishes lifecycle
events to the hub of its own process; the jobs service tails each hub over one NDJSON
stream and mirrors the events into rows; a control goes from the jobs service to
the producer's control route, which sets flags on the engine and answers with a
status that the jobs service writes to the row at once.  Search follows the streams
of leads over HTTP, stores what they announce and publishes their status.
Knowledge reads the archive that mail keeps.  Agents create schedules and call the
other services through the mcp gateway, where an expensive call comes back as a
gate that waits for a human.  Every call between services carries a token the
broker exchanged, and every service checks it at its door.

What makes each part correct, in a sentence each.

* Jobs: no event of a live job is lost between engine and row; a row says a turn is
  over only when it is.
* Turns: the transcript only grows, by whole turns; a stream ends with its turn; the
  model is shown every recent row.
* Approvals: the row tells what was decided, nothing stays open behind a turn, and
  no deadline runs while a human decides.
* Scheduler: an occurrence fires at most once, and under its owner's token unless the
  owner has just taken it back.
* Streams: a reader gets every event that matters once and in order; every lead
  announced is saved and accounted for.
* Lead records: whoever writes last, the fields are those of all answers; a flag
  that says embedded is true, and one that does not is somebody's job.
* Campaigns: nobody is mailed twice, no sender exceeds the cap.
* Syncs: no cursor moves over what was not read, but for what can be named, and
  nothing is paid for twice.
* Searches: a row promises no result that is not stored; whoever waits is answered
  unless somebody holds what they wait for.
* Platform: tokens are shared and valid, verdicts are right, the policy copies agree,
  and what is expensive was agreed to.

## 2. How the project is laid out

A module per component, each with its constants, assumptions, `Init`, an action per
step, `Next`, its properties and the mutants of section 8.  A step is what runs
between two awaits of one coroutine, or one database transaction; the services
are single-threaded event loops, so nothing finer can be observed, except for
the threads behind the Milvus gate, which `MilvusGate` has.

* `JobsPipeline` EXTENDS `JobEvents`.
* `AgentScheduler` implements `FiringLedger`, `AgentTurns` implements `ChatHistory`,
  and `SearchIngest` implements two instances of `LosslessStream`, each by INSTANCE
  with a refinement mapping.
* `SearchIngest` composes `LeadStreams` with the relay that follows it;
  `LeadEnrichment` composes `LeadRecords` with the job that drives it;
  `GroupedSearch` runs over `MilvusGate`.
* `MC...` modules instantiate them.  Where several components share no state, one
  MC module holds them side by side under a variable `part` and a behaviour runs
  one of them: the state spaces add up and do not multiply.  A property of such a run
  is either an invariant of all parts (the parts that do not run stay in their
  initial state) or a conjunction `part = ... => ...`.
* `...Proofs` modules hold the theorems.

`JobsPipeline` follows one schedule from the jobs service's side and keeps only its
committed status; `AgentScheduler` follows the same rows from the pods' side and
keeps only what the jobs service would show (`told`).  Each abstracts the other.

The theorems of section 7 state every invariant that a passing run checks.  What is
left to do: the parts that section 1 lists as not modelled.

## 3. The jobs pipeline

`JobEvents` is the algebra both sides share: statuses, the two guards of
`apply_event` (`Absorbed`, `Stale`, combined in `Admits`), the row after an event
(`Applied`) and what the ORM flushes (`Flush`).  SQLAlchemy writes only the columns
whose value differs from the loaded one and takes no lock, so two sessions that
loaded the same row merge column by column; `Flush` is that merge.

`JobsPipeline` is one producer (agents) and the jobs service:

| Variable | In the code |
|---|---|
| `clock` | the wall clock; every `ts` and `last_event_at` is a reading of it |
| `engine` | the phase of a turn task, or the `status` column of a schedule |
| `asked`, `handle` | `TurnHandle.paused` / `cancel_event`, and membership in `TurnRunner._turns` |
| `owed` | between a scheduler transaction's commit and the publications that follow it |
| `latest` | `JobProducer._latest` |
| `conn`, `byId`, `dbRead`, `snap`, `queue` | one `subscribe()`: its captured `by_id`, the rows the enumerate query returned, the snapshot still to deliver, the live queue |
| `rows` | status, `started_at`, `ended_at`, `last_event_at` of each `Job` |
| `applying` | the subscriber between its SELECT and its COMMIT |
| `ctl` | each control request: row loaded, call sent, schedule committed but CANCELED not yet published, reply received |

An action is what runs between two suspension points.  `publish` awaits only an
uncontended lock, so it is atomic; `subscribe` registers and captures in one step
(`Connect`), suspends in the query (`EnumerateRead`) and stamps its events when it
resumes (`EnumerateReturn`); `apply_event` is `Take` then `CommitRow`;
`proxy_control` is `ControlRead`, one of `ControlNothing` / `ControlTurn` /
`ControlSchedule`+`ControlPublish`, then `ControlWrite`.  Faults are counted:
`drop` breaks the stream, `restart` kills the producer process, `persist` makes one
database write of the subscriber fail.  A failed or timed-out control call
(`ControlFails`) is always possible and not counted, and neither is a failed
enumerate query (`EnumerateFails`), of which a connection has one at most: its
exception is swallowed and the stream goes on with what the hub holds.  `missed`
remembers the schedules that were pending then, for as long as the stream lasts.

Abstractions: attribution, progress, `exit_status` and `meta` of events are left
out; the clocks of the two services are one clock; the approval wait is one phase
(`awaiting`); the schedule poller is one process (several pods are
`AgentScheduler`'s).  The pipeline's schedule does not re-enter the poller while a
publication is owed, except through a cancel.

### Properties

* `ActiveEventReachesStore`: while connected, the hub's latest event of a live job
  is pending, or the row is at least as new.  Registering the queue before the
  snapshot is what makes it true; the mutant that registers later breaks it.
* `RowsTellTheTruth` joins `QuietAgreement` (with the stream drained, the row of a
  live turn shows the hub's status) and `TerminalRowMeansOver` (a row that shows an
  end is right).  The first depends on the guard being strict (`<`), because a turn
  publishes several events within one reading of the clock, and is not stated of
  schedules: their snapshot event is stamped after the query that loaded it, so a
  live event published during the query is dropped as stale.
* `TurnRowMeansOver`: with requests, the row of a turn that shows an end belongs to a
  turn that is over or was told to cancel.
* `EndedAfterStarted`: the time columns stay ordered although two sessions write
  the row.
* `EndIsKept`: no step of the events takes a row out of, or between, terminal
  statuses, and the end of a turn the store knows, once on its way, is recorded
  unless the stream breaks first.  Nothing stronger holds: ends are not replayed.
* `PendingScheduleIsShown`: a schedule that stays pending ends up shown as scheduled,
  whatever the stream and the producer go through, unless a failed query left it out
  of a stream that lasts for good: then nothing asks for it again.

## 4. The scheduler

`AgentScheduler` is one session's schedules: the rows in Postgres, and the pods
that poll them, serve posts, cancels and deletes, and run turns that create
schedules.  Sessions share no schedule state, so one is enough.

| Variable | In the code |
|---|---|
| `time` | the wall clock in minutes, the resolution of `cron_next` |
| `session` | whether the `agent_session` row exists |
| `rows` | `status` and `next_run_at` of each `agent_schedule` row; `none` before its insert, `deleted` once the cascade took it; `Null` is SQL NULL |
| `token` | per pod, `AgentScheduler._tokens`, and whether `subject_token_expired` |
| `turn` | per pod, the active turn of `SessionTurnManager` and the token it runs under |
| `poller` | per pod, where `_tick` and `_fire` are: the rows still to look at, the `now` of the tick, the row at hand, the occurrence claimed, the status re-read |
| `req` | each request in flight, what it loaded and when |
| `told` | what the jobs service shows of each schedule |
| `fired` | history: how often each occurrence has spawned a turn |

`FiringLedger` is what this machinery promises, in five lines: each occurrence is
ticked off at most once.  A one-shot has one occurrence whenever it runs; a cron
has one per matching minute.  The refinement mapping is the identity on `fired`.

Steps.  `Select` is the query of a tick; per row `Defer` (serial guard), `Gate`
(token), `Claim` (one guarded UPDATE), `Reread` (its second transaction),
`LookUpSession`, then `Spawn` or `SpawnRefused`, whose publications follow without
a suspension.  `Pause` and `PauseReturns` are the UPDATE of `pause_for_reauth` and
what its caller does after it.  `rearm_paused` and `cancel_schedule` are ORM code
that selects, then commits, without a lock, so they are two steps each
(`RearmRead`/`RearmCommit`, `CancelRead`/`CancelCommit`) and a third for the token
and the publication.  The creation tool counts (`CreateCheck`), inserts
(`CreateCommit`), and remembers and publishes (`CreateReturns`).  `delete_session`
lists, announces, deletes.  `Expire` is the `exp` of a captured token passing,
`Crash` loses all that a pod keeps in memory.

Abstractions.
* A cron expression is the set of minutes it matches (`CronTimes`); parsing and the
  minute-by-minute walk are left out, an expression without a further match
  within the lookahead is exhausted.  The floor on a cron's rate is not modelled,
  so a unit of time may stand for any number of minutes.
* `RearmRead` takes its `now` with its SELECT: they are one query apart.
* The rows of one tick may be taken in any order; the code sorts them.
* One quota stands for the two caps, which are counted the same way.
* A token expires on its own; tokens of one user captured at different times do.
* `told` applies the jobs service's absorption of ended jobs to what is published and
  leaves the stream's losses to `JobsPipeline`.  The RUNNING event of a one-shot,
  followed by its end without a suspension, is not shown.
* A commit that finds a loaded row gone raises and the request fails; a refresh
  after the commit may also find it gone (`CancelReturns`, `CreateReturns`).
* A delete asks a running turn to cancel; that turn's end is `TurnEnds`.
* An exhausted cron that a post re-arms is completed and never published: this is
  the code's behaviour and `told` keeps `paused`.
* `JobsPipeline!ControlSchedule` merges `cancel_schedule`'s read and commit; the race
  inside it is this module's.

### Properties

* `AtMostOnce`, and `LedgerSpec` as the refinement: no occurrence runs twice.
* `OwnerPresent`: a firing starts under the service identity only if its owner has
  cancelled it, or this pod has announced the delete of its session, between the
  token gate and the turn.  The comment of the gate promises that there is no such
  firing at all; the window is real, and the property says that nothing else (a
  crash, an expiry, a pause, another firing, a post) opens it.
* `CancelIsFinal`: no poller takes a cancel back; only a re-arm that had loaded the
  row can.
* `EndedMeansOver`: a job shown as ended is a schedule that is over.
* `OvershootIsBounded`: scheduled and paused rows together exceed the quota by no more
  than one for every creation but one that can run at once.  Creations that race all
  count the last free slot; a re-arm, a pause or a firing adds nothing.
* `DueIsServed`: a due schedule is eventually claimed or paused.

The comments of the code also promise that a cancelled schedule is not shown as
completed; `CanceledIsNotShownCompleted` states it and does not hold (section 6).

## 5. The other components

### Turns of a chat (`AgentTurns`, `ChatHistory`)

`turn[t]` is the task of `runner.py`, `buffer[t]` the `TurnBuffer` of
`session_manager.py`, `active` and `recent` that module's maps for one session, `log` and
`watermark` the rows of the transcript and of the session, `reader[r]` a stream of
`subscribe`.  Buffers expire after their turn and, when nobody watched for long,
under it; a save may fail and be tried again; a restart loses all but the rows.
A turn whose call meets the approval gate is `parked` with its deadline frozen
(`AskHuman`), until its human decides or cancels (`HumanAnswers`) or a restart ends it;
what happens inside is `AgentApprovals`'.
`ChatHistory` is the abstract transcript: one block per turn, added at the end and
never changed; the block is tagged with its turn, and the refinement mapping is the
log.  `StreamsFollowTheirTurn` and `ContextMissesNothingRecent` are about what the client
sees and what the model is shown.

### Approvals (`AgentApprovals`)

`call[c]` is the coroutine `_await_approval` of one gated call, `waiter[c]` what the
coordinator holds for it, `row[c]` its `pending_approval` row, `suspends[t]` and
`armed[t]` the nested freeze of the deadline, `spent` the consumed references.  Calls of
a turn run side by side and the owner's requests overlap.  `DecisionsHold` relates row,
decision, deadline and action; `performed` is the history that says what was done.

### Streams and their relay (`LeadStreams`, `SearchIngest`, `LosslessStream`)

`LeadStreams` is a walk of Apollo's pages with its bounded queue, the batched
embedding behind it, the two job buffers with readers, trimming and expiry, and the
control route.  `SearchIngest` adds the detached task of search that follows both
streams on one connection, stores ids page by page and publishes status.  Each log,
with its lossy progress events left out, implements a `LosslessStream`.  `NoLeadIsLost`
joins what search stored to what leads announced, and the embedding's counters to
the leads.  `SearchHolds` is the same seen from leads alone, with the bound on how far
the walk may run ahead of the embedding.

### Records, enrichment and card (`LeadRecords`, `LeadEnrichment`, `LeadCard`)

A write reads the document, merges its answer, derives the top-level fields and
writes under a guard on `updated_at`/`derived_at`; after four lost races it writes its
answer alone.  An answer is named by the operation it came to, so that which answer a
field comes from can be told.  `LeadEnrichment` is the job that asks for several
leads in order, its embedder with a semaphore, and the cancels and pauses of both.
`RecordsHold` says that the fields follow from the answers, that nothing paid for is
lost and that the embedding flag is right; `JobAccountsForItems` that the streams tell
every item.  `LeadCard` takes one document in whatever form it may be found and
compares what leads derives with what search shows of it (`CardIsTrue`), and what it
showed before (`NothingShownIsLost`).

### Mail (`MailCampaigns`, `MailSync`)

`MailCampaigns` has the pacing loop, the ticks a start spawns, one-off sends, requests,
midnight, and Gmail that may refuse a mail or never answer.  `raced` and `lost` are the
histories the promises except: people two senders were mailing side by side, and
mails whose record a crash or an error lost.  `RowsKeepMailSingle` and
`NoSenderExceedsTheCap` are about them; the cap is compared with the largest there was,
because lowering it takes nothing back.

`MailSync` is one mailbox.  Messages are numbered as they arrive, a page token is the
message the next page starts below, the anchor a place in Gmail's history.
`CursorsLeaveNothingBehind` says, message by message, that what lies behind either cursor
is stored, and that what was removed behind the anchor is flagged.  The code does lose
some, and `excuses` tells which: `lapsed` are the messages whose news expired from the
history before it was read, `hidden` those below rows that a catch-up stored before it
was torn, below the page at which one was capped, or below a mirrored send, where the
next catch-up stops.  A message is `Lost` only if it is both; each of them alone, and
everything that happens to other messages, excuses nothing.  A removal is excused if
its news lapsed.

### Knowledge (`KnowledgeSync`)

The archive is external and changes under the walk.  `state` is the watermark: marker,
page to resume, candidate marker.  A record has a version and a stamp; `told` counts
the episodes the graph has of each version.  `SyncStateIsTrue`: the marker skips
nothing, a stamp means an episode, and a version is told twice at most once per
crash.  `ArchiveBecomesKnowledge`: a flip near the head is found, and mail becomes
knowledge through failures that pass.  Four kinds of mail are `LeftOut`, for as long as
they are: what the mail service stored below what was there, what waits in a backlog
over the threshold, what queues behind as many records as one pass takes that fail
each time (`Wedged`), and what a burst buries below the pages of a cycle before the
marker has come up to it (`Buried`).  If any one of them is not excepted, the run finds
the property violated.

### Requests to search (`MilvusGate`, `GroupedSearch`, `SearchHistory`, `EnrichBatch`)

The gate hands Milvus to waiters by priority and age; a cancel in the moment of the
hand-off must hand it on.  A grouped search fans out over it, tells each company and
saves a history row.  `SearchHistory` is the row of a streamed search under its job,
readers and its owner, with SQLAlchemy's column-wise flush of a stale copy; `paused` are
the streams of leads that somebody holds, which the job reads without a time-out.
`EnrichBatch` starts people one after the other, follows their streams and cleans up
behind a hang-up.

### Platform (`TokenBroker`, `Admission`, `ConfirmationGate`, `PolicyDrift`, `CronSchedule`)

The broker's cache with a lock per key and evictions; the door with the cache of
signing keys under rotation and outages; the gate before what is expensive, with its
buckets, tokens and approvals; the copies of the policy and the two scripts that
compare them; the cron parser, its floor on the interval, and the walk from firing to
firing over a small calendar.

## 6. Runs

| Run | Instance | Question |
|---|---|---|
| `pipeline_events` | 1 turn, 1 schedule, one drop or restart, an enumerate query that may fail in any connection, no requests, fairness | is an active event lost, does a drained store agree, are ends kept, are pending schedules shown |
| `pipeline_control` | 1 turn or 1 schedule, 1 request at a time with any action, one drop or failed write | what do requests that race events and commits do to a row |
| `sched_once` | 2 polling pods, a one-shot, a post, a creation, a crash, 3 minutes, fairness | refinement of the ledger, are due schedules served |
| `sched_requests` | 1 pod, 2 one-shots and a cron, quota 1, a post, a cancel, 2 creations, a delete, 3 minutes | fires twice, ends shown too early, by how much is the quota exceeded, finality of a cancel, who fires without a token |
| `agents` | 2 turns, the first of which may park for its human, 1 reader, 1 restart; beside it 1 turn with 2 gated calls under 3 decisions, a cancel, a time-out, a fault | streams, context, transcript; rows of approvals and deadlines; is anybody kept waiting |
| `ingest` | 2 pages in 2 chunks, queue 1, 1 control | are the streams lossless, is a lead lost |
| `leads` | a walk of 4 pages with 2 controls; a job of 2 matches with a webhook, a search and a backfill, one failure; a document under 2 writes | backpressure and pauses; do records converge; do leads and search agree |
| `mail` | 1 campaign with 2 people, a one-off sender, caps 1 and 2; beside it a mailbox of 2 old and 3 arriving mails with any two of 2 faults, a removal and a send | who is mailed how often; what the cursors promise; does the work end |
| `knowledge` | 5 messages, 4 of which arrive, pages of 1 and 3 to a cycle, a batch of 2 with 2 poison messages, any two of a flip, a late mail, a request and a fault | the marker, what is paid, does mail become knowledge |
| `search_requests` | the gate under 2 queries and a write; 3 grouped searches; a row under its job, 2 readers, its owner and pauses; a batch of 3 | is the gate fair, are groups, rows and counts true, is everybody answered |
| `platform` | 3 calls of 2 people; 2 requests at the door with 2 keys; 2 edits of the policy; 288 cron expressions; 2 requests at the gate | tokens, verdicts, rules, consent |
| `legacy_payload` | a document in the old form and one write | finding: an answer that was paid for is dropped |

All but the last pass.  TLC checks no deadlock here: every system may stop once its
bounds are used up.

### Bounds and why they are enough

Every bound is a constant with `Max` in its name, a cap of the code given a small
value, or named in the MC module (`Early`, `OneOfTwo`, `Beside`, `OneJobAtATime`).

* Pipeline.  `MaxClock` 2 gives equal, increasing and stale stamps, all that the
  guards distinguish.  Jobs share nothing but the stream, so one of each kind shows what
  one job's events can do to another's; a request names one job, so `pipeline_control`
  takes them in turn.  One fault is a loss at any moment.  A request slot is reused,
  so one gives any sequence of requests.  A failed write is left to the run that states
  nothing about the arrival of events: the subscriber does not retry one.
* Scheduler.  Two pods are the race: the guards of `_fire` know of no third.  Three
  minutes let a schedule be created, be due, and a cron with matches at 2 and 3 be
  exhausted.  Two creations under a quota of one race for its last slot, with a
  third schedule to fire beside them.  `NoRearmOverCancel` is a constraint of the run: a
  re-arm that loaded a row before it was cancelled wins, which is said in section 6.
  `CreationsApart` lets either the two creations race or a cancel or a delete happen,
  with one creation at a time; the theorems lift it and the other bounds.
* Turns.  Two turns may overlap when the first is dropped unwatched; a third finds the
  session as the second does.  One of the two may park (`Asking`), so that the other
  shows that nobody else hangs with it.  Two old messages, turns of up to 4 and
  `KeepRecent` 4 make a transcript that is long enough to be summarised.  Two
  calls with three decisions cover a decision
  against a decision, a cancel and a time-out.
* Streams.  Two pages over a queue of one fill it and wait; two chunks make a batch
  that is half done when a control comes; four pages in `leads` let the walk run
  against its bound while the embedding is paused.
* Records.  Three writers of one document lose a guard twice, which is `Attempts`;
  the second lead of the job shows that items are told apart.  `MaxOthers` 1 lets one
  other operation be under way beside the job's.
* Mail.  Two people, two caps and a send per cycle let the budget end within a
  cycle; two old and three new mails with pages of one make a backfill that new mail
  arrives under, and a catch-up that is capped.  `MaxUpsets` 2 takes faults, sends and
  the removal together: any two of them, which is what it takes to tear a catch-up and
  let the history expire behind it.
* Knowledge.  Pages of one shift with every arrival; four arrivals over cycles of three
  pages bury one in a burst, and one at a time they move the marker.  Two poison
  messages fill a batch of two and wedge it, one does not; a threshold of three lets
  the wedge happen below it and a backlog of four wait above.  `MaxUpsets` 2
  (`MCKnowledge`) takes flips, late mail, requests and faults together.
* Requests.  Two companies over a fanout of two and one slot are a search that waits and
  one that fails half-way; `MaxSkips` 1 starves a waiter at once.  `HeldUnopened`: streams
  are held only while nobody has opened the search, since a reader and a pause meet
  only through the job's commits, which the run has with either.
* Platform.  One cache entry makes every second key an eviction; tokens of four ticks
  expire under a call; two keys rotate once; two edits may cancel out, which is how
  a check that looks at one copy alone goes wrong.  A calendar of two years of two
  months, one of them longer every other year, has the leap day.

### Fairness

No fairness makes a schedule fire, mail arrive or a human act, and none makes a turn
end that waits for one.

* The subscriber of the jobs service reconnects and reads for ever, the query
  returns or fails, a poller or a control handler publishes what it committed.  Strong fairness
  is used where the model's `MaxQueue` can disable a publication that the code never
  blocks.
* Poll loops keep ticking (`_run` loops for ever and swallows a bad tick); `DueIsServed`
  is conditional on the pods being idle in the end, because a turn may wait on a
  human.
* In `AgentTurns` a turn that is not parked goes on: its deadline runs and ends it.  A
  parked one has its deadline frozen and is not fair, so `WatcherIsReleased` excepts the
  client of a turn that stays parked for good.  A reader that stays reads on.
* Search reads the streams of leads without a time-out (`leads_client.py:761`), and a
  person may pause one for ever.  In `SearchHistory` the job is fair only while nobody
  holds what it waits for (`HeldUp`), and nobody has to resume.  It is strongly fair: a
  pause is a person's act, and between a resume and the next pause leads lets a page
  or a chunk through.  `WhoWaitsIsAnswered` excepts who waits behind a stream held for
  good.  In `EnrichBatch` nothing makes a person's embedding end, and `BatchEnds` excepts
  a batch that follows one for ever; its ingests are not paused there.
* Elsewhere weak fairness of what a task does by itself: a coroutine that can run
  does, because the event loop schedules every ready one, and an external call is assumed
  to return or to fail, as clients with time-outs make it do (the streams above are the
  exception).  In
  `MailCampaigns` midnight comes; in `MailSync` and `KnowledgeSync` the loop runs
  again; there one fairness for the loop and the request together is
  enough, since the loop cannot begin while the request has the lock.  The walk and the
  embedding are each fair as a whole: the order within is the queue's.  A control, a hang-up, a request, a fault and an arrival are never
  fair.

### Findings

* `legacy_payload`: `derived.py` says that the stored answers remain the source of
  truth; the first write to a document in the old form unsets the answer it held
  (`leads.py:502`).

Met while modelling, stated around by the properties above, and not carried as
runs of their own.  A property in quotation marks is stated in the module and does
not hold.

Jobs and scheduler.
* The control proxy loads a row, calls the producer and writes the reply: if the job
  ended meanwhile the row leaves its terminal status (`control.py:166`).  Its stamp
  makes the CANCELED event of its own request stale, so `ended_at` is never set.
* Pausing a pending schedule (or cancelling a paused one) is answered with `completed`,
  which the jobs service records (`internal_jobs.py:97`).
* An end published while the subscriber is away is lost, although `store.py:7` says a
  reconnect replays everything.
* The token is checked before the claim and used after it: a cancel or a delete between
  the two lets the turn start under the service identity, although the gate says that
  it never runs without the owner's token (`scheduler.py:180`, `scheduler.py:233`).
* An enumerate query that fails when the jobs service connects leaves the pending
  schedules of a restarted producer unshown until the stream breaks
  (`jobs_producer.py:217`).
* Two overlapping posts load one paused one-shot; the first arms it, it fires, the
  second arms it again (`schedules.py:341`).  A re-arm writes over a cancel committed
  after its select.
* A cancel after the claim's re-read is not seen, and the job is shown as completed
  ("CanceledIsNotShownCompleted").  With two pollers the second may pause a cron
  between the first's claim and re-read, and the paused row is published as
  completed (the deployment has one replica).  A crash between the announcements of a
  delete and the delete leaves jobs shown as ended while their rows are scheduled.
* Two tool calls of one turn both count before either inserts, and the quota that is
  never to be exceeded is, by one for each call but one (`scheduler.py:447`;
  `OvershootIsBounded` is the exact bound).

Turns and approvals.
* A turn dropped after 90 s unwatched frees the session for a second, concurrent one
  (`session_manager.py:207`).  `finish` frees the session before the failed turn's
  message is saved, and that save may lose against the next turn's.
* A summary that is saved stands for messages it was not made of when turns overlap
  (`runner.py:422` against `history.py:299`).
* Two approvals of one reference may both pass the spent check ("ReferenceSpentOnce",
  `approvals.py:216`), and a row may then say rejected of an action that was carried
  out.  After a crash pending rows linger.

Streams.
* A cancelled ingest is later published as completed by the relay ("EndedStaysEnded",
  `docs/jobs-producer-api.md:19`).  An error of the ingest leaves the embedding's job
  shown as running, and a failure of the relay leaves both.
* The worker of an enrichment never looks at its pause.

Records.
* A vector may be overwritten by one made of an older, poorer text, and
  `embedding_source` may then disagree with it.  A match answer stored after its
  webhook drops the webhook's data from the raw entry; the derived phone survives.
* A write that lost every race leaves the flags behind until the next one.

Mail.
* The cap is per campaign and one-off send in effect: two senders side by side exceed
  it ("CapHoldsGlobally", `campaigns.py:535`) and may both mail a person
  ("NeverTwiceInACampaign", header line 12).
* A tick that counted no pending rows overwrites a pause, a cancel or a
  continuation with `completed` ("ContinuedIsNotOver", `campaigns.py:846`).
* A conflict of the mirrored row rolls the send record back (`campaigns.py:927`).
* A cycle that is refused half-way commits rows without the anchor (`sync.py:165`,
  `sync.py:256`); if history then expires, the catch-up stops at the rows it finds and
  older mail is never fetched ("NothingIsLeftOut"), although the header says that
  nothing is missed (`sync.py:11`).  A catch-up flags no removals.

Knowledge.
* Mail that the mail service stores below the marker after the backfill is never
  read ("WholeArchiveIsKnown").  A burst larger than the page cap holds the
  watermark, and what lies below the cap is never read ("Buried").  `graph_auto_batch`
  records that always fail wedge the graph pass ("Wedged"), which `runner.py:306` says
  one bad episode must not.

Search.
* `search.py:2726` looks for `"type": "error"` with a space that orjson does not
  write: an error line of the batch is followed by more lines and a `complete`.
* A hang-up while a stream is being started leaks that person's streams.
* A stream of leads that is paused and never resumed keeps the job, the jobs service's
  row and a browser waiting for ever: the read has no time-out (`leads_client.py:761`).
* Row and results of a grouped search are two commits (`search.py:2229` says
  "COMPLETE data or nothing"); a run with failed companies is saved as complete.
* A deleted search leaves the streams of leads running; `first_page` and `complete` may
  carry another user's page number; `total_results` may be stale until the next read.
* A cancelled `to_thread` call releases the Milvus gate while its thread runs on
  ("OneOperationAtATime", `milvus_client.py:184`).

Platform.
* A key that rotates in within 30 s of the last attempt to refresh is answered 401
  (`principal.py:121` says never).
* An eviction drops locks, so two requests may exchange one key; a waiter may exchange
  a subject that expired while it waited.
* Two growths merged side by side may pass the threshold unasked (`mail.py:921`); a
  confirmation without a token accepts any estimate; the estimate of a backup is never
  refreshed; a start overwrites a cancel that came between.
* `grants.py:279` says a missing key of OPA's table fails open; `authz.rego:88` fails
  closed.
* `50-70/30` parses although an end is out of range; the floor looks at 32 fires and
  may miss the tightest gap (`cron.py:214`); 29 February across 2100 finds no next
  fire; `5/15` ignores its step.

## 7. Proofs

The theorems hold for every value of the constants that the modules' assumptions
allow: any number of jobs, pods, turns, calls, leads, people, messages, pages,
faults and bounds.  All are safety: an inductive invariant, found with TLC's help, or
a step-wise refinement.  Each proof module is laid out in the same way: the parts of
the invariant, what each says and why it is needed; lemmas on the operators; a
lemma for each action, or for each class of actions that do the same to the parts;
the step; the theorems.

### Jobs pipeline (`JobsPipelineProofs`)

* `TypeCorrect`.  A control write or a commit must know that the row it updates
  exists: `ControlOK` and `ApplyOK` say so of requests and applies in flight.
* `EndedAfterStartedHolds`.  An event that carries the two times carries them in the past
  (`HubPast`, `StorePast`), and an apply in flight still agrees with the time columns it
  loaded, because only the subscriber writes them (`ApplyOrdered`); the merge of the
  two sessions then cannot reorder them.
* `ActiveEventReachesStoreHolds`.  The newest event of a job must never be behind an
  older one that the row outlives.  `DeliveryInv` says where it can be: the captured
  events are no newer than the hub, an undelivered snapshot stands before the live
  queue, and whichever of snapshot, queue or apply in flight holds the newest event
  holds nothing newer of that job.  Hypothesis: writes do not fail; the subscriber
  reads on after one that does, and the event is gone.
* `TurnRowMeansOverHolds`.  `TruthInv`: whatever carries a terminal status of a turn (hub,
  snapshot, queue, apply, reply) belongs to one that is over or was told to cancel,
  and neither is ever undone.  No hypotheses.
* `RowsTellTheTruthHolds`.  `AgreeInv` adds that a row and the apply in flight are no
  newer than the hub, and that equally new means the same status.  Hypotheses: no
  failed write, as above, and no requests, whose replies the hub does not order.
* `TerminalStays`, the half of `EndIsKept` that is not liveness.  An engine ends once, so
  all that is known of the end of a job is that one end (`EndsAgree`); an event that
  would take a row out of it is refused, and nobody else writes the row between the
  guard and the write (`LoadedIsStored`, `ApplyAdmitted`).  Hypothesis: no requests, whose
  replies may be of an older state.

### Scheduler (`AgentSchedulerProofs`)

* `SchedulerTypeCorrect`; `CancelIsFinalHolds`: what a request in flight still knows of
  the rows it loaded (`LoadedRows`).
* `SchedulerAtMostOnce`, `SchedulerImplementsLedger`.  An occurrence is used from its claim
  on.  `LedgerInv`: a held occurrence has not fired and is held once, the row of a used
  one-shot is over and no re-arm has loaded it, a used minute of a cron lies before
  the row's next one and before the clock of a re-arm, and what a re-arm has loaded
  nobody else arms.  Hypothesis `OnePost`: posts of a session do not overlap; section 6
  has what happens if they do.
* `EndedMeansOverHolds`.  A poller tells an end from what it re-read and a cancel from
  what it wrote: both are still true then (`OverInv`).  Hypotheses: `OnePost`, one poller
  (the deployment has one replica), no delete cut short by a crash, and no re-arm that
  meets a cancel; each is needed, section 6 says why.
* `OvershootIsBoundedHolds`.  The rows that hold a slot and the inserts under way together
  stay within the quota and the number of other calls (`SlotsFit`); with one call at
  a time this is the quota.  What a re-arm has loaded is still paused, and so already
  counted, when it writes (`RearmFits`).
* `OwnerPresentHolds`.  The token a poller checked is there until it spawns, unless the
  schedule was cancelled or a delete of its session has announced it (`TokenHeld`).  A
  token is forgotten by a cancel after its commit (`CancelWrote`), by a delete that has
  still to delete (`DeleteFits`), by a pause, whose row was not claimed, and by a crash,
  which takes the poller with it.

  Hypotheses of both: `OnePost`, and no re-arm that meets a cancel, which may bring a
  cancelled row back.

### Agents (`AgentsProofs`)

* `DeadlineWaitsForTheHuman`: the freeze counts the calls that wait, whatever order they
  leave in; the deadline runs only at nought; a turn that is over has no pending row.
* `ApprovalRowsAreTrue`, under `OneApprovalPerCall` (the owner does not approve one call
  twice).  What a waiter was told some request chose, and who performed has a row that
  is not rejected and will not be.
* `ChatStreamsFollowTheirTurn`, `ContextIsComplete`, `TranscriptIsAppendOnly`.  The chat's
  invariant ties buffers to turns, a stream's place to its buffer, and says that the
  log is a sequence of blocks, one per turn; what a turn has made and not saved is in
  no block, so a save that is tried again adds no second one.  The messages a row
  holds are a recursion over the log; what it misses is shown at the least row where
  it would be wrong.

### Streams (`StreamsProofs`)

* `NoLeadIsLostHolds`.  A log only grows, ends once, and trimming takes progress
  events alone (`LogOK`); what the relay received is the selection of the log's other
  events up to its place (`ReadOK`).  The pages announced are those before the walk's,
  each is in the queue or has a batch (`QueueOK`), and the embedding's counters are
  cardinalities of what it began and has still to do (`CountOK`).  No hypotheses.
* `StreamsHoldAlways` is of leads alone, whoever reads.  The queue never exceeds its
  bound and every page told is announced, so a page that is not embedded is queued,
  with a batch, or the one the walk waits with: three cardinalities.
* `StreamsAreLosslessHolds`: every step of either stream is a step of `LosslessStream` or
  stutters.

### Mail (`MailProofs`)

* `MailStaysSingle`, `SendersKeepTheCap`.  Pool rows, the log and what Gmail delivered
  agree but for the person in a tick's hand; the budget of a tick and of the sends it
  counted never add up to more than the cap it read.  Sums over senders are folds;
  that a sum bounds its terms is shown by the smallest set for which it would not.
  No hypotheses.
* `CursorsLeaveNothingBehindHolds`.  A page is the top of what lies below its token, so
  nothing lies between a page and the next (`PageFacts`, from cardinalities).  History
  tells arrivals in order.  Between cycles nothing is missing below a stored message
  but what lies ahead of the backfill and what is hidden (`NoGap`), and a catch-up keeps
  that of what it has walked (`WalkedOK`): this is why it may stop at the first page
  without news.  What is hidden and has not lapsed is still to be told by the history
  above the anchor.  No hypotheses.

### Knowledge and platform (`PlatformProofs`)

* `SyncStateIsTrueHolds`.  One run works at a time and has in hand what the graph does not
  (`LockOK`).  Arrivals push messages down, so what lies between the newest message a
  walk has met and its page has been read (`WalkOK`, `ResumeOK`).  Paying is counted as
  a set: the episodes that repeat a version, and those that will because the record was
  told and not stamped; distilling moves an element from the second to the first, and
  only a crash adds one (`PaidOK`).  No hypotheses.

A step of the platform is a step of each of its parts or leaves that part alone
(`PartsNext`); so each part has an invariant of its own, and the next three theorems
put them together.

* `CostsAreAgreedToHolds` (`GateInv`).  A growth in flight was estimated with all the
  campaign had when it was read, and a start with all it has; from the moment either
  has passed, the campaign is within the threshold or what was agreed to, and what
  others merged since (`AskOK`).  Two sizes in one bucket differ by less than its width,
  which bounds what an approval may be stretched to.
* `IdentityHoldsAlways`.  Tokens (`TokenInv`): one lock is registered for a key that was
  never dropped and all who want the key wait for that one (`LocksOK`), so who holds it
  is alone; a call is in the air for no longer than its time-out, so what it brings
  home is still fresh (`TimesOK`).  Admission (`DoorInv`): one visit is at the lock;
  a published key that the cache lacks is younger than the last attempt, and a key it
  has that is no longer published was retired after the last fetch began (`CacheOK`).
* `RulesHoldAlways`.  What a schedule fires next is the first minute ahead that its
  expression names: shown of the walk that finds it, by the least minute, and of the
  samples that the floor looks at, by induction over their number in the form of a
  least counterexample (`CronInv`).  `PolicyHolds` compares copies within one state
  and needs only their types.

The assumptions they use are those of the modules: finitely many calls, a threshold
within the bound on sizes, a well-formed token names a key that exists, paths are
sequences, a cron field has an item, the lengths of the calendar are naturals.  Two of
them are about Keycloak and the network, not about the code.  What the broker takes for
fresh (`expires_in` less the slack of 30 s, but one second at least, `tokens.py:209`) has
to end a time-out before the token does: true of every token that lives longer than the
slack, because the time-out of 10 s is shorter than it, and false of one issued for a
few seconds, which the code would hand out after its end (`LifeAssumption`).  And a
refresh of the signing keys is over within the interval between two, which with the
fetch's time-out is less than the time they are cached.

### Leads (`LeadsProofs`)

* `RecordsHoldAlways`.  What a write makes is right, whatever it was made of (`DocsOK`).
  What an operation has in hand may be old; the guard on the version lets it write
  only if it still fits (`OpsOK`).  For each document that is not flagged, an operation
  is on its way to flag it, or has failed or was left out (`FlagsOK`).
* `JobAccountsAlways`.  The items before the one in hand are told and with the embedder,
  the queue holds each once and the sentinel last (`JobInv`).
* `CardIsTrueAlways`, `NothingShownIsLostEver`.  The fields a write derives cover every
  answer it leaves (`CardInv`), so the card shows what they say and loses nothing.
* `SearchHoldsAlways`.  The streamed search in the run of the whole service is an instance
  of `StreamsProofs`, with constants in the place of the relay and of the reader, and
  keeps the invariant that is proved there.

None of the five has hypotheses.

### Search requests (`RequestsProofs`)

* `RequestsAreTrue`.  Of a search: while its row is there, what is stored is what its
  job has seen, or what was imported (`RowOK`), and only grows; so a total that a
  reader has counted is still stored when it is written, however late (`ReadersOK`).
  The stage of the job fixes what was told (`ToldOK`) and how many results there are
  (`JobOK`).  That no lead is stored twice rests on what the fold `Unseen` returns:
  it is shown to have a value by a least counterexample, then to be injective.
  Of a batch: what a watcher knows of its streams and what leads runs agree until the
  watcher is over (`PersonOK`); a counter is the cardinality of the people counted
  (`FinishedOK`), so the counts told rise and only the last clears a ring
  (`NotesOK`).
* `PageKept`.  A job that shows the only page has fewer results than one page holds,
  so every later page is empty (`LaterPagesEmpty`).
* `GroupedSearchIsTrue`.  Of the gate: who is pending is in the queue of a gate that is
  held, one task holds it, only who waits was passed over, and no task more often than
  the bound and those before it allow (`WaitersInv`).  A hand-off keeps the order of the
  others: `Kept` is a recursive function, shown to have a value, and that value to be
  the selection, at a least counterexample.  Of a search: a company that is through was
  told or waits to be, once each, for as long as somebody listens; a terminal line is
  the last (`LinesOK`, `HeardOK`), and a row is saved when all are through (`SavedOK`).
  The slots and permits in use are the cardinalities of who streams and who
  searches (`LimitsOK`).

No theorem has hypotheses; the modules assume positive sizes, finitely many tasks at the
gate, that an import brings each lead once, and that no company is called "none".

### Only model-checked

* All liveness: fairness and ENABLED are out of the prover's reach.
  `PendingScheduleIsShown`, `DueIsServed`, `NobodyIsKept`, `LeadsStreamsEnd`, `MailWorkEnds`,
  `ArchiveBecomesKnowledge`, `RequestsAreAnswered`, `NobodyWaitsForEver`, and of `EndIsKept`
  the half about arrival (the other is `TerminalStays`).
* `NoAnswerIsDropped`, which a run finds violated (section 6).

## 8. Mutants

Each property of each passing run has a mutant: a variant of one mapped definition
that is a plausible slip in the code (an unstamped row, a queue registered late, a
non-strict guard, a lost flag, a dropped lock), under which TLC finds the property
violated.  They stand next to the definition they vary.

## 9. Not modelled, and why

Out of scope as a whole: rendering and forms of the front ends, request forwarding of
the MCP gateway, Cypher generation and the read queries of knowledge, logging,
tracing and metadata, manifests, dashboards and realm exports.  They keep no state
of their own or are external systems' data.

Left out of modelled parts:
* Jobs: attribution, progress, `exit_status` and `meta` of events, the list and get routes.
* Turns: `lastError`, titles, token usage, deleting a session under a turn.
* Streams: the reason of a partial end, the amortised budget of write pressure.
* Records and card: texts and vectors themselves, organizations and the company link,
  the resolve cache, chips of documents without derived fields.
* Campaigns: templates, content edits, stats, several mailboxes of one domain.
* Mail sync: labels, OAuth, account deletion, parsing.
* Knowledge: the connectors of searches, campaigns and agent sessions, the session
  pass, an unavailable graph.
* Search: the page cache, CSV and MCP export, labels, heartbeats, relay overflow
  bounds, the building of queries.
* Platform: claims, tracing headers and settings; caller allowlists, the gateway
  branch and TCP pairings of `authz.rego`; binding of approvals to a subject.

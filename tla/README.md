# A TLA+ verification of the GASU schedule bot

This directory holds TLA+ models of the bot in this repository, the TLC configurations that check
them on small instances, and TLAPS proofs of the properties that matter most. `PROJECT.json` lists
the runs, the source lines every definition stands for, the hazards and the theorems.

    tlc -workers 2 -config PublisherCalm.cfg MCSchedulePublisher.tla     # a run
    tlapm SchedulePublisherProofs.tla                                     # the proofs of a module

## 1. The system

The package `szs_hub` has two release profiles.

* **`schedule_only`**, the selected release, is stateless between runs. A GitVerse cron job in Russia
  (`schedule/bridge_cli.py`, `publisher.dispatch_schedule`) stamps its clock, reads the university's
  schedule and dispatches a GitHub workflow with a two-week envelope. The receiver workflow
  (`publisher.publish_dispatched`) and a reminder cron (`publisher.publish_due_reminder`) restore a
  JSON state from the Actions cache, update one Telegram topic and save the state again.
* **`full`**, implemented but dormant, is one process around a SQLite database: a poller stores
  Telegram updates, workers run queued jobs, an outbox sends messages.

### Components, their state and what makes them correct

| component | state | operations | correct when |
|---|---|---|---|
| publisher (`publisher.py`, `schedule/ci.py`, two workflows) | state file, Actions cache, pending run, topic | fetch, hand-off, restore, card upsert, notices, evening summary, reminder, save | every change is announced once and in order; nothing is recorded that was not sent; one card |
| personal sender (`personal_sender.py`, `tools/telegram-personal`) | a child process | preflight, send, edit, pin | an identity of its own, never a second card for the bot's |
| job queue (`jobs/queue.py` `JobQueue`, `jobs/worker.py` `JobWorker`) | table `jobs` | enqueue, defer, claim, sweep, succeed, fail | late reports have no effect, every job ends |
| outbox (`OutboxQueue`, `OutboxWorker`, `telegram/sender.py`, `telegram/application_sender.py`) | table `outbox`, rows written by the confirmation | enqueue, claim, send, confirm, sent, fail | at-least-once delivery, one confirmation per row |
| schedule synchronisation (`schedule/service.py`, `schedule/coordinator.py`, `jobs/application.py`) | snapshots, changes, confirmation marker, message ids | sync, evening card, change notice | the day card shows the confirmed timetable, every change is told |
| attendance, membership (`attendance/service.py`, `domain/attendance.py`, `membership_store.py`) | sessions, marks, roster | open, react, close, summarise | marks follow the user's last reaction, one summary message |
| materials (`materials/*`) | table `materials`, evidence | assess, copy, review, extract | every source message is copied in the end, and once unless something fails |
| update intake (`telegram/runtime.py`, `storage/inbox.py`, `telegram/handlers.py`) | inbox, processed updates, offset | poll, admit, process, back off | no update is lost, effects survive a re-execution |
| live archive and import (`archive/*`, `storage/fts.py`) | messages, files, index | ingest, edit, import | the stored message is its newest version |
| assistant and quota (`ai/*`, `assistant/*`) | usage counters, conversations | reserve, reconcile, record | usage keeps the limits, but for what a request takes above its reservation |
| source client (`schedule/spbgasu.py`, `domain/schedule.py`) | none | parse, materialise a week, compare two versions | a notice tells exactly what has changed |
| retention (`retention.py`) | the other parts' tables | a daily job in batches | what it calls done is empty |
| health, probe, alerting (`health.py`, `alerting.py`, `app.py`) | heartbeat, probe, marker file | beat, probe, check, alert | the owner learns that the runtime is gone |
| backup, restore, lock (`backup.py`, `storage/process_lock.py`) | database file, its log, copies | back up, restore | nothing that was committed is lost |
| rendering, migrations, deployment | none, or files | text, schema, scripts | see section 6 |

### How they interact

GitVerse -> (workflow dispatch) -> concurrency group `szs-schedule-state` -> receiver or reminder run
-> Telegram, with the Actions cache as the only memory. In the `full` profile the poller commits
updates to the inbox, the update worker runs handlers that write domain rows and enqueue jobs, job
handlers write domain rows and enqueue outbox rows, and the outbox worker sends and then confirms in
one transaction that other handlers read (`system_settings` message ids, `notified_at`, sessions).

### What is hard

* Overlapping GitVerse runs, and a concurrency group that keeps only the newest waiting run.
* A run that fails between two sends, two saves, or a send and its save; a runner that dies; a cache
  that is evicted; a reply that is lost.
* Leases that expire while the handler still works, and late reports under a reused worker id.
* Two-transaction steps (commit, then enqueue), digest-based idempotency keys, and updates that are
  applied out of order after a backoff.
* Albums that arrive in parts while their copy is under way, and are edited, extracted and assessed
  again meanwhile. The row of an album has two writers in two tasks, and no lock: each reads it outside
  of a transaction and writes it later.
* A provider that may take more tokens than were reserved, for answers that may never be accounted for.
* An import or a restore that dies half way, with a runtime before and after it.

`PROJECT.json` "hazards" lists these at their lines, with the properties that cover them.

## 2. Modules

| module | role |
|---|---|
| `SchedulePublisher` | the whole `schedule_only` release |
| `JobLedger` | what the durable queue promises: no leases, no workers |
| `JobQueue` | `JobQueue` and `JobWorker`: rows, leases, attempts, reports; implements `JobLedger` |
| `AtLeastOnce` | what the outbox promises: tries, arrivals and records, no leases, no workers |
| `Outbox` | `OutboxQueue`, `OutboxWorker`, the frame of the confirming sender; implements `AtLeastOnce` |
| `ScheduleDelivery` | synchronisation, coordinator, recurring jobs, notices and day cards; extends `Outbox` |
| `UpdatePump` | polling, the durable inbox, dispatch, backoff, restart |
| `Attendance` | a lesson's card, reactions, roster and summary; extends `UpdatePump` and `Outbox` |
| `Materials` | an album from its arrival to its copies; extends `UpdatePump` and `Outbox` |
| `Archive` | the database file and who owns it: runtime, import, backup, restore |
| `Assistant` | questions, quota, provider and conversations; extends `UpdatePump` |
| `Watch` | heartbeat, probe, health check, alert |
| `Retention` | the daily retention job against the tables it empties |
| `Timetable` | lesson identities and `diff_schedules` |
| `MCSchedulePublisher`, `MCJobQueue`, `MCScheduleDelivery`, `MCAttendance`, `MCMaterials`, `MCOperations` | the TLC instances |
| `SchedulePublisherProofs`, `JobQueueProofs`, `OutboxProofs`, `PumpProofs`, `DeliveryProofs`, `IntakeProofs`, `MaterialsProofs`, `OperationsProofs` | the proofs, section 4 |

`Outbox` and `UpdatePump` are made to be extended: a module that uses one conjoins the change of its
own variables to an action of theirs (`Confirm(w) /\ ...`, `Handle(from, to) /\ ...`), so that the
effect and the queue's own change are one step exactly where the code has one transaction. In
`Attendance` and `Materials` the pump and the outbox are both there, and everything interleaves.
`MCOperations` puts six parts that share no state (archive, assistant, watch, retention, timetable, and
the outbox by itself) into one state machine that runs one of them, chosen at the start. Its states are
the sum of theirs, so one run answers for all of them.
`MCAttendance` likewise shows one of two scenes: a lesson in which nobody comes or leaves the group,
or a group whose roster changes while the sessions rest.

### SchedulePublisher and the code

| TLA+ | code |
|---|---|
| `site`, `EditSite` | the pages at rasp.spbgasu.ru |
| `fetch`, `BeginFetch`, `ReadSource`, `HandOff`, `AbandonFetch` | `dispatch_schedule`, `build_schedule_envelope`, `GitHubWorkflowBridge.dispatch` |
| `pending`, `Submit`, `RequestOther` | the `concurrency` block of both workflows, `queue: single` |
| `run`, `StartRun`, `RejectRun`, `LoadStale`, `LoadFresh`, `LoadReminder`, `LoadLegacy` | one workflow run up to its first Telegram call |
| `EditCard`, `EditFails`, `EditFindsNoCard`, `CreateCard`, `CreateFails`, `PinCard`, `PinFails` | `_upsert_calendar` and the destination's calls |
| `KeepCard` | the first `save_delivery_state` of the receiver; the reminder path has none |
| `Send`, `SendFails`, `Commit` | notices, evening summary, reminder, and the final `save_delivery_state` |
| `disk`, `cache`, `EndRun`, `LoseRunner`, `EvictCache` | the restore and save steps of the workflows |
| `posted`, `repeated` | history: what the topic received, and what it received twice |

A Telegram call is an action of its own, so a run can fail at each of them. A call may be *rejected*
(an HTTP error, a `RuntimeError`), *unreachable* (a transport error before delivery) or have a *lost
reply* (delivered, then a transport error). Transport errors are `RuntimeError`s for the personal
sender only, which is why only the bot's pin call can fail a run. Lessons are abstracted to one
timetable per day: `Changes` is `overlapping_changes` at the grain of a day, `Blocks` the lesson
blocks `due_reminder` reads, `Actionable` the pairs with an actionable `ChangeKind`. Text and layout
are left out.

### JobQueue and the code

One action is one SQLite transaction. `Claim` is `claim_due` with its sweep (`Exhausted`), in one
step; `SweepOnly` is a poll that claims nothing; `Succeed`, `Fail` and `ReportTooLate` are `succeed`
and `fail` with their common WHERE clause `Holds`; `Crash` is a cancellation or a dead process.
Deadlines are kept as time left, so the state space is finite without a bound on the clock. A
conflicting enqueue (other content under the same key) raises and changes nothing; it is a stutter.

### Outbox and the code

| TLA+ | code |
|---|---|
| `outbox[k]`: status, id, attempts, due, op | a row of table `outbox` by its idempotency key; `due` is `available_at <= now` |
| `Enqueue`, `Conflict` | `OutboxQueue.enqueue`; the same key with another kind or message is an `IdempotencyConflict` |
| `Claim`, `Sweep` | `claim_due` with `_fail_exhausted_expired`, with and without a row |
| `Deliver`, `LoseReply`, `Refuse` | the Telegram call: answered, carried out without an answer, or refused |
| `Skip`, `Confirm` | `ApplicationTelegramSender.send` before and after the call |
| `Sent`, `Fail`, `Die` | the reports with their WHERE clause `Holds`; a cancellation or a dead process |

A key stands for its text, since keys are digests of what they send; `op` is what they do not
determine, the kind and the message to edit. `available_at` is both the next attempt and the lease's
end. How long either takes is left open (`Elapse`), which also covers a slow sender and a fast clock.
`OutboxNext` is the outbox by itself; there `Skip` is taken for a row whose effect is on record.

### ScheduleDelivery and the code

`marker[w]` is the confirmed timetable of a week with its age and its failed attempt (the snapshot
and the marker of `ScheduleSyncService`), `stored` and `notified` the rows of `schedule_changes`, `card` the
message ids in `system_settings`. `Synchronise` is the successful transaction of `sync_week`.
`SyncSucceeds`, `SyncFails` and `NoAccess` are the passes of `current_and_next`; `PublishNotice`,
`ReadCard`, `EnqueueCard` and `CardConflicts` are the later transactions of `schedule_sync`, and what
it still holds in memory is `work`. `EveningLoad`, `EveningRefreshes` and `EveningFallsBack` are
`get_week` in `schedule_evening`; `Answer` is a command that refreshes. `Record` is the confirmation.
The rows of table `jobs` are only open or ended here, since `JobQueue` is about their leases.

### UpdatePump, Attendance and the code

`Fetch`, `Admit`: `poll_once` and `admit`; Telegram forgets what lies before the offset it is asked
for. `Begin`, `Handle`, `RecordProcessed`, `RecordFailure`, `WaitOver`, `Restart`: `process_ready`,
`process_one`, `_record_failure`, `initial_offset`. In `Attendance` a handler is `MarkOrUnmark` (or
`IgnoreReaction`) and then `EnqueueSummary`, as the code commits the mark first; `ApplyChatMember` and
`ObserveSender` are the two kinds of evidence in `membership_store.py`. `OpenAttendance`,
`ReadSummary`, `EnqueueText` and `TextConflicts` are job handlers, `CloseDue` the closing of sessions,
`Record` the confirmation, which opens the session or keeps the summary's message id. The unit of
time is five seconds, the bucket of a summary's key, so two updates may carry the same date.

### Materials and the code

`Ingest` and `AdmitJobs` are the two transactions of the message handler, `LoadCandidate`, `Persist`
and `EnqueueReassessment` those of the extraction job. `Score` is the sum of `assess_material` in
`domain/materials.py` in hundredths, `RouteOf` the thresholds, `Scheduled` is `_scheduled_source_ids`, and
`PollRows` a poll of the outbox with its sweep.

The assessment is `Read`, `Store` and `Act`, and the confirmation of a copy is `Send`, `ReadBack` and
`Record`. A SELECT takes no lock and begins no transaction (storage/database.py:102-123: sqlite begins one
with the first write), so the row of the album that `assess` reads at automation.py:223 may have changed
when it is flushed at 294, and likewise between application_sender.py:128 and the commit at 153. `Read`
and `ReadBack` therefore keep what they have seen of the row in a local (`assessor.seen`, `seen`), and
`Store` and `Record` write the columns they change as made from that, the whole evidence included: the ids
of a copy may be lost, or an old route put back. `Store` is one step from its flush on, since from there
the transaction holds the database. `overwritten` and `copies` are histories: whether a writer has
overwritten what it had not read, and how often each message came to the topic.
Edits carry a date in seconds, and an
edit of the same second as an earlier one is left out: it would share its admission key.

### Archive, Assistant, Watch, Retention, Timetable and the code

* `Archive`. `disk` is the main file and the write-ahead log; `Commit` writes the log, `Checkpoint` and
  a clean stop move it. `PrepareRun`, `ImportBatch`, `FinishRun` and `EndImport` are `_prepare_run`, a
  batch with its `next_index`, the end of `run` and `_import_apply`; `Merged` is `_merge_message`.
  `CopyForSafety`, `MoveSidecars` and `Replace` are `restore_backup`. `Death` is the end of the
  owner anywhere between.
* `Assistant`. `Reserve` and `Reconcile` are transactions of `DurableDailyQuota`; `ProviderAnswers`,
  `ProviderRepeats` and `ProviderFails` are `ai/provider.py`, `RecordExchange` the conversation.
  `AssistantRaises` puts the question back, and the handler runs again as a whole. What a request costs is
  any of `Costs`, since nothing bounds it by the reservation (3000 by default, config.py:103, against
  prompts of 12,000 characters and more). Tallies by period (a day or a month) say what happened; the code
  keeps none of them: `spent` is all that was charged, `repeats` the part of it for requests the client
  then repeated, `unmetered` what the others took above their reservation and no counter was told, and
  `calls` counts every request that reached the provider, the repeated ones too. `Reserve` and `Reconcile`
  are one step each although the counters are read outside of a transaction: the update worker is alone
  in calling them.
* `Watch`. `Beat`, `ProbeSucceeds` and `ProbeFails` write what `CheckHealth` reads; `Suppress`,
  `BeginAlert`, `DeliverAlert` and `MarkAlert` are `send_owner_alert` under systemd's restarts.
* `Retention`. `StartRun`, one `Redact` per table, `NextBatch` and `EndRun` are
  `maintenance_retention` and `run_batch`; rows are closed and conversations continued between them.
* `Timetable`. `Materialized` is `materialize_week`, `Matched` is `_match_lessons` with its pass by
  identity and its pass by likeness, `Diff` is `diff_schedules`. `ChangesTellAll` compares them with a
  reference: a reader who applies the changes to the old timetable has the new one.

## 3. Runs

| run | question | result |
|---|---|---|
| `publisher_calm` | Telegram answers, runs overlap, calendar writes fail: is everything told once, in order? | pass |
| `publisher_faults` | rejected calls, lost replies, dead runners, evictions: does the state claim only what happened, and never go back? | pass |
| `publisher_card` | quiet mode, two senders, deleted cards, forced and legacy requests: one card each, and the baseline waits for the notice? | pass |
| `publisher_second_card` | one card when a single call is unreachable? | violated |
| `publisher_reversed` | only real changes announced when pages are read after the stamp? | violated |
| `job_queue` | leases, fencing, immutability, the ledger, termination | pass |
| `schedule_delivery` | is what the database says of the topic so, is every change told, is the card current? | pass |
| `delivery_evening` | one evening card for a day? | violated |
| `intake` | is no update lost, do marks, roster and summary follow the group? | pass |
| `materials` | is an album copied whole, by its last captions and texts, and once but for failures? | pass |
| `operations` | import and restore, what the assistant may spend, two processes on one outbox, the owner's alerts, retention, differences | pass |
| `import_downgrade` | does an import leave live snapshots as they are? | violated |

**publisher_calm** shows `NothingRepeated`, `NoticesChain` (the notices form a chain of disjoint spans
of the source's history), `AnnouncedChangesHappened` and `ChangesAreAnnounced`. **publisher_faults**
gives up the first, since at-least-once is what the code does when a send fails, and shows
`RecordedMeansDelivered` and `BaselineNeverRegresses`. **publisher_card** shows `SingleCard`; its
faults are those the code answers for, so a transport error is excluded there and has a run of its
own.

**publisher_second_card** (finding). After `send_rich` created the card, `pin_message` raises an
`httpx` transport error. `_upsert_calendar` suppresses `RuntimeError` only (publisher.py:838), the run
fails before the first save, and the next run creates a second card, against the comment at
publisher.py:825. The reminder path forgets a replacement card in a similar way: it saves only at its
end and its workflow saves only after a success, so a rejected reminder after a replaced card leads to
another card. No run of its own records this.

**publisher_reversed** (finding). `dispatch_schedule` takes `fetched_at` before it reads the pages, so
the envelope with the newer stamp may carry the older timetable. The receiver trusts the stamps and
announces a change backwards, against the comment at publisher.py:460-461. In `publisher_calm` the
stamp and the pages are one step; `publisher_card` keeps them apart but has one fetcher.

**job_queue** checks `OverlapOnlyAfterExpiry`, `EndedRowsStay`, the refinement `ImplementsLedger` and
the liveness property `EveryJobEnds`.

**schedule_delivery** shows, besides `TypeOK`, `RecordsAreTrue`: a change with `notified_at` and a day
with a message id have been in the topic. `ChangesAreTold` and `CardIsCurrent` are about the end of all work.
Each says when the code does *not* keep them: after a failure or a restart between two transactions,
when a key is met again (a timetable that goes back), and for changes that the evening job or a
command has found (`lost`). These exceptions are the code's; `hazards` names their lines.

**delivery_evening** (finding). The evening job enqueues a card, and before the outbox has confirmed it
the process restarts and the timetable changes. The job runs again, sees no message id, and enqueues
another card under the digest of the new text, against docs/ARCHITECTURE.md:55.

**intake** shows `NothingForgotten`, `MarksFollowReactions`, `RosterIsTrue` and `SummaryIsCurrent`. The
second is limited to runs in which no update was put back: a reaction that is put back and overtaken by
the user's next one leaves the wrong mark, although domain/attendance.py:52 says that the decision does
not rely on delivery order. The last is limited to runs without a failure, since a crash between the
mark and the enqueue loses the summary, and to runs in which no bucket or text comes up again.

**materials** shows `OneLiveCopy` (no message is in two copies that are or may yet be carried out),
`CopiedOncePerFailure` (none comes to the topic more often than once and once for every failure),
`MaterialIsCurrent` and `ArchiveIsNewest`. The first two hold although the record of the copies in the row
may be overwritten, and that is what they are about: the assessment goes by the outbox and not by the
record, and its mutant that trusts the record breaks the second. `MaterialIsCurrent` is about the topic, and
about the row only if nothing was overwritten. Where something was, the code leaves ids of copies out, or
an old score and route in, for good. That is no finding, since no comment says otherwise; `hazards` names
it. Failed rows and a review that is assessed again with another score (its key meets another text) are
left out of the property too.

**operations** shows `ImportIsComplete`, `PriorIsKept`, `ArchiveMovesForward`; `SpendIsAccounted`,
`BudgetHolds`, `EveryUpdateEnds`; `GoneIsSeen`, `OwnerIsTold`; `PrivacyHolds`; `ChangesTellAll`; and, for
two processes on one outbox, `ImplementsMailbox` and `EveryMessageEnds`. `ImplementsMailbox` maps a row to a
message of `AtLeastOnce` (its stage, its attempts as tries, `accepted` as arrivals, `confirmed` as
records): nothing arrives more often than it was tried, what counts as sent has arrived and is on record,
and only what has no try left is given up, also if a worker reports after its lease. `SendsWithinAttempts`,
`RecordedBeforeSent` and `EndedMessagesStay` each say a part of this; they are proved as well, and have no
run of their own. `EveryMessageEnds`: no row stays open for ever, also if it is the last attempt that dies.

`SpendIsAccounted` says by how much the counters of a day or month may fall short of what was charged:
by `repeats` and `unmetered`, and no more. The comment at quota.py:32 ("crashes therefore overcount, never
undercount") holds only of what the reservation covers. A request that takes more, and after which the
process dies, or that fails, or comes without usage, leaves the counters below; no run of its own records
this. `BudgetHolds` says what the limits are worth then: tokens pass a limit by the excess of one request
at most (a metered excess is added at quota.py:115-118, and the next request sees it) and by what cannot
be counted; requests, retries included, are at most `MaxRetries + 1` for each that a limit allows. The code
forbids retries outside local development (config.py:157), where that is one.

**import_downgrade** (finding). A caption is exported, then taken away by an edit the runtime archives.
The import takes the empty row for one whose text is unknown and writes the old caption back, against
the comment at archive/importer.py:431.

### Bounds

* Publisher. A day has two ticks (before and in the evening window, and one boundary between the two
  classes of `plan`); a week has one day, so the horizon is two days and moves within the run; three
  ticks and three days in `publisher_calm` let the horizon move and a day be new, known and past. Two
  fetchers are enough for one overtaking the other; more would be overtaken pairwise. `MaxCards` 2
  lets a second card appear. `MarkerCap` 2 lets the marker list overflow (100 in the code). Fetchers
  are a symmetry set in the runs without liveness; no publisher run has a liveness property.
* Jobs. Two jobs of the application worker compete for two processes under the same worker id; one of
  them has two attempts, so that an old and a new attempt overlap. A job of the other worker shows the
  sweep by kind. Leases, first delay and furthest `run_at` are one tick. The age of an overdue row is
  told apart up to `MaxAge`; beyond it the order of claims is left open, which allows more than the code.
* Outbox. Two senders, one row and two attempts: an old and a new attempt overlap, either process sweeps
  the row while the other still sends. One operation and one answer. `schedule_delivery`, `intake` and
  `materials` have several rows and operations, and the theorems any number of each.
* Schedule delivery. Weeks of one day, so that today and tomorrow are the two weeks
  `current_and_next` reads; two versions, enough for a change and its return, and symmetric.
  `MaxEvents` bounds changes of the source and failures together, `MaxCards` the messages. One
  attempt for a row and one try for a job: `delivery_evening` has jobs that are tried again, `intake`
  and `materials` rows, and the theorems any number of either.
* Intake. Three updates of one user: a reaction, its removal or a move, and another; the second
  attempt of an update is the last. Three moments make an opening, a bucket and a closing edge.
  `MaxTroubles` 1 allows one failure or restart anywhere. A row of the outbox has one attempt, so that a
  sweep ends it under a slow sender; in `materials` it has two. A reaction while the roster changes is in
  no scene; `RosterFollowsGroup` and `MarksAreTrue` hold without scenes.
* Materials. An album of a document and a photo, three updates (both messages and an edit of the
  document, whose caption decides: its text says nothing), one second for edits, which come when the album
  is there. A copy row may be tried twice, and one failure or restart may happen anywhere, so a message is
  copied twice at most. One worker sends; a lease that runs out meanwhile has no effect then, and with more
  of them, which only the theorems allow, a lease is taken to outlast its call.
* Operations. Two messages in batches of one, of which one is edited, and its caption taken away; one
  death and one restore anywhere, which meet only where nothing is imported. There is
  one backup file, and the safety copies of restores are kept as a set. Two users, polls of one update,
  two days of one moment, a month of both, and limits for the user, the day and the month that two
  questions come up against. A reservation is two tokens and a request takes one or three, less than it or
  more, with one retry; the limits of tokens are odd and even, to be met and to be passed. Three hours against a cooldown of two and limits of one.
  Four days, batches of one row and two batches a run, so that a run ends both with and without
  something left; the tables `outbox` and `talks`, one for each rule, because the others have the rule
  of `outbox` and an age of their own. Two slots of up to two blocks, taken from three that differ in
  subject, room and group; every pair of such weeks is compared.
* `CHECK_DEADLOCK` is off in `intake`, `materials`, `operations` and `import_downgrade`: their clocks and
  updates end, and the parts come to rest with everything handled. In the others the environment
  can always act.

### Fairness

`JobQueue!FairSpec` assumes weak fairness of

* `Tick`: time passes;
* `Poll(w)`: `JobWorker.run` polls in a loop until it is stopped (worker.py:72), and a supervisor
  restarts the process;
* `EndHandler(w)`: handlers end. **The code does not enforce this**: `run_once` has no timeout around a
  handler (listed as a hazard). A crash is the other way out of a handler and is never required;
* `Report(w)`: after a handler, `fail` or `succeed` is called.

`EveryJobEnds` also assumes that deferrals stop, because an `extend_existing_run_at` enqueue may put
off a pending row without limit. There is no fairness of `Claim` for a particular job. The publisher
has no liveness property: crons and runners are best effort, and a waiting run may be replaced for ever.

`MCOperations!Spec` assumes, for `EveryMessageEnds`, weak fairness of `WorkOn(w)` for each worker, whose
parts are `PollQueue(w)` (the loop of `OutboxWorker.run`), `EndCall(w)` (a Telegram call ends with an answer
or an error, by the client's own timeout) and `Settle(w)` (the confirmation and the report that follow);
and of `Elapse` for some row (`available_at` passes). It assumes neither that a call is carried out nor that a process survives: deaths need no bound,
because each costs an attempt that was counted at the claim.

It assumes, for `EveryUpdateEnds`, weak fairness of `PollerStep` and `WorkerStep` (the
two loops of the runtime, which a supervisor starts again) and of `Backoff` for some update (time passes
until `available_at`). Failures and restarts are finitely many, by `MaxTroubles`. Nothing is assumed of a
single update: the worker takes the oldest that is ready, and the property says that none is passed over
for ever.

## 4. Proofs

TLAPS proves the following for every value of the constants that the named assumptions allow, so for
any calendar, any timetables, any number of users, messages, updates, jobs, workers, senders, attempts
and failures. The assumptions are typing facts, except for these.

| assumption | what it says | why the code justifies it |
|---|---|---|
| `NoticeAssumption` (`ScheduleDelivery`) | every envelope the code can write has a key | a key is a digest of what is sent, there is one for anything |
| `MessageAssumption`, `ScoreAssumption` | message ids; the plain copy and the scores of a review are among the operations of a row | they are in the payload |
| `QuotaAssumption` (`Assistant`) | limits, reservation and lengths are positive and there is an asker; costs are any numbers, with no bound by the reservation | `ge=` in config.py |
| `AlbumAssumption` (`Materials`) | captioned messages and documents are in the album | bounds of the instance |
| `CalendarAssumption` (`ScheduleDelivery`) | tomorrow is a day, next week a week | the calendar goes on |
| `WindowAssumption` (`Attendance`) | a session opens before it closes | the lesson's hours |
| `RetentionAssumption` | the tables include the conversations; ages and limits are positive | they are cleaned in every run |
| `SentinelAssumption` (`ScheduleDelivery`) | `Nothing` is neither a week nor a timetable | a week without a marker has none |
| `RowAssumption`, `AnswerAssumption` (`Outbox`) | "no key", "no message" are none | `None` is neither |
| `PhaseAssumption` (`Attendance`, `Materials`), `StatusAssumption` | the phases and statuses the handlers use, and that a writer can be a member | the handlers of the module |
| `TimetableAssumption` (`Timetable`) | subjects have an order, different ones are less than alike | they are sorted as strings; the ratio of different strings is below one |
| `KeyAssumption` (`Attendance`, `Materials`) | the rows are the card and a summary for each present and missing; a copy and a review for each set of messages | nothing else is enqueued there |
| `FiniteAssumption` (`Outbox`) | finitely many rows and senders | there are |
| `WorkerAssumption`, `TimingAssumption` (`JobQueue`) | every worker has an id, the first delay is at most the longest | the constructors check it |
| `TimetableAssumption`, `EnvironmentAssumption` (`SchedulePublisher`) | a free day has no lessons, there is a sender | it is what free means; a run without one does not start |

A hypothesis that limits the *faults* is stated in the theorem (`ASSUME ... PROVE`) and explained there.

**SchedulePublisherProofs**

* `TypeCorrect`: `Spec => []TypeOK`. `Next` is split into the world, the group and the publishing
  steps, each with a typing lemma.
* `BaselineIsMonotone`: `Spec => BaselineNeverRegresses`, and `BaselineAdvancesAnnounced`:
  `Spec => ChangesAreAnnounced`. Neither follows from the types, since the cache is written from the
  state file in a later step than the comparison. The invariant `Basis` closes the gap:
  `WorkspaceBasis` says what the state file can be relative to the cache, either the cached baseline or
  the run's own envelope, newer and with its notice posted; `RunBasis` says that a serving run loaded
  that cached baseline, that its envelope is newer, and that a notice it no longer owes was posted.
  Both allow for a cache that was evicted in the meantime.
* `RecordsAreDelivered`: `Spec => []RecordedMeansDelivered`, with no hypothesis about faults. `Records`
  says it of the cache, of the state file and of what a run has loaded, and that a run has posted
  whatever it no longer owes (`DutiesDone`).
* `OneCardEach`: `Steady => (Spec => []SingleCard)`. `CardsOnRecord` follows the one card of each
  sender through cache, file and run. `Steady` excludes lost replies, runners and caches, and either
  refused calls or what makes them leave a card behind: reminder runs, which save at their end only,
  and the bot's pin call under a transport error, which is what `publisher_second_card` refutes.
* `NothingIsRepeated` and `NoticesFollow`: `NothingRepeated` and `NoticesChain` under `Calm` (Telegram
  answers, states are kept) and `MarkersFit`. `Once` says that each state on the way *accounts* for all
  that was posted (`ToldBy`), and a serving run for all but what it has sent itself. `MarkersFit` says that
  the reminders of one day fit into the saved list: the code keeps 100, and a day has a few fixed lesson
  hours. The run has `MarkerCap` 2, which is below that hypothesis, and holds nevertheless.
* `ToldChangesHappened`: `AnnouncedChangesHappened` under `Forwards`, whatever else fails. `History` says
  that every envelope in flight or on record is a past of the source and that they are ordered by their
  stamps. `Forwards` excludes `late_read`, exactly what `publisher_reversed` uses to refute it, and asks
  that the possible changes be transitive.

**JobQueueProofs**

* `TypeCorrect`, with `attempts[j] <= MaxAttempts[j]` as part of it.
* `LeasesFence`: `Spec => []OverlapOnlyAfterExpiry`. `IInv` adds to the types: `ClaimsOK` (a busy
  worker's attempt is at most the row's; while its lease lasts it is the row's newest and the row is
  running; a handler that returned is on record) and `AttemptsDiffer` (no two workers hold the same
  attempt of a job).
* `EndedRowsAreFinal`: `Spec => EndedRowsStay`, from the fact that an ended row has no lease.
* `QueueImplementsLedger`: `Spec => ImplementsLedger`. Initial states map to initial states
  (`InitRefines`) and each step to a step or a stutter (`StepRefines`); `Succeed` maps to `Complete`
  because its WHERE clause pins the newest attempt, whatever the worker ids are.

**OutboxProofs**, for `OutboxSpec`

* `OutboxTypeCorrect`, with a bound on claims in it, together with `SendersOK`.
* `SendsAreBounded`: `AttemptInv` adds `AbsentUntried`. The invariant counts senders that are about
  to send, so the proof goes by how each action changes that set (`Claimants`): a claim adds one and
  counts an attempt, a send removes one and counts a message.
* `RecordsPrecedeCompletion`: `RecordInv` adds that a sender past the confirmation is on record.
* `EndedMessagesAreFinal`, from `Holds` and the statuses `Claim` chooses from.
* `OutboxImplementsMailbox`: `OutboxSpec => ImplementsMailbox`, step by step as for the job queue
  (`StepIsMailbox`). `MailInv` joins the two invariants above with `AnsweredCarried`, that an answer comes
  from a call that was carried out. A sender about to call has room to do so (`RoomToSend`), since
  `SendsWithinAttempts` counts the claimants too; a report without a lease is a stutter.
* `InTurn` with its lemmas: one sender to whom nothing happens takes the rows in the order of their ids,
  and `NewRow` is the newest (`IdsGrow`). The cards and the headman's summaries both rest on it.

The modules that extend `Outbox` restrict its steps and never change its variables otherwise, except
that a restart takes all senders at once. `DeliveryProofs`, `IntakeProofs` and `MaterialsProofs` show so
step by step, and take the invariants over. `DeliveryImplementsMailbox` and
`AttendanceImplementsMailbox` take the refinement over as well: `Spec => ImplementsMailbox`. For the
latter a sender that finds its card done must find it done by that very row (`CardOnRecord`). Under
`Materials` it need not be: a copy is also skipped when other rows, since failed, have copied its messages
one by one, so a row may end as sent of which nothing was ever sent. There is no such theorem there.

**PumpProofs** has no theorem of its own. Its lemmas say what each action of `UpdatePump` does to
`IntakeInv`, for the three modules that conjoin handlers to them: what Telegram has been told to forget is
in the inbox, which has no gaps (`NoGaps`); what the worker holds is on record (`WorkerHolds`); an open
update has an attempt left (`AttemptsLeft`). `Restart` is the interesting case, because its offset is
computed from the inbox.

**DeliveryProofs**, for `ScheduleDelivery!Spec`

* `DeliveryIsBounded`, `DeliveryRecordsFirst`, `DeliveryIsTyped`: what is known of the outbox, and types.
* `RecordsStayTrue`: `Spec => []RecordsAreTrue`. A message id travels from the topic into an answer,
  from there into the record of its day, into a handler that is about to edit the card, into an
  envelope and back to Telegram. `ContentInv` says at each of these places that the id `Shows` a card
  of the right day. It needs that no card leaves the topic or changes its day (`TopicGrows`) and that a
  row keeps its operation (`SameRows`). A card that somebody deletes by hand is outside the model:
  its id would stay on record and its edits would be refused.
* `ChangesGetTold`: `Spec => []ChangesAreTold`. The property is about the end of all work. `ToldInv` is
  about every state before it: a stored change was overlooked, or has a notice that is on its way
  (`Arrives`), or waits in what the handler still holds (`Waiting`). That a change is detected only once
  is in `TablesInv`.
* `CardShowsLessons`: `OneSender => (Spec => []CardIsCurrent)`. `CardInv` relates four places as long as
  nothing failed and no change of tomorrow was overlooked. Whatever the handlers hold for a card of
  tomorrow is what is confirmed (`AccessesAreRight`); so is the card that was enqueued last, unless the
  handler is about to enqueue another (`LastIsRight`); rows are sent in turn (`InTurn`); and the message
  on record shows the last card that was sent (`CardShown`). The delicate step is the one that looks for
  a card to edit and finds none on record: if none is on its way either, none was ever enqueued. With
  `Senders = {s1, s2}` TLC refutes `CardIsCurrent`: the second worker gives up, as exhausted, the row of
  a card the first is just sending, and a change that comes meanwhile finds no card.

**IntakeProofs**, for `Attendance!Spec`

* `OffsetFollowsInbox`: `NothingForgotten`, from the lemmas of `PumpProofs`.
* `RosterFollowsGroup`: `RosterIsTrue`, in whatever order failures left the updates. `RosterInv`: a row
  of the roster is what some update of its date said (`Grounded`), and is as late as every update that
  has been applied (`Recorded`), so the order of application does not matter.
* `MarksAreTrue`: `MarksFollowReactions`. As long as no update was put back the worker takes them in
  their order (`InOrder`), and the marks are what the last reaction that counts says (`LastCounts`).
* `AttendanceIsTyped`: `TypeOK`. Jobs, outbox and Telegram need each other's types: what a row edits
  comes from the message on record, that from an answer, and an answer from the messages sent (`WorkInv`).
* `SummaryFollowsMarks`: `OneSender => (Spec => []SummaryIsCurrent)`. While nothing has failed, the last
  summary that was read is right about the marks or another is to come (`LastIsRight`), rows are sent in
  the order in which they were read (`InTurn`), and the headman sees the last one sent (`Shown`).
  `OneSender` is needed, since two outbox workers may send two summaries in either order and TLC finds
  how with `Senders = {s1, s2}`. A process has one worker, and the process lock admits one process.

**MaterialsProofs**, for `Materials!Spec`

* `MaterialsAreTyped`, `ArchiveFollowsEdits`: `ArchiveIsNewest`. What is on file is a snapshot Telegram
  published, and no later one has been applied (`ArchiveInv`).
* `CopiesStayApart`: `OneLiveCopy`. `CopyInv` adds `ActionIsFresh`: what an assessment holds between its
  two transactions is in no live row. It survives the other tasks because only the material worker
  enqueues copies and no step of the outbox brings a row back to life.
* `CopiesAreCounted`: `Spec => []CopiedOncePerFailure`. `HeldApart` says that a sender is alone with its
  row; `CopiesCounted` that a message was copied as often as something failed, and once more only if a row
  of it was sent or its sender has an answer and will report it. That a second row cannot add to this is
  `OneLiveCopy`. What is recorded in the row of the album plays no part, so nothing overwritten can matter;
  a record that says too much would only make a sender skip.
* `MaterialsAreFiled`: `Spec => []MaterialIsCurrent`. `BackedInv` says of the row, and of every copy of it
  that a writer holds (`RowsBacked`), that it knows of no copy that was not confirmed, and of the row that it
  has all that were, unless `overwritten`. `AdmittedInv` says that whatever was archived or
  extracted has an assessment that is admitted or about to be; `FiledInv` that, at any time, the album
  is filed as it now stands with its copies done or under way (`AlbumFiled`, and `RowFiled` unless
  `overwritten`), or an assessment is still to come, or a key was met again, or a row failed.

**OperationsProofs**, for `ArchiveSpec`, `WatchSpec`, `RetentionSpec`, `AssistantSpec` and `TimetableSpec`

* `ImportsAreComplete`: `RunInv` is shown for every content the database has or a restore may bring back.
  `RestoreLosesNothing`: `PriorIsKept`, for any number of deaths and restores, because the copy is in
  place before the log is moved. `ArchiveNeverRegresses`: `ArchiveMovesForward`.
* `HealthSeesAbsence`: `RecordsLag`, heartbeat and successful probe are no later than what they stand
  for. `SilenceIsEarned`: `AlertsPrecedeMarkers`, a marker is no later than an alert that arrived.
* `CleanRunsClean`: `BatchCleans`, a table the batch has been through without filling its limit holds
  nothing that was overdue. It needs `OldestOrAll`, that a batch below its limit has taken all, by
  counting; and that rows closed meanwhile are of today, which no batch is ahead of.
* `SpendCovered`: `SpendIsAccounted`, and `BudgetIsKept`: `BudgetHolds`, for costs of any size. Neither is
  inductive, since the reservation, the request and the reconciliation are steps of their own and the last
  two may never come. `QuotaInv` has three parts for every account, a day or a month with its counter and
  its limits. `TokensInv`: charged plus `Held` is at most counted, but for what is repeated or unmetered.
  `Held` is all of the reservation until the provider answers, then what the answer left of it, and nothing
  once the handler has failed, died or had an answer without usage, because nothing is given back there.
  `RoomInv`: a counter is within its limit as long as a request of the account is under way, and otherwise
  passes it by the excess of one request. `RequestsInv`: the requests, with the tries the one under way has
  left (`Left`), are at most as many as the reservations counted allow (`RequestsFor`); `AskersInv` says the
  same of each asker. A day belongs to an account exactly if its reservations are counted there
  (`AccountFacts`), so days and months are one argument. The pump's part is `IntakeInv`, which knows the
  update in hand.
* `ChangesTellEverything`: `ChangesTellAll`, for pages with any number of slots, blocks and subjects. In a
  finite set with a strict total order every place is somebody's (`Places`), so what `Sorted` chooses for a
  place exists, and the lists have every lesson once (`Listed`) and rank only candidates. The greedy pass
  is a recursive function of the rounds: `RoundsUnfold` shows that it is what its definition says, and
  `MatchedFacts` that after every round the pairs are one-to-one and hold those of the same identity, both
  by a least counterexample (`AllRounds`). A pair is then a bijection between the lessons a reader keeps
  and those of the new list that are not new (`ReaderCounts`). The differences between two weeks need one
  identity per lesson: slot, group and place in the slot, as the parser counts them.

The larger invariants were checked by TLC on the instances of section 3 before they were proved.

**Only model-checked**, because out of the prover's reach: `EveryJobEnds`, `EveryMessageEnds` and
`EveryUpdateEnds`. They are liveness under fairness, which would need ENABLED.

## 5. Plan

Done: all of the modules of section 2 with their runs, mutants and the proofs of section 4. Left, in
this order:

1. Two exports in `Archive`: the older one replaces rows of the newer (importer.py:433).
2. Week parity over a Monday midnight, and the repair of duplicate sessions.

## 6. Not modelled

* Parsing of the university's pages, Telegram exports and material files; rendering, typography,
  iCalendar text, full-text search: data, without state of their own.
* `config.py`, logging, and the wiring in `app.py` and `cli.py`: start-up code.
* Migrations, deployment scripts around the modelled commands, the Android probe, the JSONL protocol
  of the personal sender's child process.
* Names, topics and files of archived messages. A put-back update may overwrite newer names there, and
  files an edit took away stay on record (archive/live.py).
* In `Materials`: several albums, and edits within the same second. In `Attendance`: several lessons.
* In `Watch`: the other reasons of a bad health report are one, which may hold or not. In the code
  failed jobs are counted for ever, so a single one keeps every later report bad.

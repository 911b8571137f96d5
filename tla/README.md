# Formal verification of the road-safety edge node

TLA+ models, TLC configurations and TLAPS proofs for the dash-camera safety
monitor: the FastAPI edge process (`road_safety/`), and the cloud receiver
(`cloud/receiver.py`). Paths below are relative to the repository.

To check everything by hand, in this directory:

    tlc -workers 2 -config EdgeToCloud_safety.cfg MCEdgeToCloud.tla   # one run
    tlapm SettingsConsole_proofs.tla                                  # one proof module

`PROJECT.json` is the index: components, runs, the code lines each definition
stands for (`map`), hazards, findings, mutants and theorems.

## 1. Inventory

### The system

Video comes in through **stream slots**, one capture thread each. Every frame is
analysed on that thread (`server._on_frame`); interactions that pass the
perception gates feed the **episodes** of the slot, and an episode that goes
idle becomes an event. The event crosses to the asyncio loop
(`_emit_event`), is narrated and enriched by an LLM, redacted, appended to a ring
buffer, sent to SSE clients and Slack, and queued for the cloud by the **edge
publisher**, whose batches the **cloud receiver** stores. Operators change the
**settings** while all this runs; an **impact monitor** compares the time before
and after a change. A watchdog, a drift monitor, a registry and a shadow validator
observe the rest.

| component | source | state it keeps | operations | interacts through |
|---|---|---|---|---|
| edge publisher | `integrations/edge_publisher.py` | queue file, backoff | `enqueue`, `flush_once`, `run_forever` | called by `_emit_event`; HTTPS to the receiver |
| cloud receiver | `cloud/receiver.py` | SQLite `events` | `POST /ingest/events`, queries | HTTPS |
| stream slots | `server.py` 500-620, 1290-1405, 2300-2440, 4180-4380; `core/stream.py` | `state.slots`, `slot.reader`, reader flags | start, pause, add, remove, restart_all, reload | thread pool, capture threads, settings subscribers |
| episodes | `server.py` 290-441, 1651-2047 | `slot.episodes`, `slot.pair_cooldown` | `_on_frame`, `_flush_episode` | capture thread; hands events to the loop |
| event emission, feeds | `server.py` 2083-2245, 2636-2909, 3388, 3810 | `recent_events`, subscriber queues | emit, clear, SSE, shadow promotion, feedback | asyncio loop and pool threads |
| settings store | `settings_store.py`, `settings_spec.py` | snapshot, last good snapshot | `apply_diff`, `rollback_to_last_good` | subscribers |
| settings API | `api/settings.py` | cooldowns, tickets | apply, rollback, templates, baseline, SSE | store, monitor, database |
| impact monitor | `services/impact.py` | session in memory | `on_settings_change`, `current_report`, `archive_active` | `impact_sessions` table |
| settings database | `services/settings_db.py`, `services/templates.py` | `apply_log`, sessions, baselines, templates | insert, upsert, queries | SQLite |
| LLM guard | `services/llm.py` | token bucket, breaker, failover | `narrate_event`, `enrich_event` | awaited by `_emit_event` |
| LLM observer | `services/llm_obs.py` | ring of calls, totals | `record`, `stats` | called by guard and agents |
| validator | `core/validator.py` | queue, overflow, pause, stamps | `should_sample`, `enqueue`, `run_forever` | capture threads, loop |
| shadow store | `core/shadow_store.py`, `core/shadow_analysis.py`, `compliance/retention.py` | JSONL, pictures | `save`, `load`, rotation, sweep | validator, retention loop |
| watchdog | `services/watchdog.py` | last snapshot, findings file | tick, `stats`, dismissal | reads the state above; the validator writes to its file |
| feedback | `api/feedback.py`, `services/drift.py`, `services/registry.py` | verdicts, windows, pending samples, vehicles | verdict, export, decay | handlers, digest task, export threads |
| Slack, digests | `integrations/slack.py`, `services/digest.py` | two buffers | `notify_high`, flushes | awaited by `_emit_event`, two schedulers |
| agents | `services/agents.py` | a run's conversation and log | tool loop | event buffer, feedback file, observer |
| perception | `core/detection.py`, `egomotion.py`, `quality.py`, `context.py`, `adaptive_fps.py`, `orientation_policy.py` | per-stream estimators | per frame | capture thread, settings |
| outward | `services/redact.py`, `compliance/audit.py`, `services/ops_sampler.py`, `services/test_runner.py` | audit log, figures | blur, append, sample | files |
| frontend, tools | `frontend/`, `tools/`, `start.py` | views, scripts | - | HTTP |

### What is hard

* **Edge to cloud.** The queue file is rewritten from a copy read before an
  awaited POST; appends and rewrites can be cut short; answers are lost after the
  commit; old requests arrive late; the signature has a time window.
  Correct means: no step but a few named ones loses an event, what is dropped as
  delivered is stored, a row never changes, order is kept, retries go on.
* **Stream slots.** Request handlers run on a thread pool and share `slot.reader`
  with no lock; `stop()` gives up joining after five seconds; paused readers
  count as not running. Correct means: one reader feeds a slot, a stopped one
  exits, a removed source is quiet, requests end.
* **Episodes.** Time passes without frames, thumbnails fail in the middle of the
  flush loop, risk is decided after the fact. Correct means: the event summarises
  the frames, high risk needs sustained evidence, events of a pair keep their
  distance, nothing is left idle or ends in silence.
* **Settings.** Several pieces of state (store, session, its row, the log) are
  changed in one handler that can fail half-way; a restart keeps some of them.
  Correct means: the snapshot stays valid, log and store agree, the session
  describes what is in force, a restart reads back the right session.
* **Feeds.** Events wait for two model calls between their name and the buffer;
  operators clear the buffer from a pool thread between any two lines of
  `_emit_event`; a client is subscribed before its replay is read, and its queue is
  bounded. Correct means: ids do not repeat, buffer and cloud queue agree, a
  client misses nothing and sees nothing twice except where the code says so.
* **LLM guard.** Calls overlap; a token is taken, then the provider awaited; results
  reach the breaker in any order. Correct means: the bucket keeps its budget over
  any stretch of time, the breaker rests after a run of failures.
* **Validator, shadow store.** A bounded queue that spills over, a worker that
  is late, a pause, a disk that refuses one step of several. Correct means: no
  job is lost or overtaken by a lesser one, no frame near an event is reported,
  pictures and records stay together.
* **Watchdog, feedback, Slack, agents.** Files and buffers read and rewritten around
  awaits and by a pool thread. Correct means: an incident sums up its findings, a
  sample leaves by an export only, an alert is in one place, a model's request is
  answered and a run counted once.
* **Perception.** Windows, hysteresis and dwell over readings that come and go,
  with a policy changed under the thread. Correct means: the rate follows a band
  the speed is in, a closing pair gets its time to collision.

`PROJECT.json` lists every hazard at its line, with the properties that cover it.

## 2. Modules

| module | models | its parts in the code |
|---|---|---|
| `CloudLink` | the HTTPS exchange as both ends use it (external) | `Post`, `HangUp`, `AnswerWith`; lost, late and misdirected requests |
| `EdgePublisher` | `edge_publisher.py` | `Enqueue`, `EnqueueTorn` = `enqueue()`; `ReadAndPost`/`ReadMalformed`, `KeepBatch`/`DropBatch`/`ConfirmBatch`/`TransportError`, `Rewrite`/`RewriteTorn` = the stages of `flush_once()` between its awaits; `Resume`, `Crash`, `Restart` = `run_forever()` |
| `CloudReceiver` | `ingest_events`, `_verify_signature` | `IngestEvents`, `RejectBatch` |
| `EventDelivery` | abstract: what the path promises | `Accept`, `Deliver` |
| `EdgeToCloud` | composition of the three, fairness, properties, refinement mapping | |
| `StreamSlots` | `StreamReader` and everything in `server.py` that touches `slot.reader` or `state.slots` | one step per access; `StartSource`, `PauseSource`, `AddSource`, `RemoveSource`, `Sweep`/`Visit` (restart_all and settings reload), `SignalStop`/`Join`/`JoinTimeout`/`ClearReader`, `Spawn`/`Publish`; the thread's `OpenStream`, `BeginFrame`, `EndFrame`, `ExitLoop`, `GiveUp` |
| `Episodes` | `Episode`, the end of `_on_frame`, `_flush_episode` | `OnFrame` with `TakeIn`, `IdleKeys`, `Flush`; `FinalRisk` |
| `EventFeed` | `server.py` from the name of an event to its feeds | `CountEvent`, `NameEvent` = the two halves of the name in `_flush_episode()`; `Promote` = `shadow_promote()`; `AppendEvent`, `CheckLength`, `PopOldest`/`PopFails`, `Publish` = `_emit_event()` after its await; `ClearEvents`; `Subscribe`, `StartReplay`, `Send`, `Disconnect` = `stream_events()`; `BroadcastPerception` |
| `SettingsStore` | `apply_diff`, `rollback_to_last_good` | `Accepts`, `Merged`, `Swap` |
| `ImpactMonitor` | `ImpactMonitor` and its table | `OnSettingsChange`, `CurrentReport`, `Archived`, `Upsert` |
| `SettingsConsole` | the handlers of `api/settings.py` over both | `Apply`, `ApplyTemplate`, `Rollback`, `CaptureBaseline`, `GetImpact`, `Restart` and the half-failed variants |
| `LlmGuard` | `services/llm.py` | `TryAcquire`, `RebuildBucket`; `CircuitOpen`, `CbRecord`; `StartCompletion`/`EndCompletion` = `narrate_event` and the impact summary; `StartEnrichment`, `ReadSample`, `FinishEnrichment`, `EnrichmentFails` = `enrich_event` around its awaits; `Lower`, `Merge` = the two-sample reading |
| `LlmObserver` | `services/llm_obs.py` | `Record`, `Stats` |
| `ValidatorQueue` | `core/validator.py` | `SampleFrame`, `EmitEpisode` on the capture thread; `Enqueue`, `SetPaused`; `LoadModel`, `Ask`, `Wake`, `Process` = `run_forever()` and `_process()` |
| `ShadowStore` | `core/shadow_store.py` | `Save` = `save()` with `Written`, `Attach` (what a write leaves, and what it lands on) and `Rotate`; `Load`, `SweepPicture` |
| `Watchdog` | `services/watchdog.py` | `Collect` with `RuleChecks`, `Conclude` after the model answered, `WriteFinding` by the validator, `DeleteById`, `Empty`; `Incidents` = `stats()` |
| `Feedback` | `api/feedback.py`, `drift.py`, `registry.py` | `PostFeedback`, `RunHook`, `Persist`/`EndPersist`, `StartExport`, `ReadRecord`, `OpenZip`, `CloseZip`, `ClearRecord`, `ExportFails` of each thread that exports; `Report`, `BucketStats`, `Leaderboard`, `DecayScores` |
| `SlackAlerts` | `integrations/slack.py`, `digest.py` | `NotifyEvent`, `EndUpload`, `EndCard`, `Flush`, `EndDigest`, `MoveFloor` |
| `Agents` | `services/agents.py` | `StartAgent`, `ModelAsksTools` with `DispatchTool`, `ModelAnswers`, `ModelFails`, `ToolRaises` |
| `Quality`, `FrameRate`, `Geometry` | the operators of `quality.py` and `context.py`; `adaptive_fps.py`; `detection.py`, `egomotion.py`, `orientation_policy.py` | one operator per function |
| `Perception` | `_on_frame` up to the episodes | `FrameComes`, `UpdateRate`, `AdmitFrame`/`SkipFrame`, `ProcessFrame`; `ChangeEnvelope`, `ToggleAdaptive`, `SwitchDetection` by the operator |
| `Common`, `Clock`, `FrameTime` | Python's `None`, the clock, ticks to a second | |
| `EdgeServices` | `EventFeed` and the services above, side by side | `ServicesNext` |
| `SequenceLemmas` | lemmas about `Range`, `Append`, cuts, sequences of distinct values, and folds | used by the proofs |
| `EdgeToCloud_proofs`, `StreamSlots_proofs`, `Episodes_proofs`, `EventFeed_proofs`, `SettingsConsole_proofs`, `Oversight_proofs`, `EdgeServices_proofs` | theorems | |
| `MC*` | instances for TLC | |

Operators that follow a comment `Mistake:` are wrong versions of the
definition after them. No specification uses them; substituting one shows that
the property it is listed with in `PROJECT.json` can fail.

### Modelling decisions a reader should know

*Edge to cloud.* Everything on the edge runs on one event loop, so state changes
only between awaits; the file operations are one step each. A line is an event or
`Torn`. Torn appends and rewrites happen only with `DiskFaults`. History variables
record what was enqueued (`enqueued`), taken as delivered (`acked`), taken as
delivered on a redirect (`misread`), dropped on a 4xx (`refused`), and touched by
one of the harmful steps (`exposed`). `exposed` grows at an append while a
flush holds its copy, at an append that is cut short or lands on an
unterminated line, and at a rewrite that is cut short, and nowhere else, so that
`NothingElseIsLost` says precisely which steps lose events.

*Stream slots.* One step is one access to `slot.reader` or `state.slots`. The
start-up loop is a sweep from an empty state. Slots without an original source,
failures to open a source before the reader exists, and the frame-rate controller
are abstracted. `Reader` bounds the objects in use at one time; an unreferenced
dead one is reused. The handlers share nothing that orders them, so any number of
`Worker`s act at once. `contended` is history: the slots on which one worker changed the
reader, its pause gate or the registration while another went by what it had read of the
same slot (`Committed`), that is between its check and its last write. The three
invariants say that nothing goes wrong on any other slot; that things do go wrong on
those is the finding `SingleReader`. A slot is a `StreamSlot` object: an id that is
added again is another object, and what a thread still inside `on_frame` emits under that id
is not modelled.

*Episodes.* At most one frame per tick; a frame is the set of pairs that passed
the earlier gates, each with risk and distance. Pairs without track ids (their
key contains the second) are not modelled. `frames` is a history variable.

*Event feed.* The loop gives up control only at an await, so nothing else of the
loop runs between `AppendEvent` and the end of `Publish`; capture threads and the
pool thread of `clear_events` do, which is why the append, the length check and
the pop are three steps. The uncontended lock in `enqueue()` does not suspend, so the
hand-over to the edge publisher belongs to `Publish`. An event is its id and a
number `no` that tells events with equal ids apart; the episodes named are those that
start in one millisecond, where the counter alone makes the id. The history
variables say what was appended, handed to the edge publisher, and sent to or
dropped for the client, which ids were given out while the same one was under way
(`clashed`), and which events fall between a subscription and its replay (`seam`).

*Settings.* The handlers contain no await between reading and changing state, so
a handler is one step. A hash stands for its snapshot, and a request may
expect any. `Valid` is any set of snapshots that contains the defaults. A handler
that raises after it has changed the store is an action of its own
(`ApplyBreaks`, `ApplyTemplateBreaks`, `CaptureBaselineBreaks`). Restarting takes a tick.
`unlogged` and `chain` are history: a change failed before its log row, and the
first session that continues without such a failure.

*Edge services.* The services share no variable in the model: what one hears from
another (a job, a verdict, a health figure, an answer of the model) is an input that
may be any of a set. A step of one neither reads nor changes the others, so a
property of one holds in every interleaving of all if it holds in the steps of
its own (proved: `EachKeepsItsSpec`, section 4). `running` says which one steps, and
the run explores the sum of their state spaces, not the product; within a service
all interleavings are there.

*LLM guard.* Providers answer, fail or refuse at each await. `spent`, `spentBefore`
and `outcomes` are history: what the bucket gave, what it had given before each
tick, and the newest results the breaker was told. A sample is the plate and
the vehicle it read; prompts and parsing are left out.

*Validator.* A job is its kind, slot and time; what the second detector finds is a
choice. `handed` are callbacks scheduled with `call_soon_threadsafe` that the loop
has yet to run.

*Shadow store.* A line of the records file is the set of ids it yields when read: one, or none
once it is spoilt. A write may be refused, or cut short after any line, inside a line or
just before a newline (`Written`); `write_text` has truncated the file before that, so a
rotation may lose lines it meant to keep. What is appended to an unterminated line
spoils that line and itself (`Attach`). `imwrite` may return `False`, of which `save()`
takes no notice. `excused` names the ids that a fault or the retention touched itself, and
no others: `PicturesMatchRecords` says that none spreads.

*Watchdog, feedback, Slack, agents.* A finding is fingerprint, severity, time and
source; a snapshot is the figures the rules compare; a verdict is the event and what
was said of it; texts are left out. A post ends with success, refusal or no answer.
A turn of a model is a sequence of tool uses. The endpoint of the exports is a plain
function, which FastAPI runs on the pool, and `export_batch()` takes no lock: every
`Exporter` may be anywhere in it. `exporting[x]` is what the call of `x` holds; two with
the same `second` have the same zip. `contested` is history: another export opened that zip
while this one wrote it or had its samples still to clear, and from then on this one
cannot know what is in it.

*Perception.* An average moves from its old value toward the sample: any value of a grid
between the two stands for it. Units are whole: pixels, hundredths of confidence,
decimetres, tenths of a metre per second, half frames per second, ticks (`Second`
of them to a second). Detections and flow are inputs; objects move at the steps
`Motion` gives.

## 3. Runs

| run | question | result |
|---|---|---|
| `EdgeToCloud_safety` | Which steps can lose, misorder or duplicate an event? | `TypeOK`, `NothingElseIsLost`, `AckedIsStored`, `StoredInOrder`, `DeliverySpec` hold |
| `EdgeToCloud_liveness` | Does every event no step endangers get through? | `EventuallySettled` holds |
| `EdgeToCloud_overtaken` | Does the lock make the rewrite safe, as its comment says? | no: `LossNeedsFault` violated |
| `StreamSlots_requests` | Two requests at once: where can a slot get a second feeder, and what is left behind? | `TypeOK`, `OneFeeder`, `LostReadersArePaused`, `RemovedSourceIsQuiet` hold |
| `StreamSlots_live` | Two requests at once: do readers exit and requests end? | `StoppedReadersExit`, `RequestsEnd` hold |
| `StreamSlots_restart_all` | Does restart_all stop the reader it replaces? | no: `NoLostReader` violated |
| `Episodes_one_pair` | Does an event report its frames, and keep its distance? | `TypeOK`, `EpisodeSummarises`, `ReportsSustainedRisk`, `EventsKeepDistance` hold |
| `Episodes_two_pairs` | What does a failing thumbnail do to the flush loop? | `NothingLeftIdle`, `EndsWithEvent` hold |
| `Settings_console` | Do store, log, session and row agree in every order of requests and restarts? | its seven invariants hold |
| `Settings_unlogged` | Is every apply logged, as settings_db.py says? | no: `EveryChangeIsLogged` violated |
| `Edge_services` | feed: When do ids repeat, what does a client miss or see twice? | `IdsUnique`, `BufferEndsCloud`, `NoHole`, `SentInOrder` hold |
| | guard: What can calls spend, and when does the breaker rest? | `BudgetKept`, `RestsAfterFailures` hold |
| | validator: Which job goes first, which frame is reported, what does the store keep? | `EpisodesGoFirst`, `MissedFramesAreQuiet`, `PicturesMatchRecords` hold |
| | watchdog: Does an incident show what is on file? | `IncidentsSummariseFile` holds |
| | feedback: How does a sample leave the directory? | `SamplesLeaveByExport` holds |
| | Slack: Where is an alert? | `AlertsAccounted` holds |
| | agents: Is every request of a model answered, every run counted? | `AgentsAccounted` holds |
| | perception: Does the rate follow the speed? | `BandFollowsSpeed` holds |
| | all: types | `ServicesTypeOK` holds |
| `Perception_ttc` | Does the floor rate leave room for a time to collision, as config.py says? | no: `TtcReachable` violated |

### Bounds, and why they are enough

* `EdgeToCloud_safety`: three events and batches of two, so that a batch is
  partial, full, or one of two; one crash and one torn write anywhere; at most one
  waiting request but any number of late ones; delays up to the cap. Events are
  symmetric. `EdgeToCloud_liveness`: two events and batches of one, so a
  batch can block another; no symmetry, since it checks liveness. The one
  crash is enough for a crash at every point of a flush, and `MaxDelay` 2 for one
  doubling and the cap.
* `StreamSlots_requests`: one slot, three readers, two workers: a reader in use, one that
  outlasted its stop and one that is being published, or one for each of two requests and
  one before them. Slots share only the loops over them, which the proofs cover for any
  number. `StreamSlots_live`: one slot, two workers, two readers: all interleavings of two
  requests, without symmetry.
* `Episodes_one_pair`: seven ticks with idle time, cooldown and high duration of two
  ticks cover an episode, its cooldown and the next episode; two distances tell
  the nearest from another. `Episodes_two_pairs`: two pairs are enough for one in
  front of and one behind the failing one.
* `Edge_services`, feed: three events overflow a buffer of two; a clear comes in every
  gap of one emission while another waits; two capture threads are enough to read a
  number twice; a queue of one is full after an event. Clients do not affect each
  other, so one is enough.
* guard: two providers (one to fail over to), two capacities (the settings shrink and
  grow the bucket), a threshold of two with two enrichments, each of one or two
  samples, so that results come in every order; two ticks cross a cooldown of one.
* validator: one slot, a queue of one (the second job spills or is lost), two events,
  a window of two ticks, a cap of one record (the second save rotates).
* exports: two threads, two exports, of one second or of two, over two samples; one verdict.
* watchdog, feedback, Slack, agents: two events, alerts of each risk, or runs; two
  checks; a tail of four lines; exports while the loop writes a sample; a digest
  of one line; turns that use a known, a failing and an unknown tool; one change
  of each setting.
* perception: a car that closes in and a person, dark and bright images, a camera that
  stands and moves, GPS that comes and goes, one change of policy.
* `Perception_ttc`: a car that closes in on a person, six ticks to the second, the
  shipped floor and ceiling, and more than a second and a half.
* `Settings_console`: one hot and one restart-required key with two values and a
  rule over both that forbids one snapshot; five ticks cross the coalescing window (2), the
  unattended flag (2) and the archive age (3); two sessions are a session and the one
  that replaces it, across a restart. One actor: the cooldowns of several are
  independent.

`CHECK_DEADLOCK FALSE` is given where time is bounded (`MaxTime`, the `End` bounds) and the last tick
leaves nothing to do; the other runs check for deadlock.

### Fairness

* `EdgeToCloud`: weak fairness of the flush loop's steps and of the restart, since
  asyncio timers fire and the service manager starts the process again. The
  network and the cloud are assumed to answer an edge that keeps sending and to
  have the answer read at last: strong fairness, because each attempt may be lost
  and a timeout takes the chance away again. Nothing is assumed of `Enqueue`, of
  crashes or of clocks.
* `StreamSlots`: weak fairness of the pool's threads. Nothing is assumed of
  capture threads for `RequestsEnd` (a read may hang for ever, `JoinTimeout` is
  the worker's own step); `StoppedReadersExit` takes their fairness as its
  hypothesis.
* The other specifications are checked for safety only: what they wait for is a
  provider, a webhook or an operator, of which the code assumes nothing.

## 4. Proofs

TLAPS proves, for every value of the constants that satisfies the named
assumptions (`EdgeAssumption`, `SlotsAssumption`, `EpisodesAssumption`,
`NoneAssumption`, `FeedAssumption`, `NamesAssumption`, `StoreAssumption`,
`MonitorAssumption`, `ConsoleAssumption`, `GuardAssumption`, `ValidatorAssumption`,
`NoJobAssumption`, `ShadowAssumption`, `WatchdogAssumption`, `ObserverAssumption`,
`AgentAssumption`, `SlackAssumption`, `NoDigestAssumption`, `FeedbackAssumption`,
`RateAssumption`, `PerceptionAssumption`), which TLC evaluates in the runs:

`EdgeToCloud_proofs`
: `TypeCorrect`, `Durable` (`NothingElseIsLost`), `AckSound` (`AckedIsStored`),
  `OrderKeptEndToEnd` (`StoredInOrder`) and
  `DeliveryRefined` (the path implements `EventDelivery`). The invariants
  are not inductive alone: a flush acts on a copy it made before the POST, and on an
  answer made elsewhere. `IInv` adds that an unterminated file has a line
  (`FileInv`), that a waiting request and an answer belong to the flush in progress and "ok"
  implies the batch is stored (`LinkInv`), that what a flush will not write
  back is in its batch or exposed (`FlushInv`), and that only enqueued events are
  anywhere (`OriginInv`). There is one lemma per group of actions. The refinement
  maps `accepted`, `delivered`, `rounds` to `enqueued`, `received`, `commits`;
  every step but `Enqueue` and a fresh `IngestEvents` stutters. For the order,
  the lines of the file, the copy a flush holds, its batch and what it will write back are
  each in the order of `enqueued`, the batch before the rest, and what is stored comes before
  all that is waiting, but for the events that `StoredInOrder` excepts.

`StreamSlots_proofs`
: `TypeCorrect`, `OneFeederPerSlot` (`OneFeeder`), `LostReadersRest`
  (`LostReadersArePaused`) and `RemovedIsQuiet` (`RemovedSourceIsQuiet`), for any number of
  slots, readers and requests at once. None is inductive: a reader is lost when `Publish`
  or `ClearReader` overwrites `slot.reader`, several steps after the code looked at it.
  `FeedInv` says of a slot that is not contended what a request relies on in between: from
  the check to the publication nothing is captured through the old reader (`Quiet`),
  because only this request could open its pause gate (`SeenInv`); from the stop signal
  to the clearing, the reader in hand is the slot's own and, if its thread lives, was told to
  stop (`HandInv`); and of two workers between spawn and publication on one slot the second
  marked it (`PublishInv`). So no reader is lost unless it is paused, and of two that feed a
  slot one would be in the slot and the other in hand, which `Quiet` excludes.

`Episodes_proofs`
: `TypeCorrect`, `NoneIdle` (`NothingLeftIdle`), `Summarised` (`EpisodeSummarises`),
  `DistanceKept` (`EventsKeepDistance`), `EventAtEnd` (`EndsWithEvent`) and `RiskSustained`
  (`ReportsSustainedRisk`). `FrameStep` reduces a frame, with its flush loop that may
  break off, to four cases for each pair: its episode stays, stays marked as
  emitted, takes in an observation, or ends. `MadeOf` strengthens `EpisodeSummarises`:
  the counts of an episode are the numbers of its frames of each risk, its peak their highest
  risk, its distance the least at the peak. `EventInv` adds that the cooldown runs from
  the pair's last event, so that an episode after it began no earlier. `RiskSustained` then
  counts: the rules of `FinalRisk` look at the episode, the property at the frames.

`EventFeed_proofs`
: `TypeCorrect`, `BufferFollowed` (`BufferEndsCloud`), `IdsRepeatOnlyInFlight`
  (`IdsUnique`), `NothingMissed` (`NoHole`) and `SentOnceInOrder` (`SentInOrder`). `BufferEndsCloud` says nothing while the loop is inside
  `_emit_event`, so `FeedInv` compares the buffer with what was handed over and the
  event in hand: an append and the hand-over extend both, a pop shortens the
  buffer at its front, and after a clear the empty buffer ends anything. For
  the ids `IdInv` looks at the live events, those under way or in the buffer: they
  are distinct, numbered no further than the counter, and share an id only if it
  clashed; while a thread stands between its increment and its read, an event with
  the current number has clashed already. What a client is sent comes from two
  sources, the replay it copied and its queue. Both are in the order of `appended`; an
  event is in both only if it was appended between subscription and replay (`seam`),
  and between what was sent and what waits none is missing that is not in `due`.

`SettingsConsole_proofs`
: `TypeCorrect`, `StaysValid`, `LogSound`, `NeverReplaced`, `RestoreSound`,
  `EffectDescribed`, `RowMirrors` (`RowMirrorsSession`), `Tiled`. That a restart reads back the newest session needs
  the order of rows in time: `SessionInv` says the rows are in the order of their
  times, strictly where one is still active (a coalescing window of at least one tick keeps
  two sessions of one process apart, a restart takes a tick, and `Rollback` archives the
  session it replaces), that the session in memory is the newest row, and that
  without one either the process was restarted or every row is old enough to be
  archived. `Tiling` relates the newest row to the settings in force when a session
  was archived: only hot keys open sessions, so between two sessions of one
  process the hot settings do not move, except in a failed apply, after which
  `chain` starts anew.

`EdgeServices_proofs`
: of `LlmGuard`, `GuardTypeCorrect`, `BucketKeepsBudget` (`BudgetKept`), `BreakerRests`
  (`RestsAfterFailures`) and `ClearIsAgreed`. A bound on every stretch of time is not
  inductive, as the bucket may have saved up tokens: `Balance(t)` adds what is
  left, so that what was given since tick `t` and what is left together never exceed the
  capacity and the inflow. For the breaker, `AllFailed(k)` ties its counter to the
  newest results it was told. `ClearIsAgreed` is about `Merge` alone.

  Of `SlackAlerts`, `AlertsInOnePlace` (`AlertsAccounted`). The property counts; the
  invariant does not: `AlertsAt` maps each of the seven places to the alerts in it,
  `OnePlace` says they are disjoint and hold what was emitted, `OnceInPlace` that a
  buffer holds an alert once and no two posts name it. Every step but `EmitAlert` moves
  a set of alerts from one place to another (`MoveKeeps`). Only at the end do
  `OccursOnce` and the theorems on finite sets turn this into the sum of
  cardinalities.

  Of `Feedback`, `SamplesArchived` (`SamplesLeaveByExport`), for any number of exports at once.
  `BatchInv` says what an export relies on while the loop goes on writing and others clear:
  what it has still to do it found, no number in its manifest is larger than that of the
  sample as long as there is one, and once it clears, the archive holds its manifest unless
  it is contested. That no one else's writing changes this is `AloneInv`: whoever writes the
  zip of an export that is past its opening has marked that export.

  Of `Perception`, `BandJustified` (`BandFollowsSpeed`). Between the choice of a band and
  its storing an operator may put another envelope in place, so `RateInv` speaks of the
  controller as it will be: with the chosen band `Committed`. `SelectedFits` shows that the
  hysteresis leaves a band the speed may be in, `TimesInv` that a band was entered
  before the frame at hand, so that the dwell is never met in the tick it began.

  Of all together, `ServicesTypeCorrect` (`ServicesTypeOK`), `EachKeepsItsSpec`,
  `PromisesKept` and `StepsKeepPromises`. `ServicesInv` says that every service keeps its types and
  that the one that runs keeps the invariant its types rest on; a tick of the clock
  disturbs only the statements that compare with `now`, and these allow it
  (`Later`). `EachKeepsItsSpec` compares behaviours: the feed, the feedback
  loop and the agents read no clock, so each step of the whole is a step of theirs or
  leaves them alone; the guard, the validator, the watchdog, the notifier and the
  perception do, and each keeps its specification if it is the one that runs
  (`Runs`). One that does not run stays as it began, which `NothingGiven` and
  `NothingPromised` show to satisfy its promise. So the eleven invariants (`PromisesKept`) and the
  three action properties (`StepsKeepPromises`) that are proved of a service alone hold
  of the specification the run checks.

`Oversight_proofs`
: of the validator and the shadow store, `ValidatorTypeCorrect`, `QuietFrames`
  (`MissedFramesAreQuiet`), `EpisodesTakenFirst` (`EpisodesGoFirst`) and `PicturesKept`
  (`PicturesMatchRecords`). Rule B looks at the newest event of a slot:
  `TimesInv` says none is newer. Rotation removes pictures by the names on
  the lines it drops, which is right only if no name is on two lines; `StoreInv` adds that a
  name that is not excused is on a line if and only if its picture is there, and
  `WrittenKeeps`, `AttachKeeps` and `RotationCuts` that a write cut anywhere or landing on an
  unterminated line loses only names it counts as touched. `OrderInv` gives the distinct names: the samples of a slot stand in job, queue and callbacks in the order of
  their times, all newer than what was reported; the overflow, which could
  overtake, holds episodes only. For `EpisodesTakenFirst`, `AcceptedInv` gives each job
  the turn in which it was taken in: queue and overflow are in the order of turns,
  apart from each other and from what was taken out, and while the worker waits every job of
  the queue comes before every one of the overflow, which is then full.

  Of the watchdog, `IncidentsTellTheFile` (`IncidentsSummariseFile`). `stats()` folds the tail of
  the file into incidents, line by line. The statement about a prefix that the induction
  carries is that there is one incident for each fingerprint met so far, and that its count,
  severity, first and last time and representative are those of the lines met so far
  with that fingerprint. Of the state it needs that the file holds findings, with severities the
  ranking knows and times up to now, and that a check that waits for the model will only add such
  (`WatchdogInv`): the loop, the validator and two kinds of dismissal have to keep it.

  Of the agents and the observer, `RunsAccounted` (`AgentsAccounted`). `BufferInv` says the
  buffer holds news that came, `RecordsInv` that the ring is the end of what was
  recorded and the totals count all of it, `RunsInv` that the turns of a run are pairs of a request
  for tools and their results, in order, one pair for each step while it is under way, that
  its log names the tools of the pairs, and that the failed runs are the errors counted. That no
  median exceeds the 95th percentile holds for any latencies: a percentile is the least
  latency with enough others up to it, and the median asks for no more.

`SequenceLemmas` holds what several of these rest on: the values of a sequence after
`Append`, `Tail`, a cut or a concatenation, that a sequence of distinct values stays
so, holds a value at one position, and is as long as its range is large; and folds.
The library's induction theorems take an operator as a parameter, which no
installed prover can instantiate. Induction over a *set* of numbers needs none
(`SetInduction`, from `LeastNatural`): the set is that of the prefixes for which the statement is
true. With it `FoldExists` proves that the recursion over sets of indices by which the community
modules define a fold (`MapThenFoldSet`) has a solution, so that `CHOOSE` picks one, and
`FoldPrefixes` that it walks through the indices one by one, from the value of the
empty sequence to that of the whole.

TLC has checked each inductive invariant on the instance of its run (with the quantifiers over
all sets and sequences, which it cannot enumerate, bounded or left out). Proving changed
the models where they could not be reasoned about, or said less than the code:

* `SubSeq(as, 1, DigestLines)` stood for `events[:limit]`, which Python cuts at the end of
  a shorter list: `Digest` takes the smaller of the two.
* Chains of `if` were `CASE`s with overlapping arms (`SelectBand`, `Trend`, `GetPolicy`), of
  which TLC takes the first and the logic any: they are `IF`s, or (`Causes`) the first of a
  list of causes. Functions built with `@@` and `:>`, which no backend knows, are written as functions.
* A dismissal is the loop over the lines that the code runs (`Without`), and hypotheses of the
  model with a severity outside the list are dropped, as the code drops them.
* The figures of `stats()` are taken over positions of the ring (`Timed`), and the k-th latency is
  found by counting (`Latency`).
* `AgentsAccounted` states the whole conversation, each result beside its request (`TurnsAnswered`).
* Assumptions that were only implied are stated: bounds are numbers (`MaxLabels`,
  `SlackEnd`), and a model that asks for tools names at least one (`AgentAssumption`).

Model-checked only: what is temporal under fairness (`EventuallySettled`,
`StoppedReadersExit`, `RequestsEnd`), which the prover does not reach, with its
`ENABLED`. Every invariant and every action property of a passing run is proved.

## 5. What the code does not keep

Properties that state a comment and do not hold stand at the end of their module.
Four are runs (section 3). The others TLC refutes as well when the named
property is added to the module's passing configuration; they are listed under
`findings` with the lines that disagree: 

* edge publisher and slots: `TruncatedOnlyWhenStored`, `SingleReader`,
  `ResumesLiveReader`, `RestartedAfterGivingUp`;
* episodes and feed: `SingleHighIsMedium`, `NoGapInEpisode`, `CooldownFollowsSetting`,
  `PromotedOnce`, `NamesUnique`, `WipeIsSoft`;
* settings: `NoOpLocksNobodyOut`, `OneActiveSession`, `RollbackGoesBack`,
  `ExperimentSurvives`, `PendingSurvivesRestart`;
* guard and validator: `OneTrial`, `EveryEventIsTaken`, `SavedIsFound`;
* watchdog: `NoAlarmAfterRestart`, `RecentFirst`, `StoppedOnce`;
* feedback: `DisputedIsExported`, `OneOffWarning` (needs `MaxLabels` 2), `BlamedIsBelow`
  (needs `LabelWindow` and `MaxLabels` 3 and `MinLabels` 2), `ArchivesKept`;
* Slack and agents: `DowngradedIsShown`, `PendingStaysQueued`, `NeverRaises`,
  `EveryCallIsRecorded`, `LimitKept`;
* perception: `RateTracksPolicy`, `RecoveryIsHarder`.

## 6. Not modelled

* Pixels and floating point: decoding, blurring and hashing plates (`redact.py`), the
  detector and optical flow themselves, neural depth, drawing; the model takes their
  results as inputs.
* Wording: prompts and the parsing of answers, Slack texts, advice of the watchdog,
  reasons and titles, page layout.
* HMAC and token comparison (only the time window of the signature matters to a
  property), environment parsing, logging.
* Read-only endpoints, the MJPEG and detection feeds, rules A and C of the validator
  (they write findings and change nothing else), the offline statistics of
  `shadow_analysis.py`.
* `ops_sampler.py`, `test_runner.py`, `demo_track.py`, `video_metadata.py`, the frontend,
  `tools/` and `start.py`: no state the rest depends on.
* A few hazards have no property; `PROJECT.json` says why at each: a reader that gave
  up, a crash of the process before the hand-over to the edge publisher, a client that
  hangs up before its first chunk; and, of the removal of a source, the frame a thread is in
  when its id is added again.

The components marked `not_modelled` or `partly` in `PROJECT.json` give the reason each.

## 7. Plan

Done, in this order: the edge-to-cloud path with its refinement, stream slots,
episodes, the settings console, the event feed, the other services of the edge and
perception; proofs of all safety properties the runs check, and that the services side by
side keep what each keeps alone.

Next, in order of weight:

1. Templates (revisions, deletion, seeding) and baselines joined to `SettingsConsole`.
2. `EventFeed` joined to `EdgePublisher` at the hand-over, with the crash in between.
3. `Perception` joined to `Episodes`, so that the risk of a pair comes from its boxes.

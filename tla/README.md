# TLA+ development for Deltrel

Deltrel is a board game with an AI: a Rust engine and tree search, a training
system in Python (`src/training/deltreltrain`) that plays against itself, learns
and promotes models, a server (`src/training/deltrelserve`) and a browser client
(`src/src`). This directory holds TLA+ models of its concurrent and
crash-exposed parts, the TLC configurations that check them on small instances,
and theorems that TLAPS proves for every instance.

Paths below are relative to the repository root (`src/` here is the checkout).

## 1. Inventory

| Component | State it keeps | Operations | Interacts through | Hard behaviour | Correct when |
|---|---|---|---|---|---|
| **GPU pause protocol**: `orchestration.py` (Coordinator), `actor_pause.py` (ActorPauseGate), `promotion.py` (CoordinatorPauseLease) | request, acknowledgement and heartbeat files; the gate; the PauseLease; worker states | ask, admit, park, grant, activate, release, resume, recover, drain, shut down | three files, signals, wait status | three processes with no common lock; crashes, stale files, deadlines, shutdown in any state | the GPU is never used from both sides; a release is final, confirmed and recorded; everybody is answered |
| **Arena supervisor**: `promotion.py`, `adaptive_promotion.py`, `manifest_selection.py`, `arena.py` | evaluation sessions, champion pointer, decisions | evaluate, decide, promote, resume | pointer files, leases, ledger | crash between decision and pointer | a candidate is decided once, and only on its complete evidence |
| **Measurement ledger**: `measurement_scheduling.py` | debt, outstanding lease, journal cursor, pins, receipts | register, refresh, reconcile, pin, charge | the coordinator's journal | replay of the journal after a crash | each GPU interval is charged once |
| **Self-play actor**: `actor.py`, `selfplay.py`, `cohort_work.py`, `actor_publication.py` | cohorts, sessions, publication progress | play, flush, publish, refresh model, park | replay store, broker, pause gate | cohort threads, crash during publication | a batch is published exactly once, under one model |
| **Inference broker**: `inference_batching.py` | queue, active batch, failure | submit, collect, infer, close | threads | full queue, abort, close while waiting | every submission is answered or failed once |
| **Replay**: `replay_store.py`, `replay_publication.py` | shards, manifest revisions, leases | append, publish, lease, retire | files, locks | crash between durable writes, retention against readers | a revision once visible stays readable while leased |
| **Learner**: `learner.py`, `training.py`, `utd_wait.py`, `reuse_clock.py` | optimiser state, update and sample counters | step, wait for data, checkpoint, complete | replay, checkpoints | restart from a checkpoint | updates never run ahead of the data ratio |
| **Checkpoints, pointers**: `checkpoint.py`, `publish.py` | checkpoint files, manifest, pointers | write, verify, publish, prune | files | crash between writes | a pointer names a complete checkpoint |
| **Continuity and lineage**: `continuity.py`, `lineage.py` | archives and their hashes | seal, verify, restore | files | offline | an archive restores what was sealed |
| **AI server**: `deltrelserve/runtime.py`, `app.py` | current model, leases, capacity | analyse, reload, close | HTTP | reload against use, close | a model is closed once, after its last use |
| **Engine and search** (Rust) | position, tree | play, score, search | bindings | ko, endgame, batching | rules and scores agree across languages |
| **Browser**: rules and records in TypeScript, worker, server client, store | game, timeline, AI requests | move, undo, request, cancel | worker messages, HTTP | late answers after a cancel | an answer is applied only to its own position |
| **Networks, losses, exports; scripts** | tensors, reports | | | numerical, offline | |

`PROJECT.json` lists the same parts with what is modelled of each, and the
hazards of the code at the lines where they bite.

## 2. Plan

Modelled first was the GPU pause protocol, the one place where three processes,
two thread pools, signals, files, crashes and deadlines meet and where a
mistake either runs two CUDA workloads into each other or stops the training
for good. Then the parts every request and every training step passes through:

1. `PauseShared` ... `GpuPause`, `GpuLedger` and their proofs (section 3).
2. `ServeModels` and `Serve`: the AI server's shared model, its admission and
   its shutdown, with their proofs (section 4).
3. `InferenceBroker`, refining `RequestPool`, with its proofs (section 5).
4. `ReplayStore`: publication, windows, garbage and repair, with its proofs
   (section 6).
5. `LearnerLoop`: update credit, checkpoints, rewinds and restarts, with its
   proofs (section 7).
6. `Promotion`: the arena's decisions and the learner's answers to them, with
   its proofs (section 8).

Left, in the order in which they would come next: the debt arithmetic and the
receipts of the measurement ledger; the browser's worker protocol (cancel and
late answers) and the timeline.

## 3. The GPU pause protocol

One GPU is shared by the **actor** (self-play inference) and the **arena**
(evaluation). The arena asks for the GPU with a *lease*: it publishes a request
file; the **coordinator**, which supervises both, acknowledges it as `waiting`;
the actor parks its cohort threads at checkpoints, waits until its inference
broker is idle, synchronises CUDA and reports this in its heartbeat; the
coordinator then writes the `ready` acknowledgement and, after it, the journal's
ready event (`orchestration.py:1762-1763`), so the arena may already measure when
the event is written. On release the order is the other one: the coordinator writes the release
event, then acknowledges `released` (`:1905-1913`), and admits no
other lease until the actor's heartbeat confirms the resume. With the `terminate` strategy the
coordinator stops the actor's process instead and starts a new one afterwards.

### Modules

| Module | Models | State |
|---|---|---|
| `PauseShared` | the three files, the gate and lease records, all variables, `TypeOK` | see below |
| `PauseOwner` | `CoordinatorPauseLease` and `_gpu_pause` in `promotion.py`, with the registration and refresh of `measurement_scheduling.py` | `oPid, oPc, oTok, oStop, oKids, lastTok, open` |
| `PauseActor` | `ActorPauseGate` (`actor_pause.py`), cohort and control threads of `_run_cohorts` (`actor.py`), `HeartbeatReporter` (`runtime.py`) | `aPid, aPc, aStop, aKids, coh, busy, gate, aStep, aAck, aDet` |
| `PauseCoordinator` | `_reconcile_pause_lease`, readiness, release, resume and owner recovery in `orchestration.py` | `cPc, cReq, lease, tState, oState, draining, pauseFailed, exiting`, `owed` (its second durable write), and the journal as `releases, readies, entry` |
| `PauseMonitor` | `_monitor_worker` for both workers, exits, restarts, hard kills, `_begin_drain`, `_stop_all` | the same |
| `GpuPause` | the composition, the environment (`GoStale`, `RequestVanishes`), properties and fairness | `run, crashes` are budgets |
| `GpuLedger` | the abstract specification: what the accounting relies on | `asked, entry, pledge, user` |
| `GpuLedger_proofs`, `GpuPause_proofs` | theorems | |
| `MCGpuPause` | the instance for TLC, cohort symmetry | |

### From code to actions

* A poll of the gate is three steps, `PollRead`, `Poll`, `Publish`, because
  `ActorPauseGate.poll` reads the acknowledgement before it takes its lock and
  the heartbeat is written after it returns. Cohorts park, unpark, submit and
  finish in between.
* A cycle of the coordinator is four steps (`cPc`): it reads the request file,
  reconciles, monitors the target, monitors the owner. Other files and process
  states are read in the step that uses them; the request is the one value
  that is read in one step and used in the next.
* A step of the coordinator that writes both the journal and the acknowledgement
  makes two durable writes, and the model two steps: the action of the handler
  does the first and leaves the second in `owed`, and `WriteEvent` or `WriteAck`
  does it before the coordinator's next step. In between the arena, the actor and the environment
  run, and the loss of the machine (`HostCrash`) drops what is owed. `MarkReady`
  acknowledges and owes the event; `ResumeTarget`, `DrainTarget`, `RestartTarget`,
  `SettleUnadmitted` and `RejectRequest` write the event and owe the acknowledgement
  (`RecordThenAck`); a shutdown that settles a lease and a late request writes two
  events. The coordinator's own variables change with the first write, as nobody else
  reads them and a restart resets them. Three pairs of steps stay together: a drain's SIGTERM comes with the
  acknowledgement before it; the actor that `RestartTarget` starts comes with the event after it
  (it runs, with an open gate, whether or not the event is there; if the machine
  is lost, both die with it); and the `failed` acknowledgement of an owner that is given up
  comes with the release event, since its reader has been collected or has exited.
* Files are replaced by `atomic_json`, so a reader sees one whole version.
  `fresh` abstracts "written within `stale_heartbeat_seconds`"; under the fault
  `stale` it may be lost at any time and comes back with the writer's next beat.
* Tokens are numbered in the order of use (they are uuid4 values in the code;
  the only thing read of them is equality). Process ids are never reused.
* A deadline (`timeout`) is a choice that is open at any time, so every
  ordering of a deadline and an answer is explored. Waiting for the grace of a signal is
  likewise not timed.
* Restart counters and backoff delays are abstracted to "the budget may be
  exhausted" (`exhaust`) and "the restart happens later" (`backoff`).
* `entry[t]` is what `MeasurementServiceLedger` concludes from the journal
  about token `t`: none, ready, settled, or refused (the journal contradicts itself).
* A child process left behind in the arena's or the actor's group (`oKids`,
  `aKids`) still uses the GPU until the group is reaped.

### Properties

| Property | Says |
|---|---|
| `GpuExclusive` | while the arena computes in its lease, no cohort of a living actor runs and its broker is idle, unless that actor is stopping |
| `ReadyIsProven` | a ready acknowledgement is written only when the target is gone with its group, or parked for this very token with an idle broker, or stopping |
| `LeaseHeld` | whoever depends on a lease has the running coordinator's: the arena in its body one in state ready (`BodyIsLeased`), a living actor with its gate closed one for this actor and token (`ParkedIsLeased`) |
| `ResumeAfterOwner` | the actor's gate is not opened while the owner waits for or holds the GPU |
| `ReleaseAckHeld` | a release acknowledgement is not overwritten before its actor has completed the release |
| `EventBeforeAck` | an acknowledgement that ends a lease finds the release event in the journal, although both are separate writes; only the one with which a shutdown begins comes before it |
| `JournalOnce` | at most one ready and one release event per token |
| `LedgerSound` | the ledger never refuses the journal, and a ready token belongs to a held lease |
| `LedgerView` | refinement: the protocol implements `GpuLedger` (one lease at a time, measured only under it, settled only after it was left; a grant is journalled before anything else is granted or asked for, unless the machine is lost) |
| `OwnerAnswered`, `ReleaseConfirmed`, `ReadySettled`, `ParkedResumes` | liveness: see the run `live` |

`GpuExclusive` and `ReadyIsProven` exclude an actor that is stopping: the drain
(`_begin_drain`) and the shutdown reopen its gate on purpose while it unwinds,
and a cohort that failed stops its siblings without waiting for the coordinator.

### Runs

| Run | Instance and faults | Shows |
|---|---|---|
| `park` | 2 cohorts, 2 leases, 1 process each; drain, stop, cohort and control thread failures, exhausted budgets, children that survive either process | exclusion and readiness while shutdown interleaves with parking; 1.0M states |
| `lost` | 1 cohort, 1 lease; request deleted, any file stale, arena failing | losing contact with the owner never opens the gate before the owner is gone, and never leaves an arena or a parked actor without its lease; 567k states |
| `terminate` | terminate strategy, 2 actors; health, deadlines, failed starts, and the loss of the machine, once | types and the refinement hold around process replacement, and when the arena measures, leaves or dies, or the machine is lost, between acknowledgement and event of a grant; 1.34M states |
| `restart` | 2 coordinator runs, 2 leases, 1 crash of any process or of the host, stop | event before acknowledgement, journal uniqueness and the held release over the files an earlier run left, the host also being lost between event and acknowledgement; 1.27M states |
| `live` | 2 leases, 2 of each process, 1 process death, fairness | every request and every release is answered, every release confirmed by the actor, every ready token settled, nobody stays parked; 42k states |
| `orphan`, `reboot`, `rejected` | | expected violations, section 10 |

Why the bounds are enough: the protocol has one lease at a time, and what one
lease leaves for the next is one request, one acknowledgement, one heartbeat
and the gate's last token, so two leases give every overlap of a release with
the next request. Two cohorts are the least with which "some parked" and "all parked" differ;
the gate only ever quantifies over cohorts. Two incarnations of a process tell
a file of an earlier pid from the current one. One crash at any step covers
every single failure; double failures are explored only where a fault choice
is added to it. `CHECK_DEADLOCK FALSE` is set because a coordinator that is
down, or an instance out of leases, really stops. `terminate` has one coordinator run, because after a
machine loss in a lease a second one really leaves the ledger with an open token (run
`reboot`). It leaves the drain, exhausted budgets and surviving children to `park`; `ImplementsLedger` covers them.

### Fairness

`FairSpec` gives weak fairness to: the arena between its waits (not to
`OwnerRegister`: when it asks is its own choice; its body does end), each cohort
up to its next checkpoint (`checkpoint` is called between searches), the
broker, the control thread's poll loop, and the coordinator's loop with its
restarts and hard kills (timers that do fire). No fairness is assumed for
crashes, health verdicts, drains, faults or the deadline actions; so nothing is answered
merely because somebody gave up. `live` leaves out `vanish`: a request
that is deleted each time before it is read cannot be answered.

## 4. The AI server

`deltrelserve` answers analysis requests over HTTP. The event loop (`app.py`)
admits requests: a bounded queue before a semaphore of `max_concurrency` slots.
An admitted request runs its analysis in a thread of the executor, and the slot
belongs to the analysis, not to the request: it outlives a timeout or a client
that leaves. All analyses share one model, held by `AtomicModelManager`
(`runtime.py`): the first call of an idle manager looks at the champion pointer
and, if it has changed, loads the new model and swaps it in; calls that come
meanwhile wait on the manager's condition; the caller that swapped closes the
old model. The shutdown stops admission, waits for the analyses and then closes
the manager.

| Module | Models | State |
|---|---|---|
| `ServeModels` | `AtomicModelManager`: `lease`, `_update_batch_wait`, `close`, the pointer file | per call `mpc`, `at` (its local variables); the fields `active, loading, current, signature, closed`; `asleep` (waiters not yet notified); `shut` (models closed); `made`, `published` (contents of models and of the pointer file); `cl, closing` (the closing thread) |
| `Serve` | `_admit`, `_Admission`, `_AdmittedStreamingResponse`, `_run_bounded`, the lifespan; extends `ServeModels` | `rq, slots, acquired, requests, waiting, jobs, life, draining` |
| `ServeModels_proofs`, `Serve_proofs` | theorems | |
| `MCServe` | the instance for TLC | `part` |

From code to actions: a block under the manager's condition is one action
(`BeginRefresh`, `Share`, `Install`, `Leave`, `CloseTakes`), each step of a
reload outside it is one of its own (`Stat`, `ReadManifest`, `Load`,
`CloseRetired`), so a publication can fall between any two. `wait` puts the
thread into `asleep`; `notify_all` empties it, and the loop's condition is
tested again. On the event loop everything between two awaits is one action.
The rejection of a queued request is one action too: the await in its `finally`
only collects tasks that have been cancelled. Deadlines, disconnections and
cancellations can strike whenever a request is at an await. The semaphore's
order is left open (any waiter may get the slot). A model and a manifest are
reduced to the content the pointer names; two versions of the file never have
the same signature (mtime, size, inode). How long an analysis takes, and
whether it stops because of its cancellation, is left open.

| Property | Says |
|---|---|
| `NoUseAfterClose` | no analysis holds a model that a reload or the shutdown has closed |
| `NoModelLost` | each model is closed at most once, exactly one party is responsible for each open one, and all are closed in the end |
| `FreshModel` | a call that reloads without an error gets a model that was published at some moment after it began: no stale signature hides a publication |
| `WaitsForCompany` | the broker of the current model waits for more submissions exactly while several analyses share it |
| `WakerAtWork` | a thread sleeps on the condition only while another is at work that will wake it |
| `CallsEnd` | every call ends and every close completes, whatever else waits on the condition |
| `SlotBooks` | free and owned slots add up to the concurrency, and the counters agree |
| `NativeBounded` | never more native analyses than slots, abandoned ones included |
| `ModelDrained` | the model is closed only when no native analysis runs or can start |
| `RequestEnds`, `ShutdownEnds` | every queued request ends and returns its slot; a shutdown completes |

| Run | Instance | Shows |
|---|---|---|
| `server` | part `manager`: the startup and 2 calls on the manager alone, 2 contents, 3 versions of the pointer file, which may also be broken or missing, close at any time; part `requests`: the startup and 3 requests, 2 slots, a queue of 1, one version of the pointer file; 103k states | the manager on its own, and the server as a whole |

Two calls are enough for every pair of roles around the manager (reloading and
waiting, sharing and retiring, leaving and closing); a third version of the
file gives a publication before and after the signature is taken. With three
requests, two slots and a queue of one, a request may wait and get the slot
that another returns or abandons, and two analyses meet in the manager; the
safety properties are proved for all limits. The pointer file does not change
in the part `requests`, since the part `manager` explores that. The two are
chosen at the start of a behaviour (`MCServe`). The manager is also checked by
itself because the server never closes it under an analysis (`ModelDrained`),
while the manager promises to survive that; `ModelDrained`, a promise of the
server, says something only where its shutdown has run.

Fairness (`Fairness` of `Serve`): threads run, an analysis ends (`analyze` bounds its iterations), a
load ends, and the loop runs what is ready, including the timeouts of its
waits. No fairness is given to clients, to the publisher or to the shutdown.
The instances have finitely many calls, so they do not exclude that an endless
stream of new calls overtakes one that waits for a reload.

## 5. The inference broker

`BoundedInferenceBroker` (`inference_batching.py`) serves self-play cohorts,
arena groups and server searches. Producers call `submit` in their own threads:
a semaphore bounds the open requests, the request is prepared on the host and
queued. One owner thread takes the oldest request, lets compatible ones join
until the batch is full or the oldest has waited long enough, claims the futures
that were not cancelled, evaluates under the device lock (which model loads
and root inspections share), answers or fails each future and returns
the slots. An error in the scheduling itself fails whatever was accepted and
closes the broker; `shutdown` closes it in good order or cancels the queue.

`InferenceBroker` has one action per critical section of the condition. Per
call: `producer`, `future`. Shared: `free` (the semaphore), `queue` with `place`
(the order of arrival), `owned` (`_owned_jobs`), `closed`, `dropPending`,
`device`, `tally` (the counters). The owner's local state: `owner`, `active`,
`todo`, `abandoned`. `_release_owned_job` removes a job and then releases its
slot; the two are one action, because nothing reads both. A deadline (of an
admission, of a batch) may pass at any time; a key (adapter, namespace, ring)
is a model value.

| Property | Says |
|---|---|
| `SlotsBalance` | every slot is free or held exactly once, by a call that prepares, the queue, the owner or what a failed owner left |
| `Accounted` | submitted requests are completed, failed, cancelled or still held, each once, also when a batch fails half-way |
| `IdleProof` | an idle broker does not use the GPU and owes no answer, except those that a failed owner is failing: what the pause protocol relies on |
| `Answered` | refinement of `RequestPool`: at most `MaxPending` requests are open, each is settled once, and again and again none is open |
| `NobodyWaits` | no producer waits for a slot for ever, and a shutdown returns |

Fairness is one weak fairness condition on all steps of threads that can go on
(`BrokerProgress`). The calls are finitely many, so each thread goes on in the
end; an endless stream of other calls is not excluded from overtaking one that
waits for a slot (the semaphore promises no order). Nobody has to submit,
cancel, fail or shut down.

## 6. The replay store

Self-play actors publish each game while it is played, as growing revisions: a
shard file, then one SQLite transaction that inserts its row, marks the previous
revision superseded and adds the new samples to the credit. The learner pins
the newest shards with a watermark, reads them through one loader per rank and
clears the watermark when all loaders are closed. Old and superseded
shards are collected, and a process that opens the store removes orphaned
files and quarantines rows without a readable file.

`ReplayStore` models `append_revision` (`replay_publication.py`), its caller
`_write_game_revision` with the retry and `_publish_policy_prefixes`
(`selfplay.py`), and of `replay_store.py` `lease_generation`, `select_recent_spans`
with its watermark, `collect_garbage`, `reconcile_orphans`; of `learner.py` how a
window is opened and closed. A transaction is one action, a file operation
another. `shards` is the table, `head` the row of `game_publications`, `credit`
that of `run_counters`, `files` the shard directory, `prefix` the actor's
`_published_prefixes`, `call` its publication in progress with `uncertain`
(an attempt that may have been committed). `lost` remembers which files the
disk lost, for the properties.

| Property | Says |
|---|---|
| `CreditExact` | the credit is the number of samples published, and an actor not in doubt knows what it has published |
| `RowsReadable` | every row has its file unless the disk lost it, only such rows are quarantined, and ready shards are heads |
| `WindowReadable` | what a pinned window lists stays on disk, with one revision of each game |
| `RevisionsGrow` | a publication only grows, by the holder of the lease, never after it is final, and is credited once |

Assumptions and observations:

* `Recent`: orphan cleaning spares files of the last 300 s; a writer that stalls
  longer between its file and its commit is outside the model.
* The store lets any process collect garbage, and so does the model; today
  only the learner calls `collect_garbage`. When rank 0 cannot open its
  loader (`LoaderFails`) it clears the watermark while other ranks may still
  read; this is why `WindowReadable` excludes that phase. It is safe today only
  because nobody else collects.
* The watermark has one fixed name per learner. Two learners of one run
  would share it; the coordinator's unit (systemd `KillMode=mixed`) rules that out.
* The checks of `append_revision` against shorter or changed prefixes are left
  out: by `RevisionsGrow` and `CreditExact` the one caller never meets them.

## 7. The learner's durable state

The learner may make `target_updates_per_new_sample` updates for each sample
committed since the start of its *segment*. Next to its checkpoints (the journal
of recovery checkpoints, the candidate and champion manifests) it keeps the
segment (`utd-segment.json`) and the examples at which candidate and self-play
model were last published (`cadence.json`). When the arena keeps rejecting its
candidates it may be rewound to the champion: a plan
(`state-rebase.pending.json`), three files, a forced checkpoint, the cutover
that makes everything older invisible to a restart, the candidate pointer. It may be killed between any
two of these writes.

`LearnerLoop` has one action per durable write. `mem` is rank 0's memory, lost by
a crash; the other variables are the files. A step and the examples it
consumes are one number (`examples`, in units of `Batch`). A checkpoint is
where it was taken (`at`), its segment, its lineage (`line`, counted by rewinds,
for the properties only) and whether it is younger than the cutover (`fresh`, a
comparison of timestamps in the code). `samples` grows as it likes, which
`RevisionsGrow` and `CreditExact` justify. The arena is an environment: it may
promote any candidate it once started to measure, also after the learner has given it up.

| Property | Says |
|---|---|
| `WithinCredit` | over the life of the weights and within its segment, the learner makes no more updates than the committed samples allow |
| `CutoverFinal` | no restart brings back a lineage that a durable cutover has given up |
| `RestartAccepted` | what the learner left on disk never keeps its next run from starting: violated, run `cadence` |
| `RefusedIfTorn` | a restart is refused only where a rewind was cut short before its cutover was durable, for a learner whose snapshots come with its candidates |

## 8. The arena's decisions and the learner's answers

The supervisor (`promotion.py`) takes one candidate at a time, plays it against
the champion in waves and decides: `promote` replaces the champion pointer,
`reject` becomes a verdict in `plateau-verdicts/`, a candidate that is older
than the champion or passed over for a newer one is `superseded`. After each
wave it writes up to four files, one after the other: the result, the pointer
or the verdict, and the status with a streak of rejections. The learner looks
at the champion and the verdicts at the end of a window
(`_plateau_control`): enough rejections by one champion lower the learning rate
one stage, and the verdicts are *spent*, so that they count once; a promotion
returns it to the reference. Rate and receipts live in the checkpoints, so a
kill takes the learner back to what the checkpoint holds.

`Promotion` has one action per durable write. `leader`, `result`, `verdicts`
and `report` are files, `stage, job, found` the supervisor's place in its loop;
`rate, receipts, judged, known, scanned` the learner's memory, `saved` and
`recoveries` what the newest candidate and the recovery checkpoints of its
step hold. `ReadVerdicts` is `PlateauVerdictStore._scan`, which also takes in
result files whose verdict was never written; `ByStatus` is the fallback to
the status, for a champion about which no verdict has been read.

| Property | Says |
|---|---|
| `StagesEarned` | each stage below the reference was earned by a rejection of its own by the champion it is for: nothing is counted twice, whatever is killed |
| `PlateauAnswered` | a champion that has rejected enough candidates since the last stage does not stay unanswered, unless the rate is at its floor |
| `DecidedOnce` | a candidate is decided once against a champion, and a champion is only replaced by a newer model whose win over it is on file |
| `WonIsChampion` | a candidate that won is the champion, or an older one, when no work is left: violated, run `won` |

Assumptions: the plateau action is `reduce_lr_keep_weights` and the rate
returns to the reference on a promotion; the champion pointer, which one control
reads twice, does not change in between; a candidate whose pairs are
used up is rejected like after a wave without games; an inconclusive rejection
that does not count appears as `superseded`, since it lowers no rate. How the
games of a wave lead to a decision is left open.

Fairness (`PromotionFairness`): the learner goes on, is restarted when it is
down and controls after every window (weak fairness of its steps together), and
`poll_seconds` pass, so that a control scans again and again (strong fairness
of `ReadVerdicts`; a recent scan makes a control skip it). Nothing is assumed
of the arena: a rejection that is durable is answered even if the supervisor
never runs again.

### The runs of sections 5 to 8

| Run | Instance | Shows |
|---|---|---|
| `training` | broker: 3 calls with rows 1, 1, 2 of two models (or one of them empty), batches of 2 rows, 2 slots, 1 other use of the device; store: 2 generations, games of 2 samples, a retry, 1 lost file (publication), and games of 1 sample read by 2 ranks with a collector; learner: ratio 3/2, 3 samples, 1 rewind, any number of crashes; arena: 3 models, 1 rejection required, 2 stages, 1 kill of either process; 270k states | the properties above |
| `cadence` | the learner without rewinds | expected violation, section 10 |
| `won` | 2 models, 1 kill | expected violation, section 10 |

The components share no variable, so `MCTraining` lets each behaviour play one of
them (`part`) and keeps the others still. `Answered` and `NobodyWaits` are
about the parts with calls and `PlateauAnswered` about the arena, and hold
trivially in the others; each property has been seen to fail under a change of the code it is about.

Why the bounds are enough: three calls at two slots give a call that waits, a
batch of two and one of another model behind it; an owner that fails has
requests both in its hands and in the queue. Two generations give one stale
writer; two samples give a first revision, a growing one and a final one with
enriched rows. Readers need superseded and retired shards next to pinned ones,
which one-sample games with their final revisions give. A ratio of 3/2 makes the allowance
round down; candidates and snapshots come together, as without a
`selfplay_snapshot_interval_examples` (run `cadence` sets them apart). With three models a champion can reject one candidate after
another, be replaced by the third, or be replaced by the second and have the
third judged by that one; one kill at any step separates every pair of writes.
Larger instances of the arena (4 models with 2 kills; 4 models with 2 rejections
required; candidates not finished before a newer one) were checked too, by
themselves. All of these invariants are also proved for every value of the constants.

## 9. Proofs

TLAPS checks, for every number of cohorts, leases, processes and crashes, for both
strategies and for any set of faults, unless an assumption excludes one:

* `GpuPause_proofs!TypeCorrect`: `Spec => []TypeOK`. One lemma per process
  (`OwnerTypes`, `ActorTypes`, `ReconcileTypes`, `TargetTypes`,
  `OwnerMonitorTypes`, `ShutdownTypes`, `EnvironmentTypes`), on lemmas for the
  shared pieces (`FinishType` for the end of a release, `RecoverType` for the
  recovery of the owner, `PollTypes` for the gate).
* `GpuPause_proofs!EventFirst`: `Spec => EventBeforeAck`. The acknowledgement is
  written a step after the event, with the rest of the system and the loss of the
  machine in between, so the invariant `EventInv` says what is owed: an acknowledgement that ends a
  lease only with its event in the journal, a ready event only for the lease
  just granted, at which places of the coordinator (`OwedTrue`, `OwedWhen`). A lease already
  marked `recorded` is acknowledged without another event, so such a lease has its
  event; and, because an event is counted only for a
  token that exists, the tokens in the request file, in the request the
  coordinator has read and in the lease are tokens the arena registered.
  `EventInv` was checked by TLC on the instances of `restart`, `lost` and
  `terminate` before it was proved.
* `GpuPause_proofs!LeaseCoversBody` and `OwnerGoneFirst`: `BodyIsLeased` and
  `ResumeAfterOwner`. The coordinator knows the arena only through a file it
  read some steps ago, so `OwnInv` says what that copy, the file and the lease
  can still mean: tokens grow and belong to the process that registered them
  (`TokensSeen`, `PidsSeen`); a withdrawn request is never asked for again
  (`RequestTrue`, `RequestOver`); a release that was not forced on the arena
  was asked for by it, and a lease that resumes is one its owner has left or
  did not survive (`LeaseLeft`), and so is one whose end is still to be acknowledged (`OwedLeft`); who
  was granted a lease has the coordinator's (`GrantHeld`).
* The coordinator has some forty actions, but a lease goes through few changes.
  `CoordMoves` proves once that every step of the reconciliation and of
  the monitor is one of ten moves (nothing for the lease, a flag, a refusal, a
  settlement before readiness, an admission, a grant, a resumption, a closing, a confirmation
  of the actor, a drained end), each with what it does to the acknowledgement, the journal and the
  processes. All later invariants are proved for moves.
* `GpuNeverShared` and `ReadyProved`: `GpuExclusive` and `ReadyIsProven`. The
  coordinator grants on a heartbeat that was true once. The invariant
  (`ActInv`: `ActorBooks`, `TargetBooks`, `Evidence`) says, for every token, that each piece of
  evidence in circulation (the heartbeat file, the one about to be published,
  a ready lease) is true still (`Proven`: the gate is parked
  for the token, the broker idle) or its token is `Spent`: the arena has
  left it, it cannot be admitted, and the coordinator at most waits
  for the actor's return. Every release in circulation, the acknowledgement the
  actor has read before it took the lock and the one the coordinator owes included, is of a spent
  token (`OwedBooks`).
  That a spent token stays spent (section "A lease that is over stays over") is what makes stale evidence harmless.
* `ReleaseSeen`: `ReleaseAckHeld`. `GateInv` relates, for the token of a release, the gate's
  memory (`last`, `releasing`), the acknowledgement in the actor's hand, the
  heartbeat and the coordinator's wait: a heartbeat that confirms the
  release is of a gate that has completed it.
* `LeaseIsHeld`: `LeaseHeld`, the safety side of `ParkedResumes`. `BodyIsLeased` is `LeaseCoversBody`.
  For `ParkedIsLeased` a token is `Wanted` of the actor as long as an acknowledgement
  asks for it, in the file or in the hand of a poll, or the gate holds it.
  `ParkInv` says that meanwhile the coordinator holds the lease for this actor,
  and that nothing the actor remembers or has published says that it resumed from it (the
  token is not spent yet when it is admitted), so no confirmation can end that lease; and
  that a target marked as collected is not alive, so nothing else can (`EndsResumed`).
* `CountedOnce`: `JournalOnce`, from `JournalInv`: a token with an event is
  `Passed` (the arena has left it and it cannot be admitted) or the lease in progress; and a request of the
  present owner whose release is in the journal is withdrawn and acknowledged, or the
  coordinator still holds its lease (`Closed`), which is all the shutdown looks at when it
  settles a late request; "acknowledged" counts the acknowledgement that is owed (`Told`), and an event
  that is owed has not been written (`OwedOnce`). Assumes `"arenaKids" \notin Faults`: with a
  child that outlives its leader the shutdown counts a token twice (section 11).
* `LedgerAccepts`: `LedgerSound`, from `LedgerInv`: an outstanding token is
  that of the lease in progress, whose release is not recorded yet, and
  a coordinator that may start again left none behind. Assumes `Orderly`: one
  run of the coordinator, or no fault that ends a run before it has collected
  the arena (`host`, `timeout`, `arenaKids`). After the machine's
  loss, as in the trace of run `reboot`, a token is outstanding that no lease covers.
* `ImplementsLedger`: `LedgerView`, every step of the three processes is a
  step of `GpuLedger` or a stutter: `MarkReady` is `Grant`, `WriteEvent` is `Record`, and the arena may `Enter`
  before `Record`. `ViewInv` adds that what the arena asks
  for is registered and not settled and what it measures under is
  granted, that is, `ready` in the journal or owed to it (`ArenaBooks`, `Granted`), that an event
  that is owed can still be written (`DebtBooks`), and that whatever the coordinator can still grant, from
  the request it has read or the lease it holds, is `Grantable`: without an entry
  and still the ledger's open token (`HeldBooks`, `AdmitBooks`). Assumes `Orderly` and
  `"stale" \notin Faults`: with a late heartbeat the coordinator rejects a request
  it then grants (run `rejected`). Under the same assumptions
  `RejectedStaysClosed` proves `RejectionIsFinal`, so the late heartbeat is the only cause of that run's
  violation among the other faults, and `OneLeaseOutstanding` carries the
  abstract promise over: one token outstanding, in the journal or owed to it, the arena measuring under it.
  With one run of the coordinator `Orderly` admits the loss of the machine between
  acknowledgement and event, which is the ledger's `PowerLoss`.
* These invariants were tried with TLC before they were proved, most of them by
  simulation of the runs' instances and larger ones. TLC's counterexamples
  gave the assumptions of `CountedOnce`, `LedgerAccepts` and `ImplementsLedger`.
* `GpuLedger_proofs!LedgerOneLease`: the abstract specification keeps its own
  promise, at most one lease outstanding and the arena measuring under it, between
  acknowledgement and event as well. Assumes that 0 is no token.

* `ServeModels_proofs!OpenWhileUsed`: `ModelsSpec => []NoUseAfterClose`, and
  `ModelsTypeCorrect`, for any number of calls, contents and publications. The
  invariant `LeaseInv` says that the counter is the number of users
  (`LeaseCount`), that at most one call reloads and nobody uses the model
  meanwhile (`OneRefresh`), that all users share the current model, which is
  open (`OneModel`), that a freshly loaded model is neither closed nor
  current and a retired one not current (`Loaded`), and that a closing thread
  has found nobody (`ClosedOut`). Without `LeaseCount` the tests
  "`active == 0`" in `lease` and `close` would say nothing about who holds a
  model. One lemma per kind of step, on `Counting` and `Moves`.
* `ServeModels_proofs!ModelsAccounted`, `CompanyKnown`, `ModelsFresh`:
  `NoModelLost`, `WaitsForCompany` and `FreshModel`. `Accounted` gives every
  loaded model that is not closed exactly one way to be (current, about to be installed, owed to one
  retiring thread, or to the closing one) without counting; `NoModelLost`
  then is a fact about cardinalities. `WaitsForCompany` is inductive with `LeaseInv`.
  `Signed` says that the manifest a call reads, and the model made of it, is of a
  publication since the signature it took and since the call began, and that the
  current model is at least as new as the manager's signature unless it is
  about to be replaced, so an unchanged signature proves the model fresh.
* `ServeModels_proofs!NoLostWakeUp`: `WakerAtWork`. One step puts at most one thread to
  sleep, under a condition that names who will wake it; a step that ends a
  reload or a use wakes everybody, and every other step leaves that
  thread there (`WakerStep`). `ServeConstants` also says that the closing thread is no call.
* `Serve_proofs!ServeImplementsManager`: `Spec => ModelsSpec`, the server only
  drives the manager by the manager's own steps; `ServeUsesOpen` follows.
* `Serve_proofs!SlotsBalance`, `ConcurrencyKept`, `DrainBeforeClose`:
  `SlotBooks`, `NativeBounded` and `ModelDrained` for any limits and any number
  of requests. `ServeInv` splits the holders of slots into the disjoint sets
  of queued requests that have acquired one (`acquired`) and of admitted
  requests and analyses (`Held`), counts both (`Books`), and adds that a native
  call exists only for a submitted analysis (`NativeIsJob`) and that the
  shutdown waits for every analysis there is (`DrainOrder`).

* `InferenceBroker_proofs!SlotsKept`, `RequestsAccounted`, `IdleIsProof`: the
  broker's invariants, from one inductive invariant `BrokerInv`: types, `Places`
  (the places a request can be in are disjoint, and which futures are
  unresolved where), `Stages` (what the owner's program counter says of `todo`,
  `active` and the device), `SlotsBalance` and `Accounted`. Most steps move one
  request from one set to another; the lemmas `Grows`, `Shrinks`, `Moved` and `Merged`
  say what that does to cardinalities.
* `InferenceBroker_proofs!NothingLeftBehind`: however the owner ended, the device is back,
  no future is unresolved, the books are closed, and all slots are back but those of
  calls about to be refused (`OwnerLeftNothing`, stated in the proof module).
* `InferenceBroker_proofs!BrokerImplementsPool`: every step of the broker is a
  step of `RequestPool` or a stutter, the safety half of `Answered`. It needs
  `SlotsBalance`: only the slots bound the open requests.
* `ReplayStore_proofs!RowsStayReadable`, `WindowStaysReadable`,
  `PublicationsGrow`, `CreditCounts`, from `ReplayInv`: besides types it says what an actor in
  doubt may believe (`Doubts`), that leases are numbered upwards and each
  writer has one (`Leases`), that ids and file names belong to one shard
  (`Identities`), that a draft's file has no row yet (`Drafts`), that what the
  collector plans to retire are rows and what it unlinks has none (`Garbage`), and
  that a window lies within its pin and its rows still exist (`Windows`).
  For `CreditCounts` the published samples are a set of pairs of a game and a place in
  it, so the credit is a cardinality: a publication that grows a game from k to
  n samples adds n - k new pairs (`SamplesGrow`, `CreditSteps`), an unchanged one
  none. The invariant `Counted` adds that only the final revision enriches a game.
* `LearnerLoop_proofs!TrainedWithinCredit`, `CutoverIsFinal`,
  `LearnTypeCorrect`: the invariant follows each file through the rewind
  (`Progress`, `Credit`, `Lineage`): every segment on disk was within the credit when it began, every checkpoint was
  within the credit of its own segment, a fresh checkpoint is of the lineage
  of the cutover or later, and where a pending rewind stands.
* `LearnerLoop_proofs!RefusedByTornRewind`: `RefusedIfTorn`, if snapshots come with
  candidates (`SelfplayInterval = CandidateInterval`, the default; with an interval of
  their own, run `cadence` refutes it). `RestartInv` says that no champion is ahead of
  the checkpoints offered to a restart, nor these of a learner that is not rewinding
  (`Order`), which files exist at each step of a start and a rewind (`Present`), that the memory
  agrees with the files it was read from (`Agreement`), and that, unless a rewind is torn, some offered
  checkpoint is as far as the counters of `cadence.json` (`Whole`).
* `Promotion_proofs!RateEarned`: `StagesEarned` for any number of models, stages
  and kills. The invariant says it of the memory and of every checkpoint, and
  that it holds at least as many spent rejections by its champion as stages (`AllEarned`); that verdicts, the status and what the learner has read are rejections
  on file (`Evident`); what the supervisor's place says of its candidate
  (`Underway`); and that a reduction in force during a control is the judged champion's
  (`SameChampion`). A new stage is then paid for by a rejection that is not
  among the spent ones, which is a fact about cardinalities (`OneMoreStage`).
* `Promotion_proofs!ResultsFinal`: `DecidedOnce`. `Underway` says that whatever the
  supervisor works on is newer than the champion and open, and that where
  the pointer is about to be replaced the win is on file; every decision of a
  step then replaces an open result (`ResultSteps`, `DecideOnce`).
* `Promotion_proofs!WonUnlessKilled`: with `MaxKills = 0`, `WonIsChampion` holds for
  any number of models. The kill of run `won` is thus the only cause
  of its violation: without one, a win that the pointer does not yet
  show is the one the supervisor is about to write (`Crowned`).

The assumptions are `PauseConstants`, `ServeConstants`, `ServeLimits`,
`BrokerConstants`, `ReplayConstants`, `LearnerConstants` and `PromotionConstants` (the constants are
of the right kind; the sets of calls and requests are finite).

Every safety invariant and action property that a passing run checks is a theorem. Only model-checked are
the liveness properties, which with ENABLED are out of this prover's reach, the
liveness half of `Answered`, and the runs that expect a violation.

## 10. Disagreements found

* **`orphan`** (`orchestration.py:1858`): when the arena's leader dies but its
  process group survives the kill, `_pause_owner_exited` has already marked
  the owner as reaped and finishes the release: the event is recorded and the
  actor comes back although children of the arena may still hold the GPU. The
  docs say such an owner "does not receive a fabricated release"
  (`src/training/docs/efficiency-scheduling-admission-and-recovery-20260923.md:51`).
* **`reboot`** (`orchestration.py:1257`, `measurement_scheduling.py:295`): if
  the machine is lost inside a lease, the restarted coordinator ignores the
  `active` request and no terminal event is ever written, so the ledger
  refuses every further lease. The runbook describes resuming after a reboot
  as starting the same profile again.
* **`rejected`** (`orchestration.py:1259`): a request rejected as stale stays
  in the file; if its heartbeat becomes fresh before the arena has read the
  rejection, the same token is admitted and granted, although the ledger has
  dropped it: that GPU time is never accounted.

* **`cadence`** (`learner.py:3328`): publishing a self-play snapshot in the middle of a
  window writes `cadence.json` at once, but a recovery checkpoint is written only when a
  window closes and its interval has passed, and restarts do not consider the
  snapshot's own checkpoint. A learner killed in between restores an older
  checkpoint, finds the counters "ahead of restored examples" and raises, on
  every restart. The runbook
  (`src/training/docs/production-h100-training-runbook.md:1213`) says the
  restart resumes the highest-step valid state.
* The same property fails in a second way, with a rewind (`MaxPlateaus = 1`): a
  crash after `state-rebase.pending.json` and before `resume-cutover.json` leaves
  the abandoned checkpoints, which have more steps. The restart restores the
  highest of them and then refuses, because the pending (or applied) rewind leads
  to another one. `WithinCredit` shows that it fails safe: it never trains on
  the wrong segment. `RefusedIfTorn` says that there is no third way.
* **`won`** (`promotion.py:2257`): the result of a candidate that won is durable
  before the champion pointer is. A supervisor killed in between takes the
  candidate for decided when it starts again (line 587) and nothing writes the
  pointer, so the candidate that won is never champion, and if it was the last one, the
  status stays nonterminal, which a drain of the coordinator waits for
  (`orchestration.py:2621`). The docs say that the arena's `promote` result replaces
  the pointer and that the lease ends once both are durable
  (`src/training/docs/serving-and-distillation.md:164`, `:174`).

## 11. Not modelled, and known limits

* The learner as the paused worker (`promotion.pause_target`): the code path is
  the `terminate` path of the actor.
* Requests that do not parse: the arena writes every request with one atomic
  replacement, so the coordinator reads none.
* A release that ends in a failure (`orchestration.py:1858`) leaves the
  acknowledgement `failed` with its event in the journal. If a child of the arena
  also survived the arena, the shutdown that collects it finds a request that is not
  acknowledged as released (line 2741) and records a second release for the
  token. TLC finds this trace for `JournalOnce` with `arenaKids`; the
  measurement ledger ignores an event of a token it has settled, so it does
  no harm there, and no document promises one event.
* Hardware health, the coordinator's status file, systemd notification, the other workers.
* An actor being terminated for its health may exit just after a lease was
  admitted; the code counts this as a failure of the pause and stops the
  coordinator. The model has the same step; it fails safe and no property forbids it.
* `_confirm_actor_resume` during a drain sets the target back to running, which
  cancels the hard kill; the drain deadline and `_stop_all` still end it.
* In the server: the search-reuse cache, the progress stream, authentication,
  request parsing, the health report; an error raised by closing a model.
* In the broker: the caches of adapters, metrics of rows and times.
* In the store: sampling quotas and rings, the protected champion's replay,
  schema migration, manifest identity, the contents of shards.
* In the learner: damaged checkpoints, the manifest history, retention of
  old checkpoints (64 journal entries), the warm-up of the governor and its other
  plateau actions, the learner's own GPU pause.
* In the arena: the statistics of a wave, historical evaluation, adaptive
  allocation of pairs, games in progress beyond "some were played".
* With two rejections required, the streak of the status may be stale: a supervisor
  killed after the pointer and before the status leaves the old champion's streak, to
  which the first rejection by the new one is added. A learner that has
  not read that rejection's verdict (it scans once per `poll_seconds`) takes the status
  instead and lowers the rate after one rejection by this champion. Because of this `StagesEarned`
  promises one rejection per stage and not `Required` (TLC refutes the stronger
  form for 4 models and `Required = 2`); no doc promises more after a crash.
* Two recovery checkpoints of one step are ordered by their file names
  (`checkpoint.py:1495`), so a restart after a reduction may take the one without it, although a
  comment (`learner.py:4698`) expects both to be restored. `LearnerStarts` takes any
  of them; `PlateauAnswered` shows that the reduction is then made again.
* Most of the repository is validation of data, numerics, generated reports and
  offline tools (`training_disaster_recovery.py`, `continuity.py`,
  `compare_elo_ablation.py`, `monitor_run.py`): long sequential code whose
  correctness is a matter of formats, not of states and steps. Models of it would
  repeat it line by line, so the share of lines the map covers stays small.
* All components marked `not_modelled` in `PROJECT.json`, for the reasons given there.

# Mokuro Bunko in TLA+

Mokuro Bunko is a manga library server. It keeps archives (`.cbz`) under a
WebDAV tree, and a fleet of OCR machines, this server's own processor and
volunteers over WebSockets, reads each archive and uploads a sidecar with the
text. The code is a Rust workspace under `src/crates` (about 148 000 lines).
Three parts of it carry the hard decisions: the OCR scheduler with the
processors it feeds, the library that people write to while it is read, and the
update that replaces the program under both. The modules here model these.

Paths below are relative to `src/crates` unless they begin with `src/`.

## 1. The system

### 1.1 Components

| component | where | state | operations |
|---|---|---|---|
| OCR scheduler | `bunko-server/src/ocr/sched/{mod,session,settle,claim,registry,avail}.rs`, `ocr/actor.rs` | machines, lanes, sessions, claims, results, marks, strikes, the scan | one handler per message, then `pump`; a 2 s tick |
| Download breaker | `bunko-sched/src/breaker.rs`, driven by `settle.rs` | per machine: returns in a row, hold, "proven"; per job: counted returns | note a return, note a delivery, count, expire |
| Result collection | `bunko-server/src/ocr/collect.rs` | a helper thread per claim | verify, compare the archive's stamp, move the sidecar into place |
| Local processor control | `bunko-server/src/ocr/control.rs` | generation, restart lock, the forwarder task | start, restart, forward events, drop |
| Benchmark line | `ocr/sched/bench.rs` | the queue of benchmarks | hold a machine, preempt, sample, release |
| Owed index and walk | `ocr/owed.rs`, `ocr/upgrade.rs` | which archive lacks which sidecar | walk, archive hooks, ask the disk |
| Failure records | `bunko-sched/src/failures.rs` | per job: attempts, next try | record, expire, retry, park |
| Job order and pricing | `bunko-sched/src/{job_order,eft,plan,rate,...}.rs` | measured rates | pure choice of a lane's next volume |
| Views and admin | `ocr/{api,admin,queue_api,queue_file,profiles,shape}.rs` | settings file | documents, HTTP |
| OCR processor | `bunko-processor/src/{session,local,remote}.rs` | the hub: sessions, their books of claims, the pause in force | feed, read, report, pause, drain, leave |
| Archive fetch | `bunko-processor/src/{fetch,spool,verify,lock}.rs` | spool files, a memory budget | download, resume, restart, verify |
| WebDAV | `bunko-dav/src` | path and account write locks, the cache of listings, the LOCK table | the DAV methods, uploads with hooks |
| Accounts | `bunko-db/src` | SQLite | users, tokens, invites, audit |
| Library | `bunko-library/src` | catalogue, index, manifest | incremental update, rebuild |
| Automatic update | `bunko-server/src/admin/update.rs`, `bunko-update/src/auto.rs` | the last check, the retry, the applying flag | check, wait, drain, install, give up |
| Release switch | `mokuro-bunko/src/autoupdate.rs`, `bunko-update/src` | executable, pack, backups, marker and block files | switch, restart, prove, roll back |
| Pause control | `bunko-control/src` | owner's pause, timers, activity | apply, expire |
| Tray | `bunko-tray/src` | the supervised child | start, back off, adopt |
| Server shell | `bunko-server/src/{app,auth,accounts,admin,http,library,thumbs,ops}` | sessions of people, limiter | HTTP |
| Protocol, configuration, layout | `bunko-proto`, `bunko-core`, `bunko-layout` | none | parsing, formatting |
| Engines | `bunko-{engines,ocr,vlm,torch,ncnn,vulkan,thumb}` | models, GPU buffers | inference |
| Front ends and tools | `mokuro-bunko/src/{cmd,gui}`, `bunko-android`, `xtask`, `src/web`, `src/packaging`, `src/tools` | none of interest | command line, pages, packaging |

### 1.2 How they interact

* Everything reaches the scheduler as a message in one mailbox: a socket task
  forwards a processor's events, `OcrControl` asks and tells, the DAV layer's
  hooks say that an archive came or went, helper threads answer
  (`Collected`, `OwnCopyRead`, `Walked`), a timer ticks.
* The scheduler talks back through a link per machine (`OpenSession`, `Volume`,
  `CancelVolume`, `CloseSession`). A send on a dead link fails at once, and the machine
  is dropped.
* A finished volume leaves the session and is given to a helper thread, which
  installs the sidecar without the scheduler and then sends its message. Until
  the message is handled the claim is "settling".
* The pump after every message visits every lane: it claims a volume, opens a
  session, tops one up or lets it drain. When no lane works, nothing is claimed
  and no lane waits, the scan ends.
* The automatic update holds the whole queue and polls `in_flight` until it is
  empty. A benchmark holds one machine.
* A processor's hub takes the scheduler's ops on its connection task. Per
  session a feeder fetches archives, workers read them and a reporter sends the
  outcomes; a watcher applies the owner's pause, and the connection task the
  drain of an update, over all of them.
* A DAV request takes its path locks step by step, writes, and at the end tells
  the listing cache and the scheduler what changed. The collector of OCR results
  takes the same path locks.

### 1.3 What is hard, and what must be true

* **Scheduler.** A claim is known in four places (the session, `claims`,
  `results`, a helper thread), and every event, kill, pause, disconnect and
  replacement takes it out of some of them. Each claim must have exactly one
  session or helper that will settle it; no lane may be left with a session
  that is gone, no result without the session that will announce it; nobody
  may be blamed for a machine's leaving; every claim must settle; no
  volume may be read twice.
* **Breaker.** A broken network path must not fail volumes; the count of
  returned downloads must be about one file; a hold must come and must end.
* **Processor.** Each claim is reported once, in order, or given back; a pause
  accounts for every claim; a session that is stopped ends.
* **Library.** Whoever holds a folder or a file writes it alone; a result of
  another archive is thrown away.
* **Listings.** Nobody is shown a tree from before a write that was answered.
* **Reading history.** The quota holds for concurrent uploads of one account.
* **Local control.** An old processor's end must not take away its successor.
* **Update.** One installer at a time, over a quiet server, not before its wait
  is over; the drain is lifted afterwards.
* **Switch.** After any error or power failure there is a release to go back
  to, and the machine ends up serving.

`PROJECT.json` lists each hazard at its line with the properties that speak of it.

## 2. The modules

| module | models | TLC instance | theorems |
|---|---|---|---|
| `DownloadBreaker` | the breaker and the counts, with the handlers that drive them | `MCDownloadBreaker` | `DownloadBreakerProofs` |
| `OcrScheduler` | the scheduler's handlers, pump, helpers, links | `MCOcrScheduler` | `OcrSchedulerProofs` |
| `JobLedger` | what the scheduler promises: one lease per job | | |
| `OcrLedger` | the refinement mapping from `OcrScheduler` to `JobLedger` | `MCOcrScheduler` | `OcrSchedulerProofs` |
| `LocalRestart` | restart of the local processor against the mailbox | `MCLocalRestart` | `ControlProofs` |
| `ProcessorSession` | a processor's hub: sessions, pauses, drain, benchmarks | `MCProcessorSession` | `ProcessorSessionProofs` |
| `LibraryWrites` | DAV writes under path locks, and the collector | `MCLibraryWrites` | `LibraryWritesProofs` |
| `ListingCache` | the cache of PROPFIND listings and its invalidation | `MCListingCache` | `ListingCacheProofs` |
| `HistoryWrites` | reading-history uploads under the account mutex and quota | `MCHistoryWrites` | `HistoryWritesProofs` |
| `ReleaseSwitch` | the file operations of a switch, the probe, the rollback | `MCReleaseSwitch` | `ReleaseSwitchProofs` |
| `UpdateService` | when an update begins, drains, installs, gives up | `MCUpdateService` | `ControlProofs` |

Where two modules touch the same code they do so at two grains. What the
breaker counts is one bit (`tripped`) in `OcrScheduler`, and what a session is,
one set (`held`) in `DownloadBreaker`. `OcrScheduler` has a processor that says
anything about the claims it holds; `ProcessorSession` says what it says.
`OcrScheduler`'s `Install` is one step; `LibraryWrites` takes it apart.
`UpdateService` asks the scheduler to drain; `DrainEnds` in `OcrScheduler` is
what it waits for, and `ReleaseSwitch` is what its `install` does.

Most modules have a rigid variable `scene` (`inputs` in `OcrScheduler`), chosen
in `Init` and never changed: it says which faults and inputs a behaviour may
meet and bounds them. One run therefore covers several instances, each with the
few kinds of trouble that interact, and the theorems hold of every scene at
once. Faults the code does not survive are scene fields too; a property that
holds without one names that field in its statement, and section 3.2 says what
happens with it.

### 2.1 DownloadBreaker

State: the clock in units of the hold (600 s), `machines`, `breakers` (returns in
a row, openings, open-until, proven), `returns` (count and archive stamp per
job), `reading` (the server reads its own copy on a helper thread), `failed`.
Actions: `Register`, `Drop`, `Take`, `Deliver` (`download_delivered`), the
returns (`judge_returned`, `count_return`), the read of the server's own copy
and its answer (`ReturnStalled`, `OwnCopyRead`, `OwnCopyBad`), `Finish`, `Release`, a
replaced archive (`Replace`), `NewScan`, `Tick`. `history` records what the
properties speak of; no guard reads it.

### 2.2 OcrScheduler, OcrLedger and JobLedger

State follows `Sched`'s fields; the comments at the VARIABLES name them. `owed`
is the index the scheduler believes and `missing` is the disk. `machines[p] =
"cut"` is a link that died and whose next send will fail. A handler is one
action enabled in `phase = "ready"`; it ends in `ThenPump`, and `PumpStep`
visits the lanes until `PumpEnd`. No other message is handled in between, as
in the code. The network, the helpers' installs and the disk do not wait.

Handlers to actions:

| code | action |
|---|---|
| `register`, `local_up` | `Register`, `Connect` |
| `drop_processor` | `Leave`, `DropAll`, `Disconnect` (also from a failed send) |
| `set_availability`, `release`d volumes | `SetAvailability`, `Released` |
| `set_update_drain` | `SetUpdateDrain` |
| `hold_queue`, `preempt_for_bench`, `release_queue` | `HoldQueue`, `PreemptForBench`, `ReleaseQueue` |
| `on_event` | `Ready`, `Fatal`, `Delivered`, `VolumeStarted`, `VolumeReturned`, `VolumeDone`, `VolumeFailed` |
| the result upload | `ResultStored` |
| `install` on its thread, `collected` | `Install`, `Collected` |
| `own_copy_read` | `OwnCopyRead` |
| `session_exit`, `wedged`, `overdue` in `tick` | `Exit`, `Wedged`, `Overdue` |
| archive hooks, `walked`, `apply`, `retry_failed` | `ArchiveChanged`, `Walked`, `Apply`, `RetryFailed` |
| timers | `FailureExpires`, `BreakerExpires`, `Tick` |
| `stop` | `Stop` |
| `pump`, `claim`, `open`, `top_up`, `maybe_end_scan` | `PumpDrain`, `PumpTopUp`, `PumpLeave`, `PumpOpen`, `PumpIdle`, `PumpSkip`, `PumpEnd` |

Left to choice, so that the model has every behaviour of the code and more:

* which claimable volume a lane takes, and whether it takes one, within the
  order of generations: finish-time pricing, warm rows, start backoff,
  per-machine `returned_by` and what a machine can run may each decline;
* the order in which the pump visits lanes, and time: a timer fires whenever
  its condition can have become true;
* an account's limit: any subset of the remote machines may go at a registration;
* what a processor says about the claims it holds. It may say nothing, and it
  may return a claim at any time: before its archive came or after (the server's
  own processor counts as delivered at once), and, with the input "late
  returns", after its result was uploaded, which `on_event` accepts and no
  processor of the repository sends;
* whether `install` finds the archive it expects: it may succeed or not
  whatever the stamps say (`LibraryWrites` has the stamps).

Left out: upgrades of existing sidecars, automatic benchmarks, the local
processing switch in the settings, the epoch of a walk (a walk
of an old epoch only starts another), and a helper thread the operating system
refuses (the code logs it and the claim stays settling: a hazard in the list).

`JobLedger` is the scheduler's promise with machines, sessions, lanes and
threads left out: a job is leased to one holder under an id used once, a lease
that settles is not taken back, only it writes a sidecar, once, and no job is
leased whose sidecar is there. `OcrLedger` maps `claims`, `helpers` and
`claim_seq` to it; `KeepsTheLedger` is its specification.

### 2.3 LocalRestart

State: the mailbox as a FIFO sequence, the instance registered as `local`, the
generation, per instance its process and its forwarder, and the progress of
the one restart that holds the lock. The forwarder's test of the generation and
its send are two steps. `ask` may give up after 30 s, and so does the restart.

### 2.4 ProcessorSession

Tasks and threads interleave where the code takes a lock or awaits. State: the
owner's pause and the watcher, the pause in force, `apply` (an `apply_pause` in
progress, which holds the lock), the drain and the connection task, per session
its tokens, its book (`outstanding`, `started`, `released`, `cut`), the feeder,
the runner's queue, the workers and the reporter with its map of outcomes that
wait for their turn, per benchmark where it is. `heard` is what the library was
told about each claim, in order.

The feeder's fetch, its cancellation, loss and return are `FeedTake` to
`HandOver`; a worker's volume `WorkerTakes` to `WorkerEnds`; `report` and
`finish_volume` are `ReporterTakes` to `SessionExits`; `apply_pause` is
`WatcherApplies`/`DrainApplies`/`EndDrainApplies`, then `Release`, `AbandonOne`,
`TellReleased`, `CancelBenches`; `in_flight` is `CountStarts`, `CountBook`,
`CountFinishing`, `CountEnds`, one lock at a time.

### 2.5 LibraryWrites

A series folder with one archive and its sidecar; an archive is its stamp. A
request is a list of steps, each under locks of its own which are refused, not
waited for. `Request` is `put_inner`, `delete` and `copy_move` up to the first
lock; `Lock` is `try_lock_all`; `Put` to `Rename` the writes under it;
`CopyFolder` what `copy_folder` does without one; `Finish` is `Effects::fire`,
and `Answer` an error, after which nothing is reported. The collector's
`install` is `Check`, `LockSidecar`, `Install`, `Record`; `Submit`, `Read`,
`Delivered`, `Hear` and `Collect` are the scheduler's part in a claim. A folder
is deleted one entry at a time.

### 2.6 ListingCache and HistoryWrites

A listing is the version of the tree it was walked from. `get` is split at its
locks and awaits: the look, the join of a flight, the slot, the walk, `insert`.
A write changes the disk, and `invalidate` follows before the client is answered.

`HistoryWrites` has a PUT's path lock, the queue for the account's mutex, the
measured room, the staged body, the rename, and the map that forgets a mutex
when nobody else has a handle on it. A client may go away at any point.

### 2.7 UpdateService and ReleaseSwitch

`UpdateService`: the background task (`sleep`, `try`, `quiet`, `asking`,
`counting`, `install`, `leave`), "Check now", the setting, "Update and restart"
(`look`, `install`, `audit`, `restart`), `Retry`, the drains as spawned messages,
the scheduler's claims and the uploads as counters. The setting and the stop
token are looked at before `busy` asks (`Asks`); the answer and the count of
uploads come later (`Answered`, `Begin`), and nothing looks again. Any number of
uploads may begin, while an update waits too. `due` is the wait each failed
release was promised, which only the properties read.

`ReleaseSwitch`: every file operation of `switch`, its undo, `after_restart` and
`rollback` is a step of its own. An operation named in `scene.faulty` may fail;
the power may fail before any step and tear the file that is being written. The
code handles the errors of the switch and of the rollback. Those of the undo
(`Unplace`, `Unmove`, `Unmark`, `Drop`), of a block (`Block`) and of what is
removed at a start (`Take`, `DropKept`, `Unblock`, `Clear`) it ignores: the step
is passed over and the next one follows (`Ignored`). A release's pack loads only
in that release, or not at all. `stuck`, `risked`, `mixed` and `unwritten` record
what the properties except; no guard reads them.

## 3. What TLC checks

Each run takes from seconds to a few minutes; the constants are in the cfg files
and the scenes in the MC modules.

| run | question | instance and why it is enough |
|---|---|---|
| `breaker` | Can a path that never worked charge a volume? Is a count about one file? Do three returns in a row hold, and does each hold end within an hour? | Two machines and one volume that is replaced once, with the server's own read in between; and one machine, two volumes and seven units of time: four openings, past the cap of six units. |
| `sched` | Is every claim settled by exactly one session or helper? Who is blamed? Does a scan end over a claim? Is a sidecar written twice? Is every step a step of the ledger? | Two registrations of one machine (the second replaces the first) or the local processor, two generations of a volume, two claims; ten scenes with a few kinds of trouble each: cut links and uploads, pauses and benchmarks, returns before and after the upload and by the local processor, archives, settings, stale walks and waiting lanes, fatal errors and the end of the server. |
| `sched_settles` | Does every claim settle, does a drain always end? | Fair scheduling; two volumes; a machine that returns claims and registers anew while a drain is on. |
| `local_restart` | Is the mailbox always right about which instance lives? | Three instances and three restarts: a restart over a crash over a restart. |
| `local_restart_race` | May an old instance's end drop a new one? (violated, see 3.2) | Two instances, one restart. |
| `session` | Is each claim reported once and in order, and does each pause account for all of them? | One session; two claims with one or two workers, or one claim or a benchmark under pauses that come and go and an update. Two claims are what order and a full book need; one is enough for a pause to be lifted and come again around it. |
| `session_ends` | Does a stopped session end, does every claim leave the book? | Two claims, one worker, fair tasks. |
| `listing` | May a listing be older than an answered write? Does the cache keep its books? | One series with two requests, or a request and a refresher, two changes; two series with refreshers and a change outside DAV; the whole library with listings of three sizes, one above the budget. |
| `history` | Does the quota hold, one at a time, and is every waiter served? | Three uploads to two files of one account, bodies of three sizes around both limits, three mutexes: one held, one forgotten, one made anew. |
| `library` | Does the holder of a lock write alone? Is a stale result discarded? | Two requests of every method over two folders; two uploads or deletes beside a collected result, read in place or fetched. Five stamps let an archive be replaced while the old one and the claim's are remembered. |
| `switch` | What does a failed attempt leave? Is there something to go back to, does an undone release stay away, and does the machine settle? | Three releases (one installed, one that fails, one after it). Two failing operations of the switch or others that do no harm (those `OneUnit` is about); two failing operations of any kind and two power failures at any step, with installs by hand, or with torn files. Two of each let an undo fail after the switch, and a block after a rollback. |
| `update` | One installer, a quiet server, no early retry, and an end? | Two releases over six units of time with failing installs, or one with claims, uploads (one at a time, again and again), failing checks, raced messages and a panel that leaves. |

A property that is a conjunction (`Ownership`, `NothingLeftBehind`,
`BrokenPathIsNotCharged`, `HoldsComeAndGo`, `SaidOnce`, `ListingsAreNew`,
`BooksAreKept`, `ApplyingExcludes`) joins named parts that say one thing of one
piece of code; the parts are stated beside it. Every module has a type invariant
`TypeOK` (`RestartTypeOK` in `LocalRestart`, whose names differ from
`UpdateService`'s so that one module can prove things of both). `sched` checks
the scheduler's, `listing` the cache's (within `BooksAreKept`). Those of the
scheduler, the breaker, the cache, the history writes, the local restart, the
switch and the sessions are proved; the other two document the state, and the
proofs use the part of it they need (`Shapes`).

Bounds: `MaxClaims` (claims submitted), `MaxStarts`, `MaxRestarts`,
`MaxFailures`, `Versions`, `Releases`, the `Mutexes`, `Flights` and `Refreshers`
of an instance, and the numbers in the scenes. `Lookahead = 2` is the smallest at which a session
holds a volume behind another one. Symmetry is used where no property is a
liveness property and no constant tells the members apart. Deadlock is not
checked where the inputs are bounded, so that the system may come to rest; in
`sched_settles` it is.

### 3.1 Fairness

* `OcrScheduler`: weak fairness of the pump (a loop in one thread); for every
  session strong fairness of what settles it, since between two of its events
  the thread serves others and the mailbox is a FIFO: its processor either
  answers (a return after the upload is no answer here) or falls silent, and a
  silent one is ended as wedged or overdue by the tick; for every claim strong fairness of its helper thread. Nothing is
  assumed of registrations, links, operators or disks.
* `LocalRestart`: weak fairness of the lock's holder, the mailbox and the
  forwarders, and that an instance whose link was dropped ends. A restart is
  never assumed to be asked for.
* `ProcessorSession`: every task that can go on does: downloads and uploads have
  deadlines and a volume has finitely many pages. Nothing is assumed of the
  library or the owner.
* `HistoryWrites`: a stalled body is cut off after `BODY_STALL`, so whoever is
  inside comes out (weak); tokio's mutex is handed over in the order it was
  asked for (strong, per waiter).
* `ReleaseSwitch`: the process goes on with what it began and its supervisor
  starts it again; a check comes every 12 hours. Nobody installs by hand in
  `SettlesDown`.
* `UpdateService`: the task, the panel's handler and the spawned messages go on;
  each claim and each upload under way ends. That uploads stop beginning is not
  assumed but a premise of `UpdateEnds` (section 3.2). No check, click or setting
  is assumed.

### 3.2 Where code and comments disagree

One disagreement is a run of its own. `restart_local` (`control.rs:387`) says: "A
new generation first: the old processor's "ended" must not drop the new." The
forwarder reads the generation (`control.rs:522`) and then sends `Drop` for the
pid `"local"` (`control.rs:523`), and a whole restart fits between the two. The
run `local_restart_race` shows the order: the old processor ends by itself, its
forwarder finds the generation current, a restart moves it on, sends its own
`Drop`, starts and registers the new processor, and the forwarder's `Drop` is
handled last. The new processor is dropped and its link closed.
`DeadLocalIsDropped` shows what remains true: no dead processor stays
registered.

The others were met while the models were written. Each is an order of steps
that the model has; the property beside it is true only with the condition it
states, and TLC prints the order when that condition is dropped from it.

| where | what happens | what is said | to see it |
|---|---|---|---|
| `bunko-processor/src/session.rs:500` | `watch_pause` loads `draining` and calls `apply_pause` later: a drain that begins in between is undone by the owner's resume. | "Draining for an automatic update: paused after the running volumes whatever the owner's pause says" (357) | `ProcessorSession`, a scene with `updates` and `resumes`: `paused # "no"` while `draining` and no `apply` is under way; or `UpdateWaits` without `~scene.resumes` |
| `session.rs:589` | `end_drain` reads the owner's pause before it waits for the pause lock; a pause applied meanwhile is replaced by the older state. | "back to the owner's pause, or to work" (584) | `OwnerObeyed` without `~scene.updates` |
| `session.rs:1189` | `give_back` reads `released` and settles under two locks, and `finish_volume` looks at the flag it read: a claim given back may still be reported. The scheduler ignores it, the claim being gone. | "Claims a pause gave back (`released`): never run, never reported again" (1029) | `Said(c, "released") # {} => Outcome(c) = {}` |
| `session.rs:413` | `announce` reads the pause and then takes the lock under which it speaks, so an older pause may be announced last. | "Tell the library the availability now in force" (410) | not in the model |
| `bunko-dav/src/cache.rs:392` | `refresh_all` passes over a key whose refresh is under way, which may have walked before the change; the old listing counts as fresh until its ttl is over. | "Background-refresh every cached key" (385) | `ListingCache`, a scene with `outside` |
| `bunko-server/src/ocr/sched/settle.rs:434` | `download_delivered` stamps the claim with the archive of that moment, not the one fetched. | "a stale result is never installed" (`src/crates/bunko-server/tests/ocr_sched.rs:676`) | `StaleResultDiscarded` without `~scene.remote` |
| `ocr/collect.rs:266` | `install` compares the stamp, then hashes and normalises, then locks the sidecar and moves it. Nothing covers the archive in between. | "The archive is still the one the claim read." (265) | `LibraryWrites`, at `Install`: `claim.read` against the archive that is there |
| `bunko-dav/src/methods/write.rs:440` | `copy_move` deletes the destination, asks for its lock again and may be refused; the `?` skips `effects.fire`, and nobody is told of the deletion. | "What a committed write changed, reported once the operation is done" (`methods/mod.rs:289`) | `LibraryWrites`, a request that is `refused` with `changed` not empty |
| `bunko-server/src/ocr/sched/session.rs:627` | `VolumeReturned` ends the claim and, unlike `VolumeFailed` (703), drops no result: one that was uploaded before stays in `results` until the machine leaves (`registry.rs:751`), and `in_flight` counts it. No processor of the repository returns a claim after its upload. | "Uploaded results waiting for their `volume_done`" (`sched/mod.rs:324`, `claim.rs:642`) | `ResultsAreAwaited` or `DrainEnds` without `ReturnsLate`, in a scene with "late returns" |
| `mokuro-bunko/src/autoupdate.rs:313`, `317`, `341`, `382` | The errors of the undo are ignored: the new pack may stay in place under the old program, the old one may stay aside (and the next attempt sees no pack and leaves it there), the marker may stay and have the next start block the release. | "On an error nothing has changed." (274) | `FailureChangesNothing` without `began.clean` |
| `autoupdate.rs:362` | The pack that is installed, whichever release's it is, becomes the kept one, and the one kept before is deleted. After an undo that failed, or a power failure in the switch, that one was the running release's. | "kept as `.prev-<name>` until the new one loads" (`bunko-update/src/auto.rs:205`) | `CanGoBack` without `mixed` |
| `autoupdate.rs:470` | A release whose probe the power cut off serves unproven, and nothing remembers it: the next install takes it as the one to go back to. | the same, and "The new release checks its pack in a child process" (`configuration.md:588`) | `CanGoBack` without `risked` |
| `bunko-update/src/auto.rs:230` | A marker that cannot be removed is taken again at every start: the release it names is probed once more after its copies are gone, or undone with a copy that a failed backup left in part. | "The marker left by the previous run, removed as it is read." (226) | `CanGoBack` and `SettlesDown` without the torn program |
| `autoupdate.rs:276` | No start finishes or undoes a switch that stopped between the pack and the executable: the old release runs with a pack it refuses. | "switch both together" (15), "A release is one unit." (`src/docs/configuration.md:555`) | `OneUnit` without `Undisturbed` |
| `autoupdate.rs:470` | The marker is removed before the probe; a power failure in between leaves the release unproven. | "The new release checks its pack in a child process" (`configuration.md:588`) | `OneUnit` without `Undisturbed`, its second half |
| `autoupdate.rs:503` | A rollback that fails returns, and the start goes on as if the probe had passed: the backups are deleted and the status says "updated". | "Returns only when that fails (then this release keeps running, without OCR, and says so)" (584) | `ReleaseSwitch`, `report = "updated"` with a release not in `checked` |
| `bunko-update/src/auto.rs:80` | The block file is truncated and written anew, and the error of the write is ignored (`autoupdate.rs:544`, `561`, `609`). The marker is gone by then, or not there yet: a full disk, or one failed write and a power failure before the rollback's marker, or one in the middle of the write, lose the block, and the release is installed by itself again. | "X is marked in `.update-blocked.json` and not tried again automatically" (`configuration.md:594`) | `NoRetryOfUndone` without `unwritten` |
| `bunko-server/src/app.rs:178` | `drain` spawns its message and `busy` is asked at once: the question may arrive first, and a claim be handed out after it. | "new OCR claims stop everywhere, the claims in flight and the uploads finish" (`admin/update.rs:17`) | `QuietAtInstall` without `~scene.overtaken` |
| `ocr/control.rs:709` | No answer within 30 s is the same `None` as nothing in flight. | busy is "What a restart would break right now (OCR claims in flight, uploads), or None." (`admin/update.rs:64`) | `QuietAtInstall` without `~scene.timesOut` |
| `app.rs:180` | Two drains are two tasks: the first may be handled last, and nothing lifts it. | "Stop (`true`) or allow again (`false`) new OCR claims" (`admin/update.rs:62`) | `DrainIsLifted` without `~scene.reordered` |
| `admin/update.rs:539` | An update that waits drains the OCR queue, but writing requests are counted and never held back (`app.rs:129`): uploads that overlap keep `busy` from ever saying None, and the queue stays drained all the while. | "the claims in flight and the uploads finish" (17) | `UpdateEnds` without `<>[](writes = 0)` |
| `admin/update.rs:539` | The setting and the stop token are read before `busy` is awaited (up to 30 s); switched off meanwhile, the update is installed all the same. | the same loop calls it off, "called off" (542) | `UpdateService`, `task = "install"` with `~auto` |
| `admin/update.rs:322`, `813` | `apply` clears `applying` after its await, and the restart is spawned after the audit is awaited; a dropped connection drops the future there, and every later update is refused. | "An update is already being applied" (320) | `ApplyingIsHeld` without `~scene.disconnects` |
| `admin/update.rs:436` | A failed check is recorded as the failure of the version "check" in the one `Retry`, which forgets the release that failed and its wait. | "A version that failed is not tried again before its wait is over, whatever triggers it" (`bunko-update/src/auto.rs:242`) | `NeverEarly` without `scene.checkFails` |

## 4. What is proved

The theorems hold for every value of the constants that satisfies the modules'
named assumptions: bounds are natural numbers, each registration has a name and
each job a generation, scenes are scenes. The sets need not be finite, but for
the files of `HistoryWrites` and the folders of `StaleIsDiscarded`. Every safety
property a passing run checks, and the refinement, is a theorem.

**DownloadBreakerProofs.** `IInv` joins the type invariant with the safety
properties and with `ChargesFollowBreaker`, which relates the history of
deliveries and charges to the breaker's "proven" bit: without it nothing ties a
charge to an earlier delivery. From it follow `TypeCorrect`,
`BrokenPathChargesNobody` (from `BrokenPathFailsNothing` and
`UnprovenCountsNothing`), `CountsOneFile` and `HoldsAreEarnedAndEnd` (from
`ThreeInARowHold` and `HoldsAreBounded`): every property of the run.

**OcrSchedulerProofs.** `Ownership` alone is not inductive. A new claim keeps it
only because its id is new, so `SessionsAreOld` and `ClaimsNameTheirJobs` bound
every id by `claim_seq` and tie a claim to the job its id was submitted for. A
session's end gives back the claims it holds, and it must not leave a result
behind, hence `ResultsAreAwaited` (which a return after the upload would break, and says so); a bench must not leave a mark, hence
`NoCancelLeftBehind`; who delivered is a claim held (`DeliveredIsHeld`).
`NoOrphanClaim` is split into the running (`RunningIsHeld`) and the settling
(`SettlingIsHelped`), since each handler touches one of them. `LanesRegistered`, that a lane's
machine has not gone, is inductive on its own; it is what makes a shutdown leave
no lane behind.

Ownership's variables change in few ways, and each is a lemma: claims go back
while their sessions stay or end (`GiveBack`, `SessionsStay`, `EndedSessions`), a
claim goes to a helper (`ToHelper`), a helper ends or installs (`HelperEnds`,
`HelperInstalls`), a claim joins or opens a session (`Submits`), a session opens
empty (`OpensEmpty`). Every action is one of these. Two facts took an argument of their
own: `DropsAreEnds`, that `drop_processor`, which looks for claims by
machine, gives back exactly the claims of the sessions it ends; and
`BenchCancelsAreHeld`, that the marks a benchmark sets are consumed by the
sessions it ends in the same step.

From `IInv` follow `TypeCorrect`, `OwnershipHolds` and its parts
(`SessionsOwn`, `NoneOrphaned`, `HelpersOwn`, `LanesAgree`), and
`ClaimsLeaveNothing` from `ResultsAwaited` and `MarksAreTaken`. `ScanEndsQuiet` (a scan that is off has no session, no claim and nothing
attempted) is inductive relative to `IInv`: a scan only ends in `PumpEnd` and
`Stop`, and everything that makes a claim runs while it is on. `BlameIsEarned` is the action property
`FailuresAreEarned`, from `IInv` alone: only four kinds of step record a failure (an answer, a
helper, the end of a session, a local lane that cannot open), and each earns it.

The refinement is in the same module. `SchedulerKeepsTheLedger`: `OcrScheduler` implements
`JobLedger`. What the ledger sees of a step happens in six ways, one lemma each:
nothing, running claims go back, a claim settles, a sidecar is installed, a
helper ends, a job is claimed. The last needs `MissingIsUnwritten`: a claim asks
the disk, and an archive that owes a sidecar has had none since it changed.
`NeverWrittenTwice` (`WrittenOnce`) is then a property of the ledger, carried
over to the scheduler.

**ListingCacheProofs.** The argument is the epoch's: versions only grow, and an
answered write moved the epoch after it was on the disk; so a walk that began
under the epoch there still is saw every answered write, and one that began
under an older epoch is refused by `insert`. `IInv` says this of every walk, of
a request or of a refresh. `CacheIsNew` and `PropfindIsNew` follow, and `AlwaysNew` is
both.

`BooksStayRight` is about the bytes the cache has counted, which are the sum of
what its entries hold, within the budget (`BooksInv`). A sum over a set is a
recursive function on the subsets of a finite set, and what is proved of it is
proved without an induction theorem: among the subsets that contradict a claim
there would be one with no smaller contradiction in it (`Minimal`: inclusion among the
subsets of a finite set is well-founded), and taking one element from it gives
one. So `SumsAgree`, `SumWithout` and `SumSplit`: a sum is of the values at its members only, a member
counts once, and a sum splits over disjoint sets. `insert` evicts from the
oldest entry on until the rest fits. Age is a strict total order
(`older`), so what remains is always all but the oldest: `EvictionIsDetermined`
says that exactly one outcome is possible, and with it that the action is never
blocked and leaves nothing to chance.

**HistoryWritesProofs.** `OneWriter`: whoever waits or writes has the mutex the
map has for its account (`Mapped`), since the map forgets one only when nobody
else has a handle on it; and a mutex has one owner. `QuotaIsHeld` rests on
`RoomOK`: from the measuring to the rename, the file in a request's place is the
one it found, and the account's other files and the room it was given stay
within the limit. Only a rename changes a sum, and it is done by the one request
of the account that is past the mutex; so a body that fitted still fits. The
sums are reasoned about as in `ListingCacheProofs`.

**LibraryWritesProofs.** `IInv` says that a request holds exactly the keys of the
step it is at (`HeldForItsStep`) and that no two holders' keys conflict
(`Exclusive`). The lemmas on paths say what a conflict of keys is: equal files,
equal folders, or a folder and what is in it. `Touches` says where a step writes:
under its own keys, but for the DELETE of an archive, which also takes the
sidecar. `HolderIsAlone` and `CollectorIsAlone` follow for any number of
folders and requests.

`StaleIsDiscarded` is about a processor that reads in the library. `ReadAsStamped`:
while a claim is read or settles, an archive with the claim's stamp is the one
that was read; so `Check` lets no other pass. It has two hypotheses. `StampsLast`:
no archive gets a stamp it, or the claim, had before; the run's five versions
suffice for that, and in the code a stamp is a size and a time in nanoseconds.
`UploadsAndDeletes`: those are the methods beside a collector, as in the run's
scenes. With MOVE the property is false: TLC lets a client move the claimed
archive away, upload another, wait until that was read and move the first one
back, stamp and all.

**ControlProofs**, of `UpdateService`. `IInv` has four parts: the flag excludes
(`FlagExcludes`); in order, the last drain spawned is the one of where the task
is (`DrainsInOrder`); once the server was found quiet under a drain it has heard
of, no claim begins (`QuietStays`); and the wait in `Retry` is the one promised
to the newest release that failed (`WaitIsKept`). From them `OneAtATime`
and `FlagIsHeld`, together `FlagExcludesOthers`, then `InstallsOverQuiet`, `DrainEndsWithIt` and `WaitsItsTime`.

Of `LocalRestart`: `NewFindsNoOld`. What the scheduler will find when it comes to
a message is decided by what is before it in the mailbox. `ClearBefore` says
that the last Drop or start before a message is a Drop, or there is none and
nothing is registered; `DropsComeFirst`, that this holds before every start in
the mailbox and, once a restart waits or starts, at its end. A restart that
drops nothing relies on the scheduler's answer, and the answer on time:
`AnswersHold` says that no start comes after the question whose answer is
awaited, so that "none is running" is still true when it is used, and that a
question nobody waits for any more carries an older number. A forwarder's late
Drop, the race of section 3.2, only makes the mailbox clearer.

**ReleaseSwitchProofs.** The process keeps a list of what it has left to do, and
every property is about which copies are where; so the invariant is a table.
`Where` names the place the process is at by its list (`stage`), and `WaysOK`
says for each place what the executable, the packs, the kept copies and the
marker are: `SwitchOK` while files are switched or switched back, `StartOK`
while a start looks at the marker, proves or rolls back, `RestOK` between
attempts. Without it a step back has nothing to go back to: that `Unmove`
restores the old pack follows only from what was true at `Aside`. What holds
only as long as no error of the undo was passed over is said under `began.clean`,
and what needs every marker to be gone once it was read under `Taken`.
`BackOK` is about the way back: a release that is neither proven nor given up
(`Settled`) has a settled program kept behind it, and, if it was installed over
its predecessor's own pack, that pack; it needs to know that a process that
switches files, or proves a release, is itself settled. `UnitOK` adds which
releases were checked. `UndoneOK` follows the record of an undone release from
the marker to what the start has in hand to the block: of those whose block was
written (`Shut`), only the newest published can be installed again, and one of
the three names it (`NewestIs`). Each of the twenty steps has a lemma that says
what it does at its place (`...Does`) and one for each part of the invariant
(`...Ways`, `...WayBack`, `...Unit`, `...Undone`); a power failure or a start may
come at any place. From `IInv`
follow `FailureIsHarmless`, `AlwaysOneUnit`, `TheWayBackIsKept`, the action
property `UndoneStaysUndone`, and the types: every safety property of the run.

**ProcessorSessionProofs.** The invariant has two halves. `HubInv` is about the
hub: what the watcher read is what the owner asks for unless there is a change
it has not seen (`WatchOK`); under a pause a claim was started or given back, or
the pause has yet to come to its session (`CoveredOK`); a claim given back is
marked, and on the pause's list or said, once (`ReleaseOK`, `BackOK`); exits are
counted (`ExitOK`, `BenchOK`). From it follow `PauseCovers`, `OwnerIsObeyed`,
`ReleasesOnce` and `ExitsOnce`.

`LineOK` is about the line of each session, on which a claim goes from the
queue to the feeder, the runner's queue, a worker, the message channel, the
reporter's map and the reporter's hands. The properties speak of its two ends,
what went in and what was said; the invariant has to say where every claim is in
between. `FedOK`: a claim is handed over once, and a returned one never.
`MailOK`: messages and events are about claims that were handed over, and a
terminal carries its place in that order. `PlaceOK`: each claim is in one place
until its turn, and its turn is not before the reporter's next number. `StartOK`:
wherever a claim is, the bit its worker or terminal carries says whether
`started` was posted, and what has to come after a message is behind it in the
channel; hence `ready` before `started` before the end, each once. `OrderOK`:
what was told is below the turn. `WholeOK`: nothing leaves the line before its
turn, the exit message comes last, and a turn that is over was told, given back
or fell silent. A step changes one session's line in one of the ways `Moves`
lists (`LineMoves` takes every action to one of them, for the session it is
about and for all others), and each part of the invariant is shown to survive
each way. `SaysOnce`, `EndsAreInOrder` and `ExitIsComplete` follow, for any
number of sessions, claims, workers and benchmarks; of the model's bounds only
that a runner has a worker is assumed (`run` calls `work` itself), for a runner
without any would exit with its queue full.

`UInv` is about the update's count. `in_flight` looks at one session after the
other, at its book first and at its volumes past the runner after; what it found
idle must still be so when it installs. Nothing new can start: the drain that
began before the count is in force to its end (`DrainOK`), and a drain gave back
or marked every claim that came later. And nothing can slip from a place not yet
counted to one that was: what is on its way in a session's line is in its book
(`BookOK`), so the reporter can hold a terminal the book knows nothing of only
after its turn, past the book and before the second look; and only a reporter
that exits outlives its session (`GoneOK`). `CountOK` says what each session
counted so far still is, and `UpdateIsQuiet` is `CountOK` when none is left.
`DrainOK` needs an owner who does not resume: with one, the race of
`session.rs:500` (section 3.2) lifts the pause under the drain.

**Only model-checked:** the liveness properties (`ClaimsSettle`, `DrainEnds`,
`DeadLocalIsDropped`, `StoppedSessionEnds`, `ClaimLeavesTheBook`,
`EveryWaiterIsServed`, `SettlesDown`, `UpdateEnds`), since fairness is out of
the prover's reach.

## 5. Not modelled

`PROJECT.json` gives a reason per component.

* Views, pages, parsing and formatting keep no state across requests.
* The engines and the statistics behind finish-time pricing are floating-point
  numerics; the scheduler's model allows whatever they decide. They, their
  tables and the tools are most of the source lines.
* Failure records and job order are pure functions of a record and a clock, or
  of a queue, and unit tests reach their cases; the scheduler's model has their
  outcomes as choices.
* The accounts database: every write is one transaction on the one writing
  connection, behind a mutex (`bunko-db/src/database.rs:94`). A model of an invite
  used twice would assume the serialisation it is to show.
* One download (`fetch.rs`, `spool.rs`) is sequential code of one task against a
  server; `ProcessorSession` has its outcomes. The availability a processor
  announces, its progress reports and the two transports are not modelled.
* The LOCK table of class 2 WebDAV, conditional headers and permissions.
* The library's catalogue is compiled from the tree as a pure function, against
  golden files. The tray supervises one child process.
* Front ends and packaging have no behaviour of their own.

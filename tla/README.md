# ublkera in TLA+

A specification of ublkera, a changed-block-tracking ublk target, and of the
fault-injection device (ublkfault) it is tested on. The TLA+ modules model the
Rust code; TLC checks them on small instances, and TLAPS proves the safety
properties for every size. `PROJECT.json` lists the components, the runs, the
source lines behind each definition, the findings, the hazards and the theorems.

Running: `tlc -workers 2 -config MCEraMap_safety.cfg MCEraMap`, and so on for
each entry of "runs"; `tlapm EraMapProofs.tla`, and so on for each
`*Proofs` module and `EraMapRefinement`, checks the proofs.

## 1. Inventory

| Part | Source | State | Operations | What is hard |
|---|---|---|---|---|
| Era map | `src/era.rs` | `current_era`, one era per chunk, all atomics | `mark_write`, `checkpoint`, `ranges_since`, `mark_all_dirty` | no lock: queue threads stamp while the control thread closes eras and scans |
| Metadata file | `src/era.rs`, `src/manager.rs` | file at the metadata path, its tmp file | `save`, `load`, attach marker, checkpoint save, final save | crash between any two calls; two threads saving; an old history's cursor |
| IO target | `src/target.rs` | phase of each tag | submit, stamp, complete, retry on EAGAIN, reject | a failed IO may have changed the medium; stamp before acknowledging |
| Device manager | `src/manager.rs` | registry, one supervisor thread per device | `add`, `del`, `reap`, `checkpoint(_all)`, `dump`, `shutdown_all` | supervisors, control thread and signal thread race; timeouts; devices that vanish |
| Control socket, process | `src/ctl.rs`, `src/main.rs` | socket file, request loop, signal thread | probe, unlink and bind; one request per connection; shutdown, exit | overlapping starts and ends on one path, a signal beside a request, silent clients, stale files |
| Backup consumer | `src/bin/chaos.rs` | cursor (generation, era), image | checkpoint, dump, copy; crash, reattach, lose metadata | copies a live device |
| Fault disk | `ublkfault/src/model.rs` | committed content, volatile cache | write, discard, flush, crash, write-back | what survives a crash |
| Fault queue | `ublkfault/src/main.rs` | parked tags, thaw result, eventfd | serve, park, thaw, crash | one list and one eventfd for all queues; a thaw beside another |
| Scenario runner | `ublkfault/src/scenario.rs` | none | write, fsync, crash, thaw from a file | its steps are the clients of the stacked devices |
| Scripts | `scripts/` | none | end-to-end tests in a VM | not modelled |

How they interact. A queue thread takes a request from the driver, submits the
backing IO, stamps the era map when it ends and only then acknowledges. The
consumer asks the control thread for a checkpoint, then for a dump since its
last cursor, and reads the reported ranges from the live device. `add` loads
the metadata file, writes an unclean marker and spawns a supervisor, which runs
the device and makes the clean save when it has gone. The registry mutex is held
for short critical sections only; supervisors never touch the registry. In the
tests of `docs/testing.md` 3.5 ublkera's backing is the fault device, whose disk
can lose its cache while both processes live on.

What makes it correct:

* era map: a chunk that differs from the consumer's image is being written, or
  is reported (`NoLostChange`); a race falls into this diff or the next; a
  quiesced backup is exact; nothing untouched is reported;
* metadata: an accepted cursor never under-reports, across any crash
  (`CursorSound`); the file is never partial;
* daemon: no backing attached twice, no running device out of reach, files
  unclean while their device runs, everything detached at exit, no deadlock;
* fault disk: coherent reads, flushed data survives, only the recent window is
  at risk; fault queue: thaw completes the parked requests, all and once;
* ublkera on the fault device: what a flush acknowledged stays, and the dump
  covers whatever differs from the image (`FlushDurable`, `DumpCovers`);
* socket: one daemon at a time holds devices and can be reached, a stale file
  keeps nobody out, a daemon told to end does.

## 2. Modules

| Module | Models | Abstracts |
|---|---|---|
| `EraMap` | tags, era map, checkpoint, dump scan and consumer, one atomic access per step | data is "may differ from the image" (`stale`); bytes are chunk numbers |
| `ChangeTracking` | what change tracking promises; implemented by `EraMap` | no eras: two sets of chunks, a request is marked in one step |
| `EraMapProofs`, `EraMapRefinement` | theorems about `EraMap`; that it implements `ChangeTracking` | |
| `DocBackup` | `EraMap` with the first backup as the docs describe it | |
| `ChunkRanges` | byte arithmetic of `mark_write` and `ranges_since`; the era counter at its width | one thread; a sector is the unit |
| `ChunkRangesProofs`, `MetaStoreProofs`, `DaemonProofs`, `CtlSocketProofs`, `FaultDiskProofs`, `SandwichProofs` | theorems about the module of that name (`FaultDiskProofs`: about `FaultDiskContract`; `SandwichProofs`: `FaultQueue` too) | |
| `MetaStore` | `save` by system call, `load`, attach, checkpoint, detach, a supervisor that a failed `del` or an `add`'s timeout has forgotten, crash, cursor acceptance | the map is atomic; CRC and layout are whole/torn; one forgotten supervisor at a time |
| `Daemon` | registry, requests, supervisors, signal thread, exit | the metadata file is what `load` says of it; device ids are unique; a backing is its path |
| `CtlSocket` | `bind`, `serve`, `handle` and `run_daemon` of several daemons on one path, their clients and signals | the socket file is the daemon that bound it; of its devices, whether it has any (`Daemon` has the rest) |
| `FaultDisk` | `model.rs` | the seeded generator is nondeterminism; a block is the unit; applying entries in order is "the last one that covers the block" |
| `FaultDiskContract` | `FaultDisk` under any requests, with the history its contract is stated in | |
| `FaultQueue` | parking and thawing | the data of requests |
| `Sandwich` | ublkera on the fault device: instances of `FaultDisk` and `FaultQueue` under the IO target, the tracker and a client | marking is one step (`ChangeTracking`); the policy is any; one queue; the backing is opened O_DIRECT |
| `MC*` | constants and symmetry for TLC | |

How the state corresponds:

* `EraMap`: `currentEra`, `eras` are the atomics; `pc`, `req`, `seen`, `next`
  are a tag's place in `handle_io_cmd`/`mark_write`, its descriptor and the
  locals; `bpc`, `closed`, `scan`, `todo`, `cursor` are the consumer's. `stale`,
  `touched` and `touchedNow` are history. One queue thread runs one handler at a
  time (`QueueFree`). A data change lands (`Land`) at any time while the backing
  IO is in flight, also for an IO that then fails.
* `MetaStore`: `path` and `tmp` are file contents; `durable` is what the path
  holds after a power loss. A descriptor follows its inode through renames. `sv`
  is the save each thread is in, `cop` what the control thread does, `att` the
  device, `entry` whether the registry has it, `withMeta` whether it was added
  with `--meta`. An `add` is gated by the entry alone, as in the code. `Forget`
  is a `del` that has taken the entry and fails to delete the device (or the
  signal thread's), `AddTimeout` an `add` that gives up on a start: the device
  may be up, or come up later, and its final save is still to come. An `add`
  then (`LeaveBehind`) makes a second device on the same backing and the same
  metadata file: the forgotten one goes on as `old`, with its own map, its
  writes and its save. A new generation differs from every id that is still
  around: the code draws 64 random bits.
* `Daemon`: `registry` is the map; `backing` is the path each `add` names, any
  for each. `add` compares path strings, and a backing is a path here: the
  client canonicalises the path it sends (`canonical_path` in `main.rs`), so two
  names of one disk are one path, except in a request that is written to the
  socket by hand, which the duplicate check does not see through either. `sup`
  and `ready` are each attachment's supervisor and channel; `pc`, `at`, `ids`,
  `quit` are the two threads that use the registry. Every critical section of
  the mutex is one step.
* `FaultQueue`: `slot` is who holds a request, `parked`, `thawResult` and `efd`
  the shared state, `poll`, `pc`, `thaw`, `tags` a queue thread. In `Sandwich` a
  step of the lower device is the queue's step and what it does to the disk;
  `io` and `res` are the upper tags, `dirty` and `image` the consumer's view;
  `during`, `legal`, `loose` and `lost` are history.
* `CtlSocket`: `path` is the file, `pc` and `sig` the two threads of each
  daemon, `conn` the connection it handles, `holds` whether it has devices
  attached: a request may attach or detach some, `shutdown_all` detaches what
  its snapshot has and may miss what a request attaches beside it. Clients may
  have queued up since `bind`, so a connection can be there at any time, whoever
  has the file by now. A process that has ended may be started again.

The refinement. `EraMap!Tracks` says that `EraMap` implements `ChangeTracking`
with `dirty` = the chunks whose era is above the cursor, `fresh` = those above
the closed era of the running backup, `marked` = the tags that have left
`mark_write`'s loop. The first pass of a stamp is a `MarkEarly` (a chunk may be
reported before its request has settled), the successful second load is the
`Mark`, the last load of the scan is the `Dump`, and a foreign checkpoint
changes neither set. So era numbers, retries and the scan that takes no snapshot
are an implementation of two sets: a dump may leave out only what the next one
reports.

A few definitions are fault variants of the operation that follows them (each
says so): replacing the operation by its variant makes a property fail, which
shows that the property depends on that line of the code.

## 3. Runs

Passing:

| Run | Bounds | Shows |
|---|---|---|
| `era_safety` | 2 chunks, 2 tags on 2 queues, eras up to 3 | the CBT contract in all interleavings, and the refinement |
| `era_live` | 1 chunk, 2 tags on 1 queue, discard, flush and an unsupported op, eras up to 3 | requests complete, backups end |
| `meta_store` | 1 chunk, 2 generations, eras up to 3; with and without `--meta`; kill and power loss at any call, every save may fail, external deletes, forgotten supervisors, timeouts | `CursorSound`, `FileAheadOfCursor`, `UncleanWhileLive`, `FileIntact` |
| `chunk_ranges` | 5 sectors in chunks of 2, a counter of 4 values, 6 checkpoints | the ranges hold every changed sector and only changed chunks; the counter may wrap |
| `daemon` | 2 attachments of one backing or of two, all six faults | registry, attach marker, exit; every request returns, every shutdown ends |
| `fault_disk` | 3 blocks, cache of 3, 2 values | the storage contract |
| `sandwich` | 1 block of 2 values, a cache of 1 block, 2 tags on 1 queue | what flushes and dumps are worth on a device that fails, hangs and loses power |
| `socket` | 2 daemons, any number of starts, 4 kinds of client | who owns the socket and holds devices, and that a daemon ends |

The bounds reach the interesting cases: two chunks and two queues give every
overlap of two stamps with the scan position between them; the third era is
closed by the second backup or by the checkpoint that races the first one (with
the refinement a fourth takes too long; the theorems are for any number). One
chunk is enough in `MetaStore`, where chunks do not interact (the map is atomic
and the recovery treats all of them alike). Two generations are the consumer's
and another one (`meta_behind` has a third); once a device has been added beside
a forgotten one, the constraint `Explored` follows a behaviour only up to the
next harm, and only if no directory sync has happened: `FileIntact` alone speaks
of it then, and its proof has no such bound. A partial tail chunk and unaligned
ranges occur in five sectors of two, and six checkpoints take a counter of four
values past its wrap. One block is enough in `Sandwich`: requests meet in the
cache and in the parked list, and blocks meet nowhere else (write-back across
blocks is in `fault_disk`); two tags give a write beside a write and a flush
beside a write. Two daemons give every overlap of a start with a start and with
an end. Two attachments, of the same backing or of different ones, are what the
duplicate check can tell apart, and give `shutdown_all` a list of two. The
bounds on eras (`MaxEra`) stand in guards of the checkpoint actions. The two
queues with their tags in `era_safety`, and the generations, are interchangeable
(`SYMMETRY`); no liveness run uses symmetry.

In `MetaStore` and `Daemon` a history variable `happened` records faults
(`lost`, `overlapped` and `twice` do so in `Sandwich` and `CtlSocket`), and a
property that a fault can break is stated for behaviours in which it has not
happened. So one run explores all faults, and the conditions say exactly what
each promise rests on:

| Property | Holds unless |
|---|---|
| `CursorSound`, `FileAheadOfCursor` | a checkpoint's save failed, or a power loss undid a rename ("behind"); or a device was added beside a forgotten one that had not ended ("beside") |
| `FileIntact` | two threads had a save open at the same time ("shared") |
| `UncleanWhileLive` | a device was added beside a forgotten one that had not ended ("beside") |
| `NoDoubleAttach` | a signal, a timed-out `add` or a refused delete; vanishing devices are fine |
| `NoOrphan` | a timed-out `add` or a refused delete; signals are fine |
| `UncleanIfUndisturbed`, `ExitDetached` | any of signal, timeout, refused delete, vanished device; failed starts, panics and kills are fine |
| `RequestsReturn`, `ShutdownEnds` | always |
| `NoSectorMissed` | a cursor is older than a whole cycle of the counter |
| `OnlyChangedChunks` | the counter has wrapped (old stamps then over-report) |
| `DumpCovers` | a power loss of the lower device took back cached content that the image already had (`lost`) |
| `OneDaemon` | two starts overlapped, or one daemon got both a signal and a shutdown request, since a daemon was last started alone; or a daemon has a device that its `shutdown_all` missed, as one that a request attaches beside the signal thread |
| `RefusedOnlyByLive` | two starts overlapped since a daemon was last started alone |
| `FlushDurable`, `DumpCovers`, `ThawReleases` | the fault device has more than one queue (the model has one) |
| `EndsWhenTold` | always |

### Disagreements with the documentation

Four runs each check what the docs or comments promise without such a
condition, and end in a counterexample (the quotations are under "findings"):

* `doc_backup`: a first backup taken as full copy and then checkpoint, with IO
  running, loses writes. The harness takes the checkpoint first.
* `meta_behind`: if the file on disk has an era not above the consumer's cursor
  (the checkpoint's save failed, or its rename was undone by a power loss),
  recovery marks everything dirty in an era the cursor has passed, and the next
  diff is empty. `FileAheadOfCursor` is the invariant that these two faults
  break, each by itself, and all other crashes keep.
* `daemon_external`: a `del` that finds its device already gone forgets a
  supervisor that has yet to save; its clean save can overwrite the marker of
  the next attachment. (What it does to the file, and to the cursors of a
  consumer, is the condition "beside" of `MetaStore`.)
* `thaw_queues`: with more than one queue on the fault device (`serve --queues`)
  the parked tags do not say which queue they belong to. The queue that a thaw
  wakes first drains them all and completes its own slots of those numbers,
  where `queue_fn` says that a tag's buffer has a single owner at any time. With
  one queue, the default, `SandwichProofs` has that a handler completes only
  slots that are parked (`QInv`).

The conditions in the table above stand for further ones, which have no run of
their own. A device that is added beside a forgotten one shares its backing and
its metadata file, and neither map has the other's writes: `CursorSound`,
`FileAheadOfCursor` and `UncleanWhileLive` all fail then
(section 5 of `docs/concurrency.md` speaks of double attachment only where two
requests race). The two saves of "shared" use one tmp file, so that a rename can
publish the file the other thread has just truncated, where
`docs/concurrency.md` 6 says that the last rename wins. The signal thread is
outside the serialisation of the control loop that `docs/concurrency.md` 5
argues with: an `add` can slip in between its removal of an entry and its
deletion of the device, and a device whose entry is not inserted yet (or is
already taken) is up at the exit. A device that comes up after the timeout of
`add` is unmanaged. Two more lie outside the models' properties: an era passed
to `dump` without its generation is accepted by a newer history that has as
many eras; and `mark_write` may return just after a checkpoint that came
between its last load of `current_era` and the return, which the comment in
`era.rs` rules out and the contract does not need (section 4).

`ctl.rs` says of `bind` that it "fails if another live daemon already owns" the
socket; two starts at the same time can both find no daemon, and the second one
then unlinks the live socket of the first, which goes on with its devices out of
reach. The same happens to a new daemon when an old one ends twice: serve and
the signal thread each remove whatever file is there. A shutdown whose client
hangs up before the reply is forgotten, as the request counts as failed.
`docs/testing.md` 3.5 has the dump cover what a power loss of the lower device
took away; that is so for what was written after the checkpoint, and not for
content that was only cached when the image was taken, which a flush before the
checkpoint would prevent. After 2^32 checkpoints `dump --since 0` no longer
reports a chunk whose only writes fell into the era numbered 0; a debug build
panics at the wrap (`old + 1`) after it has happened.

### Fairness

`EraMap`: queue threads serve the completions of their ring in order, so a tag
is not passed over for ever (strong fairness of its handler, which another tag's
turn disables now and then); the backing answers every IO and not with -EAGAIN
for ever; control thread and consumer go on. Requests, checkpoints and the
consumer's giving up are never required. A retry of `mark_write` needs a
checkpoint inside it; the bound on eras makes checkpoints finite, so
`RequestsComplete` says that any finite number of them is survived.
`Daemon`: threads that can run do run, libublk answers the start of a device and
a save returns; no request, signal or fault is required. `Sandwich`: the queue
thread takes the events of its ring in turn, so it gets to a thaw event although
requests keep coming, and the control thread finishes the thaw it has begun;
nothing makes a client thaw, and nothing makes a request be served. `CtlSocket`:
both threads of a process run and `shutdown_all` comes to its end (`daemon`
shows that); nothing is assumed of clients, signals or starts.

## 4. Proofs

Every safety property of the passing runs, and the refinement, is a theorem:
TLC shows it on the instance of the run, TLAPS for every value of the constants.
The assumptions on constants are the named `ASSUME`s of the modules, which say
no more than that sizes and bounds are natural numbers (a device has a byte and
a chunk, a counter two values), maps are functions into the declared sets, the
names for "none" are not real elements, 0 is a block's content, the faults are
among the known ones, and (`Sandwich`) a queue has finitely many tags. The
bounds on eras and checkpoints are constants too, so "every value" includes
every bound.

An invariant is proved by an inductive one, `IInv`, which TLC checked first;
each module has a lemma per action or group of actions for its preservation and
ends in `Invariance`: `Spec => []IInv`.

| Module | Theorem | Property |
|---|---|---|
| `EraMapProofs` | `TypeCorrect`, `Contract`, `NowOrNext`, `FrozenExact`, `Precision` | `TypeOK`, `NoLostChange`, `CaughtNowOrNext`, `FrozenBackupExact`, `OnlyTouchedReported` |
| `EraMapRefinement` | `Refinement` | `Tracks` |
| `ChunkRangesProofs` | `TypeCorrect`, `NothingMissed`, `NothingExtra`, `Canonical` | `TypeOK`, `NoSectorMissed`, `OnlyChangedChunks`, `RangesCanonical` |
| `MetaStoreProofs` | `TypeCorrect`, `CrashNeverClean`, `FileAhead`, `RestartContract`, `AtomicReplace` | `TypeOK`, `UncleanWhileLive`, `FileAheadOfCursor`, `CursorSound`, `FileIntact` |
| `DaemonProofs` | `TypeCorrect`, `SingleAttach`, `Reachable`, `MarkerKept`, `CleanExit` | `TypeOK`, `NoDoubleAttach`, `NoOrphan`, `UncleanIfUndisturbed`, `ExitDetached` |
| `CtlSocketProofs` | `TypeCorrect`, `Exclusion`, `StaleFileHarmless` | `TypeOK`, `OneDaemon`, `RefusedOnlyByLive` |
| `FaultDiskProofs` | `TypeCorrect`, `ReadBack`, `Durable`, `CrashWindow` | `TypeOK`, `ReadYourWrites`, `FlushedSurvives`, `RecentWindow` |
| `SandwichProofs` | `TypeCorrect`, `FsyncDurable`, `DumpComplete` | `TypeOK`, `FlushDurable`, `DumpCovers` |

The arguments:

* Era map. `NoLostChange` is not inductive: when a request leaves the stamping
  loop its chunks stop being excused by "unsettled", and one must know that they
  carry an era above the cursor. `IInv` adds `EraBounds` (cursor, closed, loaded
  and stamped eras are below or at `currentEra`), `MarkProgress` (the chunks a
  request in its loop has passed carry at least the era it loaded, so when the
  second load finds that same era current they are above every closed one),
  `ConsumerShape` (which consumer fields are set in which phase) and
  `TouchedAbove` (what is above a closed era was touched). `CaughtNowOrNext`
  turns into `NoLostChange` when the backup finishes and `closed` becomes the
  cursor; `FrozenBackupExact` follows from it.
* Refinement. One lemma per action shows the step of `ChangeTracking` or the
  stutter it maps to. Beyond `IInv` this needs `ClosedAhead` (what is fresh is
  dirty) and `ScanSound`: what the scan has passed and left out is above
  `closed` or belongs to a request still in its loop. That is what makes a scan
  without a snapshot an atomic dump.
* Byte arithmetic. The loop of `ranges_since` is proved by induction over its
  iterations (`LoopInv`: the ranges are runs of whole chunks, apart, and cover
  exactly the newer chunks visited), in terms of the chunk borders, so that the
  multiplications are met once (`EdgeFacts`). `IInv` says that the counter is
  the count modulo its width, that a chunk's stamp is at least the residue of
  its last write, and that until the wrap a stamp is earned by a write in its
  chunk. `SameCycle` is why the wrap does not hurt: a cursor less than a cycle
  old that the comparison accepts is from the same cycle.
* Metadata file. `Shape`, `Buffers`, `Unshared` and `Solo` say which saves can
  be open and what their buffers and the tmp file then hold; `Alone` that a
  forgotten supervisor is beside nobody until an `add` takes no notice of it;
  `Marked` that a starting or live device's file is unclean until then; `Ahead`
  and `Sound` extend `FileAheadOfCursor` and `CursorSound` from the path to
  every place a file can still come from: the tmp file, the buffers and the map
  in memory. `Solo` is why the marker is safe even after saves that shared the
  tmp file.
* Daemon. `Held` (a running device is in the registry or in the hands of the
  call that starts or deletes it), `Exclusive` (entries and the running `add`
  have different backings), `DownHeld` (a device that is going down is waited
  for, so no final save meets the file of a later attachment), `QuitCovers`
  (what is left in the registry is on the list of `shutdown_all`), and what the
  readiness channel says of a supervisor.
* Socket. `OneDaemon` rests on starts that have passed their check being alone
  (`StartsApart`, `StartsAlone`), on one thread ending a daemon (`OneEnding`),
  so that a daemon owns the path until that thread has removed the file
  (`OwnsPath`), and on devices being gone by then unless one was missed
  (`Attached`).
* Fault disk. `CacheAllowed` (a cached value may be committed) and `CacheEnd`
  (the history's count of newer bytes is the size of the end of the cache), with
  lemmas on overlays: writing back a prefix leaves what a read shows alone, and
  the oldest entries go first.
* Sandwich. The queue part says that the parked list and the handler's list name
  parked slots, no slot twice, so that they are no longer than the queue; the
  data part that cached and travelling writes are legal content (`CacheLegal`),
  what a flush under way already covers (`FlushCovers`), and that a cached block
  is busy, reported or was cached at the checkpoint (`CacheKnown`). It uses the
  lemmas of `FaultDiskProofs` through an instance.

Induction over data. The library's induction rules take an operator as a
parameter, which the provers cannot instantiate. Where an induction is needed
(the loop of `ranges_since`, that its recursive definition has a solution, the
maximum of a set of indices) the proof takes the least counterexample instead,
from `WFMin` and the well-foundedness of `<` (`LeastNatural`, `LeastExists`).

Only model-checked: the liveness properties `RequestsComplete`, `BackupEnds`,
`RequestsReturn`, `ShutdownEnds`, `ThawReleases` and `EndsWhenTold`, since
fairness and ENABLED are beyond the prover; and the absence of deadlock.

## 5. Not modelled

Reuse of ublk device ids by the kernel, and libublk's behaviour on a failed
start with an explicit id; JSON and the command line; `--buffered`, with which
the page cache stands between ublkera and its backing; device parameters and the
probing of the backing; the memory orderings of the atomics (every access to an
atomic is at least acquire/release in the code, and is one step here);
statistics, the `set` command (any policy is explored instead) and the seeded
generator of the fault device; the parsing of scenarios, their patterns and
shell commands; the random schedule, shadow image and VM plumbing of the chaos
harness, which TLC's exploration replaces; the scripts.

## 6. Plan

Done, in order of importance: `EraMap` with its proofs, `MetaStore`, `Daemon`,
`ChunkRanges` (then with the wrap of the counter), `FaultDisk`, `FaultQueue`;
then `ChangeTracking` and the refinement, `Sandwich` (the IO target on the fault
device) and `CtlSocket`; then the proofs of all safety properties and of the
refinement.

Next: that `Sandwich` marks the way `ChangeTracking` does, so that `EraMap` and
the stacked devices meet in a theorem; the safety part of `ThawReleases` (a
parked tag is owed by an event that is pending or a thaw still to come).

And in the models: `EraMap` and `MetaStore` composed, so that a crash falls into
a stamp and a scan as well; repaired variants of the operations behind the
findings (a directory sync, a tmp file per saver, an era bump on recovery), with
the properties that then hold under all faults.

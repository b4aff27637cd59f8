# Ferry: a TLA+ development

Ferry keeps a project folder identical on several devices. There is no server
copy: each device scans its own folder into content-addressed manifests,
exchanges manifests with a peer in short sessions, merges the peer's manifest
into the live folder with a three-way merge, keeps the losing version of every
conflict as a file next to the winner, and records which manifest both devices
hold. That record is the base of the next merge, and so decides whether a file
that the peer does not have was deleted there or never existed there.

This directory models that core and the processes around it, and checks them
with TLC and TLAPS.

## 1. The system

Paths are relative to `src/crates/`.

| component | code | state | operations |
|---|---|---|---|
| merge | `ferry-sync-engine/src/reconcile.rs`, `ferry-store/src/diff.rs` | none | `reconcile`: base, local and remote manifest to an action plan |
| convergence engine | `ferry-sync-engine/src/converge.rs`, `naming.rs`, `report.rs` | conflict log, held ledger | verify losers, write copies, apply, record a clean merge |
| materializer | `ferry-materialize/src/` | the live folder, temporaries | plan, guard, remove, write to a temporary file and rename, restore times |
| scan engine | `ferry-scan/src/` | last root, parent manifest, directory cache, signal queue, one-slot subscriber channels | full and incremental passes, sweeps, publish |
| sync engine | `ferry-sync/src/engine.rs` | folder pointers, session lock, permits, peer policy | `sync_loop`, `accept_loop`, `dial_and_run`, `record_agreement`, `start`, `shutdown` |
| exchange | `ferry-sync/src/exchange.rs`, `session.rs` | current manifest, peer's offer | two offer rounds, a pull stage for each end, final agreement |
| store | `ferry-store/src/` | packs, index files, staged blobs, agreement files, `gc-state` | put, get, flush, adopt a pack, compact, collect garbage |
| pins | `ferry-sync-engine/src/pin/`, `held.rs`, `ferry-cli/src/commands/pin.rs` | pin record, held ledger | start, stop, gate a plan, release |
| wire protocol | `ferry-proto/src/` | handshake and channel keys, session locals | hello, authentication, sealed frames, adverts, batches, packs |
| pairing | `ferry-folder/src/pairing.rs`, `ferry-crypto/src/pairing.rs`, `ferry-rendezvous` | offers, codes with expiry, offer, response and grant files | offer, accept, poll, grant, adopt |
| folder on disk | `ferry-folder/src/folder.rs` | `.ferry/config` with the wrapped keys, settings | init, open, append a wrapped key |
| registry | `ferry-folder/src/inventory.rs` | `folders.toml`, its lock file | register, ensure, unregister |
| device daemon | `ferry-daemon/src/device_daemon.rs`, `supervisor/`, `ferry-platform/src/lock.rs` | folder engines, `daemon.lock`, `daemon.pid`, socket | start, tick, register, remove, stop |
| local control | `ferry-daemon/src/ipc/`, `ferry-ipc/src/` | connections, pending queue, broadcast feed | commands, answers, pushes, reconnection |
| front ends | `ferry-tui`, `ferry-gui`, `ferry-daemon/src/ui/`, `ferry-cli` | what they show | fetch, follow events, fall back |
| transports | `ferry-iroh/src/transport.rs`, `ferry-sync/src/transport.rs` | the shared endpoint | dial, accept, close |
| cryptography, relay, platform, ignore policy | `ferry-crypto`, `ferry-relay`, `ferry-platform`, `ferry-ignore` | | |

How they interact. The scan worker, the poller and the auditor are threads of
the scan engine; a pass that finds a new tree stores a manifest and offers an
event to the subscriber. The subscriber is the `sync_loop` thread of the sync
engine, which updates the folder's pointers and dials when they differ from the
last agreement. `accept_loop` starts a thread per connection. A session, on
either side, runs under the session lock; it scans once, offers the current
manifest, pulls and serves, and may adopt the peer's manifest. The merge of a
pull writes the live folder, which the scan threads and the user read and write
at the same time. The store is shared by all of them, and with the processes
of `ferry pin`, `ferry store gc` and `ferry status`. The supervisor of the
device daemon runs an engine per registered folder over one endpoint; commands
and front ends reach it at a socket and change the registry themselves when
there is no daemon. Pairing adds a device to the key envelope of a folder,
which is what the engine's peer policy reads.

What is hard here: a user edits while a merge is being applied; a scan sees a
half-applied merge; a scan event is read after a session has moved on; the two
ends of a session merge and record independently; a process dies between the
ledger, the store and the folder; a connection is lost between any two
messages; manifests travel through third devices; several processes change the
same small files (pin record, ledgers, registry, key envelope, lock files) with
weak locks or none; answers and pushes share one connection without ids.

What makes it correct:

* merge: both ends reach the same tree and the same copies; no version
  disappears; the result is a tree;
* ledger: an agreed manifest holds only what both devices have had;
* apply: a file the guard has seen is not lost, no partly written file shows,
  and an interrupted merge is taken up by the next, or refused aloud;
* sessions: each one ends, with the same keys and the same agreement on both
  ends; permits and locks come back; shutdown ends;
* scan: when all is quiet the tree is the one on disk, and lost events heal;
* pins: a held path is not written before release, and release forgets nothing;
* store: what is referenced stays readable across crashes and collections;
* pairing: both devices can open the folder, and a code admits one device;
* daemon: one engine per directory, no lost registry change;
* front ends: an answer goes to its call and a change reaches the screen.

`PROJECT.json` lists the components with their status and, under `hazards`,
where each of these can go wrong in the code.

## 2. The modules

| module | models |
|---|---|
| `Reconcile` | the merge as operators: `Decide` is the decision table, `PickWinner` the tie-break, `Plan` the action plan with quarantine, suppressed removals, rebuilt directories and `StructuralConflict`, `Applied` and `Copies` the effect of the plan on the disk |
| `ReconcilePair` | the two ends of one exchange, each merging what the other offered |
| `ReconcilePairProofs` | theorems about the two |
| `FolderSync` | the devices sharing a folder: user, scanner, pointers, sessions, crashes |
| `FolderSyncProofs` | theorems about `FolderSync` |
| `BlobStore` | abstract: what a store promises, two sets of blobs |
| `PackStore` | the store of one folder: staging, packs, index files, compaction, threads, processes |
| `PackStoreProofs` | theorems about `PackStore`, among them that it implements `BlobStore` |
| `Materialize` | a plan of `Reconcile` carried out one system call at a time |
| `Scan` | the scan engine of one folder: watcher, worker, poller, auditor, passes |
| `Collect`, `Pins` | the garbage collector; pins and the held ledger beside it (`Pins` extends `Collect`, which extends `Reconcile`) |
| `PinsProofs` | theorems about the two |
| `Wire` | `run_engine` of ferry-proto, frame by frame |
| `WireProofs` | theorems about `Wire` |
| `Engines` | loops, session lock, permits, endpoint and supervisor of several folders |
| `EnginesProofs` | theorems about `Engines` |
| `Ipc`, `Clients` | the control channel; the three front ends over it |
| `Registry`, `DeviceDaemon` | `folders.toml`; the daemon, its locks and the commands |
| `DeviceDaemonProofs` | theorems about the two |
| `KeyEnvelope`, `Joining` | `.ferry/config`; sharing and joining a folder |
| `JoiningProofs` | theorems about the two |
| `MC...` | instances for TLC |

`FolderSync` takes a scan pass, the materializer's steps and a transfer for one
step each; `Scan`, `Materialize` and `Wire` open them up. `Installed` of
`Materialize` states the connection for the merge: undisturbed, the steps come
to `Applied`.

**Reconcile and ReconcilePair.** A tree maps paths to entries of three kinds.
An entry keeps its content (chunks or link target) and its time; the time
stands for all metadata. `Seen` is what `compare_entry` shows the merge: a
directory that stays one is not a change. `Diverges` is where the guards of apply
refuse the plan although nobody touched the folder: the plan replaces an entry by
one of another kind at a path that is absent here. In `ReconcilePair`, `proven[e]`
says whether end `e` can prove the base, since the two ends can differ in that,
and `author[e]` which device made the manifest it offers: an end that adopted a
manifest offers it again under its maker's name. `Pull` is the whole of `converge`
on one end: merge, copies, removals, writes; `PullRefused` and `PullDiverged` are
its errors, which leave the end as it was.

**FolderSync.** One record of the model for one of the code:

| model | code |
|---|---|
| `mans`, an id is an index | manifests by hash, in order of creation time |
| `tree[d]` | the folder on disk |
| `store[d]`, `staged[d]` | what `Store::get` returns, and what of it `flush` has not written |
| `ledger[d][e]`, `latest[d]` | agreement files, and the one with the latest time |
| `scanRoot`, `parentId`, `chan` | `Core.prev_root_tree_id`, `prev_manifest_id`, the subscriber's channel |
| `current[d]` | `FolderPointers.current` |
| `pc`, `peer`, `dialer`, `cur`, `target` | the session: `Exchange.cur`, `Exchange.peer_offer` |
| `basis`, `todo` | the base of the merge and the operations `Applier::run` has left |
| `seen`, `atGuard` | history variables, for the properties only |

`Start` is `SyncEngine::start` with the initial scan, `Scan` a pass of a scan
thread, `HandleScanUpdate` a turn of `sync_loop`. A session is `Connect`, then
`BeginStale` or `BeginScan` (the `scan_once` of `run_session_v1` found nothing,
or published), `OfferRound`, for each end one of `PullEqualRoots`,
`PullEmptyPeer` and `PullContent`, then `CloseStage`, `FinalRound`, `Agree` or
`Disagree`, and `ByeQuiet` or `ByeScan`. A merge is `PullContent`,
`Quarantine`, `Guard`, a `WriteOne` for each file and `PullDone`; it fails in
`Diverged` or `WriteFails`. `Crash` and `Disconnect` come at any time, and
`Abandoned` is the end that notices.

Abstractions of `FolderSync`: the folder is flat and holds plain files (nesting
is checked in `ReconcilePair`); a conflict copy is named for its path and
version, so writing it twice gives one file, where the code adds a counter;
writes come in any order once the removals are done, where the code goes by
path; a manifest is fetched and its blobs with it in one step; one folder, and
at most one session per device, as the session lock enforces; no pins.

**BlobStore and PackStore.** `BlobStore` has the blobs the store has accepted
(`held`) and those found by whoever opens it next (`durable`): blobs are
accepted, accepted ones become durable, and what a failed write or the end of
the process loses was not durable.

In `PackStore` each process has a `Store` over the same directory.
`staging[i]` and `located[i]` are `Inner.staging` and `Inner.locations`,
`nextIndex[i]` and `seq[i]` the cached number and the holder of `index_seq`;
`packs` and `index` are the directory. A thread's call is a walk through `pc`,
one step between two unlocks or two writes:

| call | steps |
|---|---|
| `put_blob` | `PutCheck`, `PutOffer` (`Room`, or `Overflow`, which goes on to seal) |
| `flush` | `FlushDrain`, then for each drained pack, data first: `SealWrite`, `Merge`, and the index file |
| `adopt_pack` | `AdoptPack`, `Merge`, and the index file |
| `write_index_snapshot` | `Snapshot` and the index file |
| `append_index_file` | `Append` (lock and number), `AppendWrite`, `NoCompaction` or `CompactList`, `CompactSnapshot`, `CompactWrite`, `CompactDelete` |

`Fail` is an error at any of the steps that read or write files; the call drops
the packs it still carries. `Crash` ends a process, `Open` is `Store::open`.
`asked` (what the process held when a flush began, without what a failed call
dropped since) and `unindexed` (packs whose index file met an error) are history.

Abstractions of `PackStore`: the entries of a pack travel together, so a
location table and an index file are sets of packs; sizes are left out, so that
an open pack that is not empty may or may not have room; the salt makes every
sealed pack new; no pack is deleted, so `pack_exists` is true of every known
pack and the cache of missing packs is empty; `remove_file` on the old index
files, one after the other and with errors ignored, is one step that removes
some of them. The rename and the `sync_dir` after it are one step; an error of
`sync_dir` is the error of the next step. `rebuild_index` and `compact_index`
are called only by tests.

**Materialize.** `disk`, `temps` and `copies` are the folder, the temporary
files and the conflict copies; `job` is the merge in progress. `Merge` plans
(`converge`), `ReadLiveVerified`, `BuildTmp` and `LinkCopy` keep the losers,
`PlanUpserts` and `Guard` are the plan and the guards of `Applier::run`,
`ExecuteRemove`, `ClearStep`, `RemovesDone`, `ExecuteUpsert`, `FillTemp`,
`RenameTemp`, `SetSymlinkTimes` and `ExecuteTouches` its system calls,
`RecordAgreement` the end. The guards see the temporaries an earlier merge left
below a directory to be removed (`TempsIn`). `Edit` is the user, `Fault` an error of any call,
`Crash` the end of the process, `SweepStaleTemps` the sweep of a starting
engine, which goes by a modification time that the manifest has set.

**Scan.** The world (`disk`, `mounted`, `watched`, `blind`, `raw`) is what the
user and the kernel do; `queue`, `polling`, `cache`, `built` are `SignalQueue`,
`PolicyState`, `DirCache` and the last tree; `pass` is the walk in progress and
`thread` the worker and a caller of `scan_once`. `SpawnWatcher`, `WatchEvent`
and `WatchLoss` deliver or lose events, `WorkerDrain` and `WorkerExecute` are
the debounced worker, `ScanOnce` a session's scan, `WalkStep` and `ReadFile` the
walk, one entry at a time, `FinishPass`, `FailPass` and `IoError` its ends,
`Publish` and `SyncLoopRecv` the event to the sync loop, `Poll` and `AuditDue`
the poller and the auditor. Contents and times are numbers of edits; a tree
node stands for its own blob id.

**Collect and Pins.** A collection is `GcRoots` (or `GcAbandon`), `GcReach`,
`GcSweep` pack by pack, `GcSave`: the ledger of first-unreferenced times is
written last. In `Pins`, `folder`, `scanned`, `copies`, `log`, `pin`, `held`,
`agreed`, `staged` and `daemon` are the live folder, the offered tree, the
copies, `conflicts.jsonl`, `pin-state.json`, the held ledgers (with torn
lines), the agreements, the blobs not flushed, and the daemon's incarnation;
`th` is what each thread does. `StartCheck`/`StartRecheck`/`RenamePin`,
`StopLoad` and `ReleaseBegin`/`ReleasePeer`/`ClearPeer` are the commands; a
session is `SessionBegin`, `Gate`, `FetchItems` or `FetchPack`, `FlushHeld`,
`AppendHeld`, `Quarantine`, `Apply`, `AppendLog`, `CompactLog`, `Settle`.
A manifest carries its author, by whom ledgers and agreements are kept, and which
need not be the peer of the session. `ferry pin release` also asks the daemon to
release (`"tell"`), with whatever pin is there by then.
Reading a file, deciding and writing it are separate steps wherever they are in
the code. `raced` and `merged` are histories, which no guard reads: a collection
and a session overlapped; the manifests that were merged with nothing held.

**Wire.** `s[e]` holds the locals of one end, `chan[e]` the frames on their way
to it. `Receive(e)` is one read with all the end does before it reads again, a
handler per phase; `Eof(e)` is the end of the connection, `Break` breaks it,
and a changed frame or an unknown frame type may arrive in place of the one
sent. Keys are the transcript they were derived from, so that an end that saw a
changed frame has other keys. A proof seals the key it was made under and not the
version in its frame's header, which is in the transcript of the traffic keys all
the same. Limits of rows and items are small constants; packs are asked for in
one request, as there are fewer of them here than `MAX_REQUEST_PACKS`. Nothing but
tests calls `run_engine`: the daemon's sessions are those of `ferry-sync`
(`FolderSync`, `Engines`), which share the frames and the secure channel with it. A
loop over folders is the set of those still to come (`todo`, `pulls`) and the one
it has come to (`at`), taken in the configuration's order (`First`); a
configuration lists no folder twice.

**Engines.** `eng[e]` is a folder's engine (permits, lock, policy, loops),
`conn[c]` a connection with both ends' place in the handshake, `endpoint[d]`
the iroh endpoint of a device, `sup[d]` its supervisor. Sessions follow the
code's order: permit, queue for the lock, hello, authentication, offers, bye. For a
folder the other end does not know, both ends go on to serve (`"serving"`) and wait
for a request that neither sends.
Over iroh an incoming connection goes to whichever engine of the device polls,
and closing one listener closes the endpoint. TCP has a read timeout.

**Ipc and Clients.** `conn[k]` has both ends of a socket connection: commands
under way, answers and pushes on the way back, the server's broadcast feed, the
client's pending queue. `EnsureConnected`, `SendCommand`, `RouteMessage`, the
`Reader...` and `Supervisor...` actions are the client's tasks, `Serve...` and
`RunStateWatcher` the server's; `DaemonStops` and `SpawnIpcServer` end it and
start it again. A push may tear the command the server is reading (`ServeTorn`): what
is left of the line is answered with an error and the connection closed, or, if it
is only the newline, skipped (`skipped`). `Clients` adds the programs of the terminal (one task), the
desktop window (three tasks) and the dashboard server, which alone falls back
to the folder's files, where the stream of events has a sender nobody uses
(`MuteStream`) and a pin is not released while paths are held (`FolderPin`). The
desktop window shows an empty status while the daemon is away (`OfflineSnapshot`). What is shown is a revision number, a pin and a count.

**Registry and DeviceDaemon.** Creating, looking at and removing the lock file
are separate steps (`LockCreate`, `LockStat`, `LockBreak`, `LockDrop`), with
`Load` and `Persist` between them, which may fail (`IoError`); `LockAges` lets ten
seconds pass. `ids` is what each directory's own `.ferry` says: the user may move a
folder (`MoveFolder`) and make another at its old path, after which
`ensure_registered` takes the record to the new path. A daemon
goes through `StartDaemon`, `OpenLockFile`, `Flock`, `SpawnEngines`, `Bind`, then
serves `Tick`, `Registered`, `Removed`, and ends by `Close`, `Quiesce`,
`DropLock`, `Unlink`, or by `Crash` at any point. Lock files are inodes: a
process may hold the lock of a file that no name leads to; a new file is
numbered by the start that created it. Commands are
`RegisterFolder`, `RemoveFolder`, `Share`, `EnsureDaemon` and `StopDaemon`, in a
process that may die anywhere (`UserCrash`). A front end that does not reach the
daemon, also because it looks at the folder's socket or its connection broke,
changes the registry itself (`Dispatch`).

**KeyEnvelope and Joining.** A config is the set of devices the key is wrapped
for. Appending a device reads it, truncates and writes `config.tmp` and renames
it; tasks share that name. `Joining` has the three ways to make an offer (code,
dashboard, command), the pairing server and its callback (`Server...`), the
three ways to join (map in the same process, network, file), polling
(`PollOffer`, `PollAppended`, `PollGrant`) and the joiner's steps (`Accept...`,
`Discover`, `Respond`, `ReadGrant`, `Adopt`, `Record`), with expiry, a server that
does not start, errors of the disk (`AdoptFails`, `AppendFails`), damaged responses
and crashes of host and joiner. A status call that polls again writes a grant
again that is there. A response is the offer
it answers and its device; a grant the offer it is sealed under and the device
its key is wrapped for.

## 3. What TLC checks

| run | instance | states | shows |
|---|---|---|---|
| `ReconcilePair` | a directory with two children; each absent, a file (two contents, two times), a symlink or, for the parent, a directory; all triples of base and offers, each end with or without proof, offers of two devices or of one | 500,000 | `EndsAgree`, `NothingLostUnlessRetyped`, `LeavesATree` |
| `ReconcileRetype` | the same offers, of two devices, from bases with a file in the directory | | `NothingLost` fails |
| `FolderSyncTwo` | two devices, one path, two contents and times, three initial situations, one edit, one fault, four manifests | 1.7 million | `TypeOK`, `AgreedHad`, `GuardedNotLost` |
| `PackStore` | one process with two threads (symmetric), a chunk and a metadata blob, one delivered pack, two sealed packs, three index files, compaction at two, one failure and one end of the process | 3.9 million | `IndexCovers`, `FlushSeals`, `Implements` |
| `Materialize` | seven situations of base, disk and offer (edits, retyping both ways, nested removals, a directory made by both, a conflict), three merges, two edits, two failures or crashes | 729 thousand | `WholeFiles`, `Installed`, `Resumable`, `EditsKept` |
| `Scan` | seven paths in three levels, ignored and refused ones among them, two edits, two events in flight, one fault | 320 thousand | `NothingMissed`, `FilesHeal` |
| `Pins` | one peer, with manifests of its own and of this device, two commands (symmetric), two sessions, and one of: an edit, an end of the daemon, a collection with a grace of 0 or 1, a tick | 1.6 million | `HeldReadable`, `PinRespected`, `AgreedApplied`, `ReleaseForgetsNothing` |
| `Wire` | some forty configurations of two ends and two folders, one that only one end has among them, two faults | 56 thousand | `HonestSucceed`, `SameSession`, `AgreedWhole`, `AgreedMutual`, `BothEnd` |
| `Engines` | six cases of up to two devices and two folders, shared or not, two connections, one permit | 123 thousand | `PermitsBalance`, `AgreedPaired`, `Quiesced`, `ShutdownEnds`, `DialsEnd` |
| `Clients` | each front end, two connections at a time, a feed of one and a stream of two events, one fault, one command at a time | 2.8 million | `RightReply`, `BroadcastShown`, `NobodyForgotten`, `OfflineRetries` |
| `Daemon` | a command process and two daemons (symmetric), three directories, one below another, four commands, two starts, two faults | 6.0 million | `ChangesKept`, `RegistryReadable`, `OneEngine` |
| `Joining` | the shared folder, two remote joiners (symmetric) and a local one, two offers, two attempts, one fault, which a server that does not start and a repeated poll count as | 3.1 million | `PairedBothWays`, `OwnKeyKept`, `CodeUsedOnce`, `RetryPossible` |

Every module states a type invariant where it has one to state (`TypeOK`); only
`FolderSyncTwo` lists it. The other runs can be given it as a further invariant,
which they satisfy; for `FolderSync` and `Wire` it is also proved (section 5).

**Conditions in the properties.** Some promises hold only while something has
not happened, and the history variable that says so is part of the property.
Each stands for a behaviour of the code that the model reaches:

* `HeldReadable`: no collection overlapped a session. The collector reads its
  roots once, and a held manifest appended later may lose a pack.
* `ChangesKept`: no registry lock was removed under a process at work. A lock
  counts as stale after ten seconds, and also when it cannot be looked at
  because its holder has just dropped it.
* `OneEngine`: in addition, `daemon.lock` was not unlinked between another
  daemon's open and its lock, and only the daemon changed the registry while it
  ran (`ferry share` and a front end without a connection change it too).
* `PairedBothWays`, `OwnKeyKept`: no two appends met on one folder, where they
  share `config.tmp`; for the first, the pairing server did not grant a key
  after a failed append.
* `RegistryReadable`: directories have different ids and no folder was moved while
  it was listed. `ensure_registered` takes the id of a moved folder to its new path
  and looks at no other record (`inventory.rs:472`); below another listed folder
  this writes a registry that `load_strict` refuses from then on.
* `RetryPossible`: the joiner was not cut off, by a crash or an error of the disk,
  while it adopted the folder; what it leaves then refuses the next attempt.
* `CodeUsedOnce` counts the devices the pairing server admits; polling can grant the
  same offer to another device that answers by file.
* `EndsAgree`: the offers were made by two devices, or no versions in them tie
  (`TieBroken`). After an adoption both ends may offer manifests of one device, and
  a change that keeps the modification time, of permissions say, then ties: both
  ends take the other's version.
* `Resumable`: the guards let the next merge pass, or it is half-done in one of two
  ways (`HalfDone`). A merge that died between the removal and the write of a
  retyped path left it absent: the next is refused with `Diverged` (`NotInBase`,
  `apply.rs:934`), and so is every later one until the user makes an entry there. A
  temporary left below a directory that is to be removed is refused too
  (`apply.rs:1097` does not skip them), until a sweep takes it away.
* `RightReply`, `NobodyForgotten`: calls on the connection never overlapped.
  Answers have no ids, and the pending queue and the command channel are
  filled separately. For the second, no command was torn just before its newline:
  the server takes the rest for an empty line (`framing.rs:87`), and the call, which
  has no timeout, waits until the connection ends.
* `BroadcastShown`: the front end was subscribed to the daemon, no channel overran,
  and it is not the desktop window, whose first status and event stream are two
  tasks. A dashboard opened while the daemon was away is subscribed to
  `FsStateSource`, whose sender nobody uses, and shows no later change.
* `HonestSucceed`, `BothEnd`: the ends judge the stages alike (`SeenAlike`). They do
  not when one has a folder with a manifest that the other lacks and the other has
  nothing else to pull: `stage_needed` (`engine.rs:263`) goes by each end's own
  folders, where `docs/store-format.md:827` has both sides agree.
* `SameSession`: the secrets, versions and identities are the same, the traffic keys
  only once an end has accepted a sealed frame. The version in the header of
  `AUTH_INIT` or `AUTH_CONFIRM` is not checked and not under the proof, but is in
  the final transcript (`secure.rs:480`, `497`): changed on the way, it leaves both
  ends through the handshake with different keys, and the next frame fails.
* `DialsEnd`: over TCP. Over iroh there is no read timeout: two devices that
  dial each other, or that serve each other for a folder one of them does not know,
  wait with their session locks held until the connection breaks or an endpoint
  closes.
* `NothingMissed`, `FilesHeal`: not for an edit that keeps the old time and
  size, nor, for the second, after a failed pass.
* `EditsKept`, `GuardedNotLost`: the file was there when the guard looked; for
  `EditsKept` and `NothingLostUnlessRetyped`, not below a retyped path (see 4). For
  `EditsKept`, nor did it replace a directory, after the scan, that the merge
  touches: `guard_upsert` lets anything pass where a directory is expected
  (`apply.rs:996`), and `Mkdir` removes the file (`apply.rs:534`).

**Why the bounds are enough to be interesting.** Decisions of the merge are made
per path and per ancestor, so one directory with two children has every
combination the code distinguishes: a survivor next to a removal, below a
removal, below a retyped directory, and a tie. In `FolderSyncTwo` four manifests
allow both first scans, a scan of an edit and a scan of a merge or of a restart;
one fault can hit any step. `LineageDepth` is 3 in place of 256: with four
manifests no chain is longer. In `PackStore` one blob of each kind is what
`flush` treats differently, and three index numbers allow an append by each
thread and a compaction, or a restart and an append that compacts. In `Pins`
two commands are what it takes for two starts, or a start and a release, to
meet, and two sessions let a change be held and offered again. In `Engines` one
permit in place of four makes the limit bite with two connections, and two
connections are what mutual dialing needs; a removal or a crash can come while the
ends serve each other. The channels of `Clients` hold one
and two messages so that they overrun. In `Daemon` a second daemon and a third
actor (a command that stops the first) meet in every order over the lock file, and
of three directories one can be moved below another that is listed.
In `Joining` two offers and two joiners let a grant for one meet the other.

**Deadlock** is checked in `Scan`, where something can always happen. Elsewhere
the system really may stop: an exchange, a session, a merge or a join ends, and
the bounds leave states with nothing more to do.

**Fairness.** `Scan`: a pass that runs and what it publishes go on
(weak), the worker drains its queue, and sessions call `scan_once` again and
again, also with an empty queue (strong, since edits may fill it in between):
`sync_loop` dials on its backstop and each session begins with it. `Wire`: an
end reads what has arrived or notices the end of the connection (weak).
`Engines`: the supervisor's shutdown, session threads, sync loops that dial or
end, and accept loops (weak); they are threads that block only on the lock, a
read or a timer. `FolderSync` (`FairSpec`, in `FolderSyncEnds` and
`FolderSyncConverge`): a process is started again, scan passes come round,
`sync_loop` reads its channel every 50 ms and dials when due, a session's thread
runs on, and a wait on a connection whose other end is gone returns by end of
file or by the read timeout of five seconds (`ferry-sync/src/transport.rs:66`).
Crashes, faults and users are never fair.

Every property of a passing run is broken by a mutant: a plausible wrong form of
an operation, defined before the one it would replace and used by no
specification. `PROJECT.json` lists them.

**Further configurations.** These are run by hand with the same MC modules:
`FolderSyncThree` (three devices, manifests that travel through a third:
`AgreedHad`, `GuardedNotLost` hold), `FolderSyncEnds` (`SessionsEnd` holds under
fairness), and the counterexamples listed in the next section.

## 4. What does not hold

`ReconcileRetype` is a run of the project: **a path that changes its kind takes
what is below it along.** `compare_entry` lists a retyped path as one change and
does not descend. TLC's trace starts from an agreed directory `d` with a file `d/f`.
One end replaces `d` by a file; the other removes `d/f` and makes `d/g`. The merge
on the other end keeps `d/g` local, which the structural test of
`reconcile.rs:545` does not look at; the guard finds the directory as it was
scanned, with `d/g` in it; and the replacement removes `d/g` without a copy. The
documentation promises an abort.

The other counterexamples, each with the configuration that shows it:

* `FolderSyncConverge` (`Convergence`): a deletion may never propagate. Each
  manifest has the previous scan's as its parent, given to the peer or not. When
  a device has published twice since the last agreement, the peer cannot follow
  the lineage, merges from the empty base, and takes the deletion for a file
  the other lacks.
* `FolderSyncWindow` (`NoSilentLoss`): an edit between the guard and the rename
  is lost.
* `FolderSyncPending` (`PendingIsLatest`): `Subscriber::offer` stages an event it
  cannot send and does not send it later, so the sync loop may work on a
  superseded tree until the next pass that publishes.
* `PackStoreProcs` (`DurableStays`): two open stores count index numbers apart
  and overwrite each other's index files.
* `PackStoreBarrier` (`FlushIsBarrier`): the second of two flushes returns while
  the first still carries the blobs of both.
* `WireStages` (`NoPhaseDeadlocks`): a folder that only one end has puts the
  ends in different stages, each waiting for the other until the connection
  breaks. `docs/store-format.md:827` says that "both sides agree without extra
  messages".
* `EnginesShared` (`FoldersIsolated`): removing one folder closes the endpoint
  that the other folders of the device use.
* `EnginesPaired` (`PairedNotRefused`): a device that is paired while the engine
  runs is refused until a restart, as the policy is read again only while it is
  the empty default.

## 5. What is proved

`FolderSyncProofs`, for any set of devices and paths, any contents, times and
initial folders, any lineage depth and any bounds:

* `TypeCorrect`: `Spec => []TypeOK`;
* `AgreementsSound`: `Spec => []AgreedHad`;
* `GuardedSafe`: `Spec => GuardedNotLost`;
* `Invariance`: `Spec => []Inv`, from which the three follow.

The assumptions are those of the modules: device ids are integers other than 0,
paths are sequences of strings that no copy's name equals, users start without
conflict copies, bounds are natural numbers. TLC evaluates them in `FolderSyncTwo`.

`AgreedHad` is not inductive. That the peer has had a manifest when an agreement
is recorded follows from where the manifest came from, so `Inv` adds:

* `ManifestsHad`: the maker of a manifest has had everything in it. A scan
  publishes the live folder, and the live folder is history (`Holds`).
* `Holds`: what a device points at, as current manifest, as pending event or as
  the manifest of its session, it has had. The step that needs work is the
  adoption of the peer's manifest after a clean merge.
* `Writing`: during apply, every path whose outcome is the peer's version either
  still has its operation in `todo` or has had that version. When `todo` is
  empty and the merge was clean, the whole of the peer's manifest has been
  there (`CleanHad`), whatever the user did in between.
* `Knows`: the base and, before `Agree`, the target are manifests the peer has
  had. For the target this is the peer's `Holds`, at the time of the second
  offers, and history only grows.
* `Quarantined`: from the guard on, every local loser has a copy.
* `Refs`: ids name manifests.

For `GuardedSafe` the only step that replaces a file is `WriteOne`
(`OnlyWriteOne`). A guarded file has the content of the local manifest
(`Writing`); the decision table then says that it equals the base, which the
peer has had (`Knows`), or has the content of what is written, or lost a conflict
and has a copy (`Quarantined`).

The proof is organised by stability: `Inv` splits into a part for each device,
most actions leave other devices' parts alone (`LocalStable`, `SetStep`,
`LeaveStep`), and one lemma per action (`...Keeps`) treats the rest.

`ReconcilePairProofs`, for any paths however nested, any contents and times, any
offered trees and any base:

* `MergeConverges`: `Spec => []EndsAgree`;
* `MergeKeepsVersions`: `Spec => []NothingLostUnlessRetyped`;
* `MergeLeavesTree`: `Spec => []LeavesATree`;
* `ExchangeInvariance`: `Spec => []Inv`, from which they follow.

Assumed: the directories above a path are paths, times are integers, devices have
integer ids, and what is offered and agreed on are trees (an entry sits in
directories). Who made the offers is any pair of devices, one device twice included. `Inv` only says
that an end holds its offer or what its plan makes of it; the work is in the
plans, which are compared as `IsPlan` describes them. At a path, one end's
decision is the other's with the sides exchanged (`DecideMirror`,
`PickWinner` seen from both ends, where `TieBroken` is needed), hence the same copies. Between paths: what one
end writes below a directory is what the other keeps there (`TargetsSurvive`),
so that both suppress the same removals, or one rebuilds the directory that the
other never removed; a winning version is below nothing that is cleared
(`WinnerStays`), because a retyped entry lies below no other (`RetypedOnce`) and a
removal above a survivor is suppressed; and the directories above all that is
written or copied are there (`TargetsHaveRoom`).

`PackStoreProofs`, for any blobs, threads, delivered packs, compaction threshold
and bounds, and for one process at a time (`OneProc`), with its ends and
restarts:

* `IndexSound`: `OneProc => (Spec => []IndexCovers)`;
* `FlushSound`: `OneProc => (Spec => []FlushSeals)`;
* `StoreRefines`: `OneProc => (Spec => Implements)`;
* `StoreInvariance`: `OneProc => (Spec => []Inv)`, from which they follow.

`OneProc` is needed: `PackStoreProcs` is a counterexample without it. The
invariant says, beside the types: what a thread carries at each step (`Calls`)
and that a process that is down remembers nothing (`Down`); every pack named
anywhere is on disk (`Exist`); the location table of a running process knows
what the index files name and what is about to be written to them (`Known`);
what it knows is named, about to be named, or met an error (`Covered`); the
cached number and the number being written are above every number in the
directory (`Numbers`), so that no rename replaces a file; between the write and
the deletions of a compaction, the new file names all that the old ones name
(`Compacting`); and what a flush was asked for is durable, carried by a call or
unindexed (`Asked`). `Compacting` follows from `Known` at `CompactSnapshot` and
needs `Exclusive`: only the holder of `index_seq` adds files. For the refinement,
each step keeps the durable blobs and grows or shrinks the held ones
(`Accepts`, `Loses`), or keeps the held ones and makes some durable
(`Persists`); a failed call and a crash are the steps that lose.

`DeviceDaemonProofs`, for any commands and daemons, any directories, nesting and
folder ids, and any bounds:

* `RegistrySerial`: `Spec => []ChangesKept`;
* `RegistrySound`: `Spec => []RegistryReadable`;
* `EnginesSingle`: `Spec => []OneEngine`;
* `DaemonTypes`: `Spec => []TypeOK`;
* `DaemonInvariance`: `Spec => []Inv`, from which they follow.

Assumed: daemons and commands are different processes, a random id is never the
id of a folder that exists (256 random bits in the code), and `"nobody"` is no
process. `ChangesKept` needs `Serial`: until a lock is stolen, whoever is
between taking and dropping the lock is the one in the lock file, and what it
read is still there when it writes. `RegistryReadable` holds with stolen locks
too, so that nothing follows from the lock: `Checked` says that what a process
will write passed the checks when it was read, `Ids` and `Fresh` that an id being
registered was drawn for that process alone and is in no list that anybody has
read, hence adding it never makes two records of one id. That no folder was moved
comes in where `ensure_registered` finds the id under another path, the branch that
looks at no other record: until then a directory's own id is listed at that
directory alone, and what is found under it is the directory's own record. `OneEngine` needs
`Single` (until `daemon.lock` is unlinked, every daemon that has it open has the
file of that name, and one has it locked), `Places` (engines run only under the
lock) and `Backed` (an engine has its record, up to the operation the daemon is
carrying out, and the records do not overlap).

`EnginesProofs`, for any devices, folders and configurations, any finite set of
connections and any number of permits:

* `PermitsComeBack`: `Spec => []PermitsBalance`;
* `SessionsNotConfused`: `Spec => []AgreedPaired`;
* `ShutdownQuiesces`: `Spec => []Quiesced`;
* `EnginesInvariance`: `Spec => []Inv`, from which they follow.

Assumed: every folder's `CONFIG_HEAD` names devices, its own among them.
`AgreedPaired` needs `Vetted`, what each end's place in the handshake says about
the other: who accepted the connection, that an end past authentication found
the other in its policy, and that `known` was computed for these two. The policy
is a copy, which `Policies` bounds by what is on disk. `PermitsBalance` counts
threads; that a thread's end frees one permit and no other needs that no two
connections are confused, and for the dialling side `Dials`, by which a sync
loop is in one session at most. `Quiesced` is a matter of order: `Supervised`
and `Ended` say that the loops had ended when the last sessions were waited for,
so that no accept loop starts another.

`JoiningProofs`, for any directories, any offers, and any bounds:

* `JoinedAreListed`: `Spec => []PairedBothWays`;
* `OwnKeyStays`: `Spec => []OwnKeyKept`;
* `CodesUsedUp`: `Spec => []CodeUsedOnce`;
* `FailedJoinsRetry`: `Spec => []RetryPossible`;
* `JoiningInvariance`: `Spec => []Inv`, from which they follow.

Assumed: the shared folder, the joiners' directories, the offers and the poller
are different things, and a joiner in the same process is the same device.
The last two theorems do not depend on how appends interleave (`Rest`: `UsedUp`, that a
server that has granted is off and stays off; `Attempts`, how far a directory has
been adopted at each step of a join). The first two hold until appends meet, and
so does what they rest on: one append at a time on a folder (`Exclusive`), which
still has the list it read and `config.tmp` to itself (`Untorn`), appends the
device it was asked for and has listed it when it reports success (`Lists`); a
grant is written only for a listed device (`GrantsListed`), so that a joiner that
has the key is in the list (`KeysHeld`).

`PinsProofs`, for any peers, commands, collectors, paths and scopes, trees and
bounds:

* `PinsRespected`: `Spec => PinRespected`;
* `HeldStaysReadable`: `Spec => []HeldReadable`;
* `AgreementsTrue`: `Spec => AgreedApplied`;
* `ReleaseKeeps`: `Spec => ReleaseForgetsNothing`;
* `PinsInvariance`: `Spec => []Inv`, from which they follow.

Assumed: the folder has finitely many paths, what peers offer are trees (a
directory above every entry), and the sync thread is not one of the commands.
`PinRespected` is about a plan that was gated several steps ago and a pin that
may have been written since. `Threads` says that the plan a thread carries is
still the gated plan of the three trees it carries; `SyncGated` that it writes
nothing that the record it was gated by covers, as long as that record is in
force. That a record cannot stop being in force and start again rests on
`Orphaned`: the owner of a record on disk is the daemon, or a command that has
ended. Put the other way, a pin started while no daemon runs carries the
command's own pid (`local_pin_start`), is stale as soon as the command has ended,
and never holds anything back. `HeldReadable` needs both sides of the race:
`CollectsAll` (a collection that met no session has all that is held among its
roots, and reaches all of their blobs before it sweeps) and `Fetched` (a session
that met no collection has the chunks of its manifest in a pack or staged, and
in packs once it appends to the ledger). `AgreedApplied` follows from the merge's
decision table for a clean plan (`CleanTakes`); the attempt showed that it says
nothing below a retyped entry, where a plan may be clean and write nothing.
`ReleaseForgetsNothing` needs `Applies` (past its writes, a merge that held
nothing has its manifest in `merged`) and `AgreedMerged`.

`WireProofs`, for any configurations of the two ends, any folders and blobs, any
limits and any number of faults:

* `OneSession`: `Spec => []SameSession`;
* `AgreementsWhole`: `Spec => []AgreedWhole`;
* `AgreementsMutual`: `Spec => []AgreedMutual`;
* `WireTypes`: `Spec => []TypeOK`;
* `WireInvariance`: `Spec => []Inv`, from which the first follows, and
  `ExchangeInvariance`: `Spec => []Exchanged`, which needs it and from which the
  others follow.

Assumed: finitely many blobs, of which a manifest names nodes and a node nodes
and chunks; stores and packs that hold blobs; configurations that list folders,
none twice; limits that are positive where the code's are. TLC evaluates these in
the run `Wire`. That keys are what went into their derivation, and that a changed
proof no longer opens, is the model's view of the cryptography.

`SameSession` says nothing while one end has no keys, and
that is when it is decided. `RespondsTo` says that a responder with keys has seen the
initiator's own proof of the same two hello frames: the proof names a key whose
transcript hash is the hello frames as the initiator saw them, and the responder
accepts it only if the hash of the frames as it saw them is the same. `Initiates`
says the same of an initiator with keys. Both need to know what is on its way:
until the initiator has keys, an `AUTH_INIT` or `AUTH_CONFIRM` that opens is the
one that its sender made but for the version in its header (`ToR`, `ToI`), nothing follows the initiator's proof but
a goodbye, and a responder that has keys can read nothing that would take it
on (`Shaking`). After that no operator of the session touches what the handshake
left (`Same`, one lemma per operator up to `HandleKeeps`), so that the step
`KeyedStep` covers the whole exchange at once. The traffic keys are a matter of
their own (`Wrapped`): a sealed frame on its way is under the keys of its sender, so
that an end that has accepted one has the same keys. The proof turned up two faults of
the model, now mended: cases of `Handle`, `OnRequest` and `Changed` overlapped,
which leaves their values open, and a later release could still send on a
connection that was lost.

`AgreedWhole` and `AgreedMutual` compare what one end recorded with what the
other has, which the recording end knows only from an offer that it read some
frames earlier. `Exchanged` has two parts. One is about an end by itself (`Fine`):

* `Placed`, `Listed`: where it is in `run_engine`, and that its list of the
  peer's offers covers its own folders by the time it says goodbye. So the
  second round has an offer for every folder that is compared, and
  `remote_manifest` of `finish_after_sync` never falls back to the first round;
* `Pulls`: the state of a pull. Nodes that were fetched have all they name
  queued, wanted or stored, so that when nothing is left to fetch the store
  holds a set that is closed under references, and `Needs`, the least such set,
  lies in it (`Gets`, `Below`). Rejected items, retries and packs that turn out
  to hold less than their advert are covered by `got` being what is stored;
* `Held`: a manifest taken over in a pull is stored with all it needs;
* `Agrees`: what was recorded is what both offers of the second round named.

The other is about both ends and the offers on their way (`Pair`): at most one
offer is under way, and none while either end reads adverts or pulls
(`OneOffer`); the echo an end waits for is the one of the folder it announced,
although `consume_echo` does not look at it (`Echoes`); an end that is past its
first round can only be sent offers of the peer's second (`Current`, `Places`),
by when what the peer has no longer changes; and what was noted in the second
round is what the peer has (`Known`). The number of pairs of places is kept down
by summing up what an end does with a frame as a `Turn`: the offers it read, the
offers it writes, and how its place changes, in six kinds. `HandleComes` and
`HandshakeSteps` show that every handler is such a turn or only stores blobs, and
`InitTurns` and `RespTurns` that a turn of either end keeps `Pair`. A broken
connection loses offers, and every part of `Pair` survives that (`PairLess`).

Only model-checked: liveness (`BothEnd`, `ShutdownEnds`, `DialsEnd`, `FilesHeal`,
`SessionsEnd`), which is out of the prover's reach, the properties of
`Materialize`, `Scan` and `Clients`, and `HonestSucceed` of `Wire`: it says that
neither end meets a frame it does not expect, and so needs, beyond the offers,
every frame on its way for each pair of places.

## 6. What is left

Not modelled, and why:

* `rebuild_index`, called by tests only, and the cache of missing packs, which
  changes when a lookup is tried and not what it finds;
* byte formats of packs, index files, frames, envelopes and IPC messages (they
  are records and sets here), the chunker, and what a seal or a hash computes:
  stateless, and covered by round-trip and vector tests;
* ignore patterns, name admission and the secret scanner: predicates; `Scan`
  takes what they refuse as constants;
* the relay, which runs a third-party server, and address discovery;
* case folding, link types and cloud-folder detection of the platform layer:
  system calls and tables;
* rendering, forms, key maps and authentication of the front ends, and the
  terminal's mode with a connection of its own (`TuiApp::run_loop`);
* folders given on the daemon's command line, `run_adhoc`, and the supervisor's
  pin and status commands;
* display names of conflict copies: a copy is named for its path and the
  version it keeps, where the code adds a date and a counter.

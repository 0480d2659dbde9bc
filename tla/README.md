# mincontainer: a TLA+ model

mincontainer is a small container runtime with checkpoint, restore and migration.
Its hard part is not the containers: it is that several processes act on the same
container without a lock, that any of them can be killed at any point, that what
they leave behind (processes, cgroups, interfaces, labels in a file) has to be found
again by whatever runs next, and that two nodes have to agree on who owns a
container over a connection that may die. This project models that part, checks it
with TLC and proves parts of it with TLAPS. Paths like `restore.rs:154` are lines of
`src/src/`.

## 1. Inventory

| Component | State it keeps | Operations | Meets the others in |
|---|---|---|---|
| CLI commands (`main.rs`) | none but locals | create, start, stop, ps, rm, checkpoint, restore, migrate, serve | state directory, processes |
| Supervisor (`main.rs` `supervise`) | the Handle of its container | spawn, publish, wait, tear down, record the exit | state.json, cgroup, veth |
| State store (`state.rs`) | `state.json`, `config.json`, snapshots, staging per container | load, save, update (load + edit + save), cleanup, adopt | every command |
| Container (`container.rs`) | two pipes, three processes | spawn, middle, grandchild, Handle::wait, finish | supervisor, kernel |
| Checkpoint (`checkpoint.rs`) | locals | preflight, mark, dump, wait for the supervisor, pack, commit | state.json, engine, supervisor |
| Restore (`restore.rs`) | the rollback list | reconcile, resolve, verify, unpack, build, roll back, commit, adopt | state.json, engine, snapshot |
| Engine (`criu.rs`) | external program | dump, restore | called by checkpoint and restore, outlives a killed caller |
| Snapshot (`snapshot.rs`) | one file: magic, manifest, entries, trailer, CRC | write, verify, extract | checkpoint, restore, transport |
| cgroup, network (`cgroups.rs`, `network.rs`) | a leaf, a veth pair, a shared bridge | create, join, remove; set up, clean up | supervisor, restore, reconcile |
| Migration, transport (`migrate.rs`, `transport.rs`) | inbox, one TCP stream | freeze, ship, restore there, release | two nodes |
| Config, capabilities, seccomp, errors | plain data | – | – |

What is hard to get right and to test, and the property that says it is right:

- **Read-modify-write without a lock.** `state::update` reads the file and writes it
  back; a supervisor, a command and `ps` may do so at the same time. *Tracked*,
  *FrozenNotStopped*, and for the file itself *UpdateKept*, *ReadableAtRest*,
  *LostForGood*.
- **Kills.** A command dies anywhere, its engine runs on. *SingleCopy*, *NoLeak*,
  *Restorable*, *LabelsResolve*, *TornRejected*, *NameFreeAtRest*.
- **Failures half way.** Each step between "mark" and "commit" has an error path.
  *SingleCopy*, *NoLeak*, *SweepSparesLive*, *RestoringRecoverable*.
- **Files rewritten while they are read.** `checkpoint` rewrites a snapshot in place
  that a restore or a migration is reading. *UnpacksOnePack*, *RoundTrip*, *InboxWhole*.
- **Ownership across nodes.** *OnePlace*, *NotLost*, *ReleasedAfterRunning*,
  *KeepsPromise*.
- **Shared names.** One bridge, and interface names cut from ids. *StaysWired*,
  *NameFreeAtRest*, *BridgeHasOneMaker*.
- **Waiting.** start waits for the supervisor, checkpoint for its end, three processes
  for each other on two pipes, sender and receiver for each other. *CommandsFinish*,
  *DeathNoticed*, *PidArrives*, *NeverStranded*, *EndNoticed*, *MigrateEnds*,
  *ReceiverFrees*, *HandsOver*.
- **Arithmetic by hand.** The checksum and the date. *CrcCorrect*, *DamageDetected*,
  *DateCorrect*.

`PROJECT.json` lists each hazard at its line.

## 2. Modules

| Module | Models |
|---|---|
| `Lifecycle` | one container id on one host: every command, the supervisors, the engine as seen by its callers, the kernel, kills |
| `Spawn` | `container::spawn` and `Handle::wait`: parent, middle, grandchild, the two pipes |
| `Migration` | two nodes, the migrate command, the receiver, the connection between them |
| `Handover` | the abstract specification of a migration, which `Migration` implements |
| `Snapshot` | the snapshot file, its writer and its readers, cell by cell |
| `StateFile` | state.json below `Lifecycle`: truncated, then written, by several processes |
| `Network` | the bridge and the veth pairs of several containers |
| `Crc`, `Calendar` | the two algorithms, beside their reference definitions |
| `MCLifecycle`, `MCNetwork`, `MCAlgorithms` | instances for the runs |
| `LifecycleProofs`, `SpawnProofs`, `StateFileProofs`, `NetworkProofs`, `SnapshotProofs`, `MigrationProofs`, `HandoverProofs`, `AlgorithmProofs` | theorems; `HandoverProofs` is about `Migration` and its refinement of `Handover` |

The modules are layers of one system. `Lifecycle` takes the spawn of a container as
one step, which `Spawn` spells out; the reads and writes of state.json as atomic, which
`StateFile` takes apart; a snapshot as absent, torn or whole, which `Snapshot`
justifies; one veth, which `Network` sets among others. `Migration` takes a checkpoint
and a restore as one step each, and gives each of them a step for every way it can end
in `Lifecycle`:

| `Lifecycle` | `Migration` |
|---|---|
| refused; `DumpFail` with the tree alive | `FreezeFail`, the record unchanged |
| `DumpFail` with the tree lost | `FreezeFail`, `failed` |
| `Stage` failing, the mark over a live container | `FreezeFail`, `checkpointing` |
| `PackFail`, or the commit failing | `PackFail` |
| `Crash` before the mark, up to the dump, after it | `KillFreeze` |
| `Crash` during the dump, then `OrphanDump` | `KillFreeze`, then `Exit` |
| `PrepFail` (the mark stays); `EngineFail`, `BuildFail` (rolled back) | `RestoreFail`, `RxBuildFail` |
| `EngineBlind` (tree up, no pid to kill) | `RestoreBlind`, `RxBuildBlind` |
| `Crash` in a restore, `OrphanRestore` any time later | `RestoreKilled` or `KillReceiver`, then `OrphanEngine` |

One thing is coarser: a checkpoint writes its snapshot in one step. A file it leaves half
written is there after `PackFail` and `KillFreeze`; a file that is read while it is being
written is the subject of `Snapshot`.

### Lifecycle

State. `dir`, `file`, `snaps`, `staging` are the state directory: whether it exists,
`state.json` (status, pid, snapshot, supervisor: the fields on which control depends),
each snapshot (absent, torn, ok) and the image sets under `staging/`. `owner` says of
each pid whether it is unused, the container's, dead, dumped, or recycled into a
process of somebody else; `incg`, `cgroup` and `veth` are the kernel's side of the
resources. `pc` and `loc` are the control point and the local variables of every
command and supervisor, `jobs` the engines whose caller was killed.

Actions. One per step between two points at which another process can act. A
command begins with the action of its name (`Create`, `Start`, `StartForeground`,
`Stop`, `Ps`, `Checkpoint`, `Restore`, `Rm`) and then runs on:

- `start --detach`: `Start` forks the supervisor; `AwaitUp`, `AwaitDead`, `AwaitTimeout`
  are the ends of `await_running`. The supervisor: `SupCgroup`, `SupFork` (all of spawn
  after the cgroup; the details are `Spawn`), `SupPublish`, `SupReap`, `SupNetDown`,
  `SupCgDown`, `SupCheck`, `SupStop`, and the error paths `SupCgroupFail`,
  `SupForkFail`, `SupFail`, `SupLost`. A foreground start takes the same steps in the
  command itself, but publishes nothing and does not look whether the container was
  frozen (`Foreground`).
- `stop`: `SigTerm`, `SigKill` on the pid that was read.
- `ps`, and the beginning of `restore`: `Sweep`, `SweepReap`, `SweepDebris`, `Settle` are
  `reconcile`.
- `restore`: `Pick`, `Verify`, `Unpack`, `MarkRestoring`, `Prep`, `EngineOk`, `Build`,
  `CommitRestored`, `Clean`; failing with `PrepFail`, `EngineFail`, `EngineBlind` (the
  tree is up, its pid file cannot be read), `BuildFail`, and then `Rollback`,
  `Unrestore`.
- `checkpoint`: `Mark`, `Stage`, `DumpOk`, `SupWait`, `PackOpen`, `PackDone`, `Commit`;
  failing with `DumpFail`, `Undump`, `PackFail`.

Each `state::update` is two steps: `Load` copies the file, and the action that follows
writes the edited copy over whatever is there by then. `HalfWired` is the set of host
states that joining the cgroup and `Network::setup` can leave when they fail.

Environment. `Exit` ends a container, `NetnsGone` takes the veth away with the last
process of its namespace, `Recycle` gives a dead pid to somebody else, `Crash` kills a
command, `OrphanDump` and `OrphanRestore` are an engine that runs on. `Faults` names
the failures that may happen in a run, `CrashPoints` and `MaxCrashes` the kills.
`Uses` and `Patient` say what the operator does; the code has no such guards. Every
run says which operator it assumes. `Anything` lets any command be issued in any state,
but one at a time: with two at once a checkpoint may truncate the file that a restore
has verified, and RestoringRecoverable is false. `botched` is history: a checkpoint failed,
or was killed, with its mark in place.

What is abstracted: the contents of images, logs and manifests, timestamps, the
generation counter and exit codes; the bridge and the addresses; `origin_host`, whose
`state::update` after the commit of a restore (`restore.rs:202-204`) is left out. `Rm`
waits until no command is in flight, which `cmd_rm` does not: a command whose directory
disappears under it is modelled for supervisors only (`SupLost`). A refusal in preflight
or in argument parsing is the command not being issued.

### Spawn

The parent makes the cgroup, forks the middle process and waits for a pid; the middle
unshares, forks the container's first process, sends its pid and waits for it; the
first process waits for the go byte. `hold` says who has which end of which pipe open,
so that "end of file" is a fact about the model and not an event: `PidReadable` and
`Released` hold when there is data or when the last writer is gone, because `read_pid`
and `wait_for` ignore what `read` returns. The mounts, stdio, capabilities and seccomp
of the grandchild are one step, `Exec`, or `SetupFail`. The middle process unshares the
network namespace itself, so the veth lives until both it and the container are gone.

### Migration and Handover

Each node has its `state.json` (status, and whether the recorded snapshot is its own or
the one in the inbox), its own snapshot `migrate.mcsnap`, the inbox file and its `.part`,
and three counts: the copies that run (`live`), those of them that the record does not
name (`hidden`), and the engines whose caller was killed (`engines`). A migrate command
is a `job` that passes through `Freeze`, `Hash` (`crc_of_file`), `Connect` with HELLO,
`ReadAck`, `Stream`, `StreamEnd` with EOF, `ReadResult`, `Release`; `FreezeFail`, `PackFail`,
`ConnectFail`, `StreamFail` and `GiveUp` are its errors, `KillFreeze` and `KillSender` its
end by a signal. The receiver of a node serves one connection at a time: `Accept`,
`ReadHello`, `ReadChunk`, `ReadEof`, `RxCommit` (the rename), `Adopt`, `RxRestore`, `RxBuild`,
`Reply`, and `RxGiveUp`, `RxBuildFail`, `RxBuildBlind`, `KillReceiver`. `Sweep` is `reconcile`,
which `ps` runs and a restore begins with (`Spared`, `Resolved`). An engine that outlived its
caller brings its container up at any later moment, or never (`OrphanEngine`); no record
names that copy. A connection carries frames in order, may be cut at any frame, and a read that finds nothing fails when the peer is gone, the
connection is cut, or the timeout strikes although an answer would have come (`slow`).

A snapshot is a sequence of chunks stamped with the freeze that wrote it. The sender
reads the file again after the acknowledgement, and a checkpoint rewrites it in place,
so what is streamed may be a mixture of two; a snapshot in the inbox is replaced by
rename, so an open one does not change. A checksum stands for the content: collisions
are left out here and in `Snapshot`; what CRC-32 does detect is `Crc`.

`Policy` is the operator: *look* acts only when no command is in flight and, to bring the
container back, when it runs nowhere (a look sees processes, not only records); *advice*
also does what the error message of a failed migration recommends; *any* does anything.
Looking is not enough. A restore or a receiver that was killed may have left an engine at
work: nothing runs, nothing is in flight, and the container comes up later. `rash`
records that somebody did not look, or acted while such an engine was still there. No
policy keeps the operator from the latter, so the behaviours with two copies are in the
model; OnePlace, Tracked and KeepsPromise are about those without either. With the
waiting left out of `rash`, TLC violates OnePlace in the instance `Migration`: `Migrate`,
`Freeze`, `KillSender`, `RestoreKilled` with its engine at work, `Restore`, `OrphanEngine`.

`Handover` has no nodes' files, frames or timeouts: the set of nodes the container runs
on and the set that keep a usable snapshot, with `Freeze`, `Take`, `Thaw`, `End`. The
mapping (`Handing`) takes the nodes with a live copy and the nodes whose recorded
snapshot is whole. What an orphaned engine brings up is a `Thaw`. A container that a
checkpoint lost has ended, and the failed checkpoint may have spoilt the snapshot the node
had, or left a new one off the record (`End`). *KeepsPromise* says that every step of
`Migration` is a step or a stutter of it.

### Snapshot, StateFile, Network

`Snapshot`: a writer streams entries into the scratch file, noting each length before
the data, then opens the destination (truncating it) and fills it; a reader opens,
reads head and tail, verifies and unpacks. Both go on cell by cell at the same time, as
a `checkpoint --leave-running` and a `restore` of one name can. The log grows while it is
copied; the writer fails or is killed anywhere; the disk may spoil one cell.

`StateFile`: a file is a sequence of cells that remember the record they came from, so
an empty file, a mixture and the tail of a longer record are unreadable. `Load` fails on
those. `Fresh` is a save without a load (`create`, `adopt`).

`Network`: `Setup` is called by start or by restore; each `ip` command is an action that
finds links by name. `Fails` and `Killed` say what start and restore leave behind, which
differs: the rollback kills the tree, a failed start does not; a killed restore is swept
later, a killed start is not. `Short` gives two of three containers the same name.

### Crc, Calendar

A 32-bit word is the set of its bits; `CrcTable` and `UpdateByte` are the code, the
reference is the remainder of a division of polynomials, itself checked against the
vector of the unit test. `Calendar` has the formula of `now_iso` and a calendar that is
turned one day at a time.

Definitions named `Broken...` (and `OffByOneIntact`) are used by no specification: each
is the definition after it with a plausible mistake, for mutation testing.

## 3. Runs

| Run | Operator and faults | Shows |
|---|---|---|
| `Careful` | careful and patient, `ps` before a restore of something interrupted; 2 starts, 3 processes, 2 snapshot names, network on; staging, dump, verify, unpack, preparation, engine, build failures, slow or killed supervisor; 2 kills at safe points | SingleCopy, Tracked, Restorable, NoLeak, FrozenNotStopped |
| `Anything` | any command in any state, one at a time; all faults, kill anywhere, recycled pids | TypeOK, RestoringRecoverable |
| `Liveness` | careful, but starts again what has ended; spawn, staging, dump, packing, preparation and engine failures; supervisor killed at any point, also before it publishes; a command killed anywhere; fair scheduling | LabelsResolve, CommandsFinish, DeathNoticed, SweepSparesLive |
| `Spawn` | every failure and kill; network on or off; fair scheduling | TypeOK, ReadyBeforeExec, HandleHasPid, ExitCodeRelayed, NothingLeft, PidArrives, NeverStranded, EndNoticed |
| `Migration` | looks, and may or may not wait; 2 nodes, 2 migrations, 2 freezes, 2 engines; staging, dump, pack, cut, slow, build, unreadable pid file, sender killed anywhere, receiver or restore killed, two kinds at a time; fair scheduling | OnePlace, NotLost, Tracked, KeepsPromise, MigrateEnds, ReceiverFrees, HandsOver |
| `Overlap` | anything; the same with snapshots of 1 or 2 chunks and all 13 kinds of failure, one kind at a time | InboxWhole, ReleasedAfterRunning |
| `Snapshot` | 2 checkpoints to one name, 1 restore, a log of up to 2 pieces | UnpacksOnePack, TornRejected, RoundTrip |
| `StateFile` | 3 updates, records of 2 lengths, kills | UpdateKept, ReadableAtRest, LostForGood |
| `Network` | 3 containers, 2 names, any command fails or is killed | StaysWired, NameFreeAtRest, BridgeHasOneMaker |
| `Algorithms` | messages of up to 4 bytes in pieces of 1 or 2, damage of up to 2 bytes; 146 100 days | CrcCorrect, DamageDetected, DateCorrect |
| `RestoreKilled` | careful; restore killed | SingleCopy is violated |
| `ResultLost` | follows advice; the connection is cut | NeverTwice is violated |

`Careful` is the positive statement of what the code achieves on one node: for an
operator who lets each command and the supervisor finish, and runs `ps` after a kill,
failures and kills leave neither a second copy, nor an untracked process, nor a useless
snapshot, nor host resources. The safe crash points are all but the engine, the build,
the rollback and the recording of a restore (`RestoreKilled`) and the writing of the
snapshot file; `pack` is not among the faults for the same reason (section 4).
`Migration` is the same for two nodes: for an operator who looks first and waits for what
is still at work, whatever the connection and the processes do.

SweepSparesLive says when reconciliation kills a container process: only after a
checkpoint that failed, or was killed, with its mark in place (`botched`). Then the label
may be over a container that runs, and the next `ps` does kill it (section 4); such
behaviours are in the run. Without one, a process is safe from `ps` whatever else
happened: dumps that failed and left the tree running, checkpoints with `--leave-running`,
restores that were killed or failed at any point, supervisors killed at any moment,
spawns that failed with the container running.

A run takes at most three minutes with two workers: `Careful` has 650 thousand distinct
states, `Anything` 3.4 million, `Liveness` 320 thousand, `Migration` 470 thousand and
`Overlap` 1.8 million.

Bounds. In `Lifecycle`, three processes are an original, a restored and a re-restored
copy, which is what two copies after a failed or killed restore need; two supervisors
allow remove, create and start again; two snapshot names tell "the recorded snapshot"
from "latest" and allow an overwrite of either. One command at a time is enough for
the races of commands with supervisors, engines and the kernel. Two kills let the
second hit the recovery from the first. In `Migration`, two migrations are there and
back, a retry, or two at once; two freezes let one rewrite what the other streams; a
snapshot of two chunks is the shortest that can be half one and half the other; two
engines are the one that was left behind and the one that is run in its place; two kinds
of failure let the second hit the recovery from the first. In
`Snapshot`, two entries of up to two pieces tell the checks of an entry from those of the
file. In `StateFile`, three updates are one that is lost, one that loses it and one that
comes after. In `Network`, one container has a name of its own and two share one. For
`Crc`, damage of up to two bytes after and before any bytes covers each place of the
register; one cycle of the calendar is 146 097 days.

Symmetry: pids are interchangeable, and so are the two containers with the same name;
it is used in runs for safety only.

Deadlock is not checked where the bounded system may stop (`Anything`, with all pids and
supervisors used up; `Migration`, `Overlap`, `ResultLost`, `Snapshot`, `StateFile`,
`Algorithms`, when everything has been done). It is checked in the others.

Fairness. `Liveness`: each command and each supervisor is scheduled (weak fairness of
its steps), orphaned engines and the teardown of a namespace finish, and an operator
who can run `ps` again and again does so at some time (strong fairness, as the command
is enabled only between other commands). No other command need be issued, no container
need exit and no fault need happen. `start` ends when the supervisor has written a status
that ends the wait, or after ten seconds: the run has supervisors that are killed before
they write, and files that still hold the status of an earlier run, so CommandsFinish needs
the deadline (`AwaitTimeout`, possible once the supervisor is gone). `Spawn`: each of the
three processes is scheduled; the container's program may run for ever. `Migration`: each
migrate command and each receiver is scheduled, and a read from a connection that
carries nothing any more fails, which is what `set_read_timeout` on both ends is for
(`transport.rs:267`, `:426`); without it *MigrateEnds* and *ReceiverFrees* are false. Both
say `[]<>`: a command is begun once, so again and again none is under way. No migration need
be issued.

## 4. Disagreements between the code and its documentation

Two have a run, quoted in `PROJECT.json`:

- `RestoreKilled`: a restore killed after the engine has begun leaves a process nobody
  recorded, and the next restore makes a second copy, against `restore.rs:12-13`.
- `ResultLost`: a RESULT that does not arrive makes the sender report that the container
  "was NOT handed over" and recommend a restore that makes a second copy, against
  `migrate.rs:21-24`.

Met while modelling, each a behaviour of the modules above but without a run of its own:

- A `stop` of a container that has ended signals whatever has the pid by then:
  `set_stopped` keeps it. `state.rs:268-269` names the danger: "leaving a stale pid behind
  would let a later `stop` signal whatever pid the kernel recycled it into".
- An engine that succeeds without a readable pid file (`criu.rs:276`, `EngineBlind`) makes
  the restore fail with the process alive and unrecorded, and the retry that
  `restore.rs:160` recommends makes a second copy; `README.md:141-142` of the repository
  says that an error path undoes every process.
- A checkpoint whose staging directory cannot be made (`checkpoint.rs:121`), and a
  `--leave-running` one whose packing or whose final record fails (`checkpoint.rs:189`,
  `:201`), return with the label `checkpointing` over a running container, and the next `ps`
  kills it; `restore.rs:3-4` says "A checkpoint that fails leaves a container running". Both
  failures are in `Liveness`; SweepSparesLive names them as its exception, and is violated
  without it.
- A packing that fails, as a kill would, has truncated the snapshot the container had; the
  container is then shown as checkpointed on a torn file. `Careful` has no failure of packing
  for Restorable's sake.
- A migration whose packing fails has ended the container and has no snapshot
  (`PackFail` of `Migration`), against `migrate.rs:26-28`: "If anything fails after the
  freeze, this node keeps its snapshot". NotLost and `Handover` count it as ended.
- A network set-up that fails half way leaves the veth (`restore.rs:183`, the rollback
  learns of it only after success), against `restore.rs:16`: "Every host resource is
  registered before it is created". NameFreeAtRest names the exception.
- A restore that does not wait for the old supervisor is recorded as stopped by it, and
  loses the cgroup leaf and the veth to its removal; `state.rs:82-84` gives waiting as the
  reason for recording the supervisor, and `checkpoint.rs:233` gives up after five seconds.
  This is what `Patient` is for.
- Of two updates of state.json that overlap one is lost, and the file may be left
  unreadable (`state.rs:195`, `:294`); UpdateKept and ReadableAtRest are about those that do
  not overlap.
- When the network cannot be wired the parent leaves, and the end of file on the go
  pipe lets the container exec all the same, against `container.rs:288`. ReadyBeforeExec
  is about a parent that is there.
- A checkpoint to an existing name truncates it in place (`snapshot.rs:348`);
  `snapshot.rs:227-228` speaks of a final rename, and `restore.rs:352` of a snapshot on disk
  as a recoverable container. Killed there, the container is shown as checkpointed and
  cannot be restored.
- `snapshot.rs:20-23` says that `verify()` walks both checksums; it checks the one of the
  file, and `extract_all` those of the entries. UnpacksOnePack needs the latter.
- A kill inside `fs::write` leaves a state.json that no command can read or repair
  (LostForGood), against `restore.rs:311-312`: "rather than needing a repair tool".
- `start` gives every container index 0, hence the same address, against
  `network.rs:62`: "`index` gives each container a distinct /24 address"; indices from 253
  on give no valid host address.
- A bridge whose maker was stopped stays without address or down, and everybody takes
  it for complete (`network.rs:34`, BridgeHasOneMaker).
- `ps` during a checkpoint or restore kills the container (`restore.rs:325` acts on the
  label; nothing says whether its command is alive).
- Errors between the mark and the engine (`restore.rs:132-142`) leave the rollback
  neither run nor disarmed, against the assertion of `restore.rs:284`.
- `start` on a stopped container reads the old status and reports failure at once
  (`main.rs:513`), against `main.rs:400`.
- A restored container lost in a failed dump is recorded as failed and keeps its cgroup
  (`checkpoint.rs:138`); `rm` does not free it either.
- A failed restore of a stopped or migrated container writes `checkpointed` and keeps the
  old pid (`restore.rs:158`), against `tests/checkpoint_restore.rs:24`.
- When the middle process fails before sending a pid, the parent goes on with pid 0
  (`container.rs:150`), and joins itself to the container's cgroup.
- `restore --from` takes the names of cgroup and veth from the manifest (`restore.rs:116`),
  so another container's snapshot acts on that container's resources.
- `create` over an existing container resets its state, whatever runs under it.

## 5. Proofs

36 theorems, in eight modules, each for every value of the constants.

`LifecycleProofs`:

- `TypeCorrect`: `Spec => []TypeOK`, by cases on the actions, with lemmas on what the
  helpers (`End`, `Hit`, the edits of state.rs, `Resolve`, `AfterSweep`) return. The
  assumptions are those in `Lifecycle`: actors are distinct, `None` is no value,
  `Latest` is a name.
- `RestoringAlwaysRecoverable`: with one command in flight at a time, `Spec =>
  []RestoringRecoverable`: a container left at `restoring` has a whole snapshot, so
  the restore can be run again. RestoringRecoverable alone is not inductive: the
  write of the label comes two steps after the verification. `RecoverInv` adds that a
  command about to write `restoring` still has the whole snapshot it verified, that its
  name is a name, and that a checkpoint that has passed its mark (and may truncate a
  snapshot) excludes the label `restoring`. The second lemma pair (`RecoverFrame`,
  `RecoverOwn`) says what a step must not do, and most actions follow from it. With
  two commands at once the statement is false: a checkpoint may truncate the file
  that a concurrent restore has verified.

The other theorems of `LifecycleProofs` assume `Careful`, a predicate on the constants that
`Careful.cfg` satisfies: one command at a time, issued once earlier work has settled and
where it makes sense (start only what was created, restore only what is checkpointed, rm
nothing that runs), no half-done spawn or network set-up, no lost pid file, no reused pid,
no supervisor killed before it has published, no killed foreground start, and no kill
between the engine of a restore and its record. What else fails or is killed, how often,
and the number of starts, processes, snapshots and kills is left open. `RestoreKilled` and
section 4 show what the code does when one of the conditions is not met.

- `SingleCopyAlways` (SingleCopy) and `TrackedAlways` (Tracked), from `CopyInv`: outside the
  build of a restore, what runs is on record or a supervisor is about to record it. It
  needs to know for each control point what may still run (`SupInv`, `CmdInv`), that one
  supervisor is at work at most, and that a restore begins with nothing running and no
  supervisor.
- `NoLeakAlways` (NoLeak), from `LeakInv`: whoever is about to write `stopped` or
  `checkpointed` has removed the cgroup leaf, which needs that it was empty (`Joined`); it
  is made again under `created` or `restoring` only.
- `RestorableAlways` (Restorable), from `SnapInv`: a snapshot is torn only while a checkpoint
  fills it, none does so while the container is recorded as checkpointed, and whoever is
  about to write that has seen a whole snapshot. It also assumes `Finishes`: no checkpoint
  fails or is killed while it writes its snapshot.
- `SweepAlwaysSparesLive` (SweepSparesLive, an action property), from `SweepInv`: until a
  checkpoint fails or is killed with its mark in place, a transient label that outlives
  its command is over a container that is gone. Failures of staging and packing and kills
  of checkpoints are not assumed away: they set `botched`.
- `FrozenNeverStopped` (FrozenNotStopped), from `FrozenInv`: a pid that was dumped is in the
  file under `checkpointing` only, and nobody is about to write it back under another label
  from an older copy. The hard case is a dump whose checkpoint was killed and that ends
  later: until it does, its process is on record under the label of that checkpoint
  (`JobFrozen`), so that no start, restore, checkpoint or supervisor's `stop` is under way.

`SpawnProofs`:

- `SpawnTypeCorrect`: `Spec => []TypeOK`.
- `ReadyAlways`: `Spec => []ReadyBeforeExec`, and `HandleAlwaysHasPid`: `Spec =>
  []HandleHasPid`, for every choice of faults, from one invariant `PipeInv`: the order
  of the forks (`ForkOrder`), the writers of the two pipes (`WriterLives`: while the
  parent waits for the pid, it was sent, or the middle process still holds the pipe, or
  it is gone without having sent it; while the parent has not let go, it holds the go
  pipe) and what the parent has done so far (`Wired`).
- `ExitCodeAlwaysRelayed`: `Spec => []ExitCodeRelayed`, and `NothingLeftAlways`: `Spec =>
  []NothingLeft`. The code passes through two `waitpid`s, so what each process holds of
  it on the way is part of the invariant.

`NetworkProofs`, for any containers and any choice of names:

- `NetworkTypeCorrect`; `BridgeHasOneMakerAlways` (BridgeHasOneMaker), strengthened by
  what the bridge is while somebody adds its address or sets it up (`BridgeInv`).
- `StaysWiredAlways` (StaysWired) and `NameFreeAlways` (NameFreeAtRest), both from
  `NameInv`: at each control point, what the link under the name of a container is, if
  no other has that name. `OthersPair` says that a step for one container leaves the
  pair of another alone; that is where names of one's own are needed.

`SnapshotProofs`, for any number of readers and checkpoints and any growth of the log:

- `SnapshotTypeCorrect`: every variable keeps its type. It already carries that a file no
  writer finished has no checksum in it (its cells are `Plain`).
- `OnePackAlways` (UnpacksOnePack), `TornAlwaysRejected` (TornRejected) and `RoundTripAlways`
  (RoundTrip), from one inductive invariant in three layers. `Packing`: the scratch file
  is the entries so far, one after the other, and the one being copied. `DestInv`: what
  is torn is the beginning of a file of one table; what is whole has its table among
  the finished ones, is laid out as the table says and carries the checksum of what comes
  before; what is spoilt carries one of something else. `ReadInv`: what each reader knows,
  apart for a file that is not rewritten while it reads (`CalmInv`: the checksum and the
  part read so far are those of the file as it is), for one that is not spoilt but may be
  rewritten (`SoundInv`), and for one that is neither (`GoodInv`: every read finds what it
  must). `SoundInv` is the interesting one: a reader may take the manifest of a file that
  is never finished, and then meet a whole file of a later checkpoint and its valid
  checksum. What saves it is that no later file has the images of that manifest (`Past`:
  a dump is a new one, and the images come first and are not empty), so that the checksum
  of the first entry cannot match (`Astray`).

`MigrationProofs`, for any number of nodes, migrations and chunks, any operator and any
faults:

- `MigrationTypeCorrect`: types, and `WireInv`: a receiver that serves and the connection
  it serves fit each other, and a command is at a point where its connection can be.
- `InboxAlwaysWhole` (InboxWhole), from `ShipInv`: every file is one a checkpoint wrote or
  tore, the checksum announced is of such a file, and what a receiver has got so far with
  what is still on its way is what the sender has sent.
- `AlwaysReleasedAfterRunning` (ReleasedAfterRunning, an action property), from `LandInv`: a
  success that a receiver is about to report, that is on its way or that was read is one
  of a container that came up.

`HandoverProofs`, for the same, until the operator acts without looking or without waiting
for an orphaned engine (`rash`):

- `OnePlaceAlways` (OnePlace), from `HostInv` (a copy no record names is one that runs) and
  `Claims`: one command is at work; while a snapshot is shipped or handed over (`Handed`: the
  end of the file is on its way, or its receiver is between the rename and the build) the
  container runs nowhere, even if the command has given up; at most one handover is in
  progress; and while an orphaned engine is at work (`Awaited`) the container runs nowhere,
  there is one such engine, and nobody else is shipping or building. The last part is what
  the waiting keeps: it is false as soon as the operator acts beside the engine.
- `TrackedAlways` (Tracked) and `NotLostAlways` (`~rash => NotLost`, for every `Policy`), from
  `Placed`: what runs is named by its node's record, or was left by a failure that Tracked
  excepts (`Named`); a migration that landed has its container running while its command
  is at work, and the node it left has no copy.
- `PromiseKept`: `Spec => KeepsPromise`, the refinement of `Handover`. It needs `Chained`: from
  the hash to the adoption, what is shipped is what the node it left from still keeps,
  so that `Take` finds a snapshot to take; and what an engine is at work on is kept by its
  node (`EngineChain`), so that what it brings up is a `Thaw`. The steps that change the
  mapped state are the ones that freeze, thaw, take and end; all others stutter.

`StateFileProofs`, for any set of updates and lengths:

- `StateFileTypeCorrect`, `UnreadableOnlyInSave` (ReadableAtRest), `LoneUpdateKept`
  (UpdateKept) and `LostStaysLost` (LostForGood, an action property). UpdateKept is not
  inductive: what an update has loaded must contain all the saves that met no other, as
  long as it is itself on its way, and a file that is neither torn nor being saved is the
  encoding of one record.

`AlgorithmProofs`:

- `DateAlwaysCorrect`: `CalendarSpec => []DateCorrect` for any number of days, from
  `CivilNext`: the computed date of the next day is the reference's tomorrow. The lemmas
  go from the day of the 400-year era to the year of the era (`YearRange`, `YearNext`), to
  the length of that year (`YearLength`, `LeapByEra`), to the month (`MonthNext`).
- `ClockCorrect`: the time of day is in range and adds up.
- `CrcAlwaysCorrect`: `CrcSpec => []CrcCorrect` and `DamageAlwaysDetected`:
  `CrcSpec => []DamageDetected`, for any `MaxLength` and any set of bytes (`Bytes` within
  0..255), and for damage within one piece of at most four bytes (`DamagedAssumption`:
  the size of the register; a longer stretch can go unnoticed, so nothing is claimed of
  one). The invariant `CrcInv` says that the register is the mirror image of
  the remainder and that the two registers are equal exactly when the messages are.
  - A step of the table is linear over exclusive or (`StepLinear`), loses nothing
    (`StepInjective`, because the top bit of `Poly` is set) and only shifts when the lowest
    bit is clear (`StepShifts`). Hence the table look-up is eight steps of the register with
    the byte in its lowest bits (`UpdateByteIs`).
  - Correctness: appending a byte moves the dividend up by eight (`DividendAppend`), the
    first steps of the division do not see it (`DivideUp`, `DivisionPrefix`), and the eight
    that are left are, mirrored, the steps of the register (`DivideMirror`,
    `DivisionLast`; `PolyIsGenerator` ties 0xEDB88320 to the generator).
  - Damage: registers that differ stay different under equal bytes (`UpdateDiffers`).
    Followed backwards from a point where they agree, their difference fits in 8 bits per
    byte (`Back`), so over at most four bytes it is empty at the start only if all bytes
    were equal (`BurstDiffers`).
  - Induction over the message: the library's induction theorems take a predicate as an
    operator, which the provers cannot instantiate. `SetInduction` states induction for a set
    of numbers instead, from the least element of its complement; with it `FoldExists` and
    `FoldRun` turn `FoldLeft` into a loop that can be followed element by element.

Only model-checked: all liveness properties (the prover has no fairness), and the
properties of `Lifecycle` for operators and crash points outside `Careful`.

## 6. Not modelled

Capabilities and seccomp (fixed tables), logs, inspect, info and the benchmarks (they
change nothing or only call the above), the scripts, argument parsing, the arguments
and log of the engine, the metadata a checkpoint collects, and the path check
`safe_join`. Configuration appears through `short_id` only. Not in the models either:
two checkpoints of one name at the same time, a snapshot restored under another id,
collisions of CRC-32, and a full disk while state.json is written.

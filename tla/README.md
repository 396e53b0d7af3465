# A verification project for the ZFS core of Sirius (OpenSolaris on System z)

The repository is the ON ("OS/Net") consolidation of OpenSolaris, build of
October 2008, with a port to the IBM System z. Most of its 44,000 files are
userland commands, device drivers, headers and message files. What is hard to
get right and hard to test sits in the kernel, and the part of the kernel whose
own logic carries most of the data is ZFS
(`usr/src/uts/common/fs/zfs`). This project models the machinery on which every
ZFS operation rests: the transaction group engine, the sync tasks that change a
pool's configuration on top of it, the intent log in operation and after a
crash, the labels and uberblocks that commit a txg to the disks, and the locks
of the file system layer.

All paths below are relative to `usr/src/uts/common/fs/zfs` unless they say
otherwise.

## 1. Inventory

| Component | State | Operations | What is hard | What makes it correct |
|---|---|---|---|---|
| Transaction groups, `txg.c` | `tx_open_txg`, `tx_quiescing_txg`, `tx_quiesced_txg`, `tx_syncing_txg`, `tx_synced_txg`, the two `*_waiting` counters, `tc_count[cpu][slot]`, per-txg lists, `tx_suspend` | `txg_hold_open`, `txg_rele_to_quiesce`, `txg_rele_to_sync`, `txg_wait_synced`, `txg_wait_open`, `txg_delay`, `txg_suspend`, `txg_resume`, `txg_sync_start`, `txg_sync_stop`, the sync and the quiesce thread | two kernel threads and any number of clients; four condition variables; one lock per CPU; sleeping with locks held; slots of arrays that txgs share | consecutive txgs, nobody inside a quiesced txg, the disk is a prefix of the txgs, all waits end |
| Sync tasks, `dsl_synctask.c` | `dstg_err`, `dp_sync_tasks`, lifetime of a group | create, wait, nowait, sync, destroy, do, do_nowait | checked twice, in two contexts, with other groups in between; `EAGAIN` and retry; who frees the group | a group is atomic, callers learn the truth, no group is lost or used after it is freed |
| Re-entrant reader/writer lock, `rrwlock.c` | writer, two counts, `rr_writer_wanted`, a list of nodes per thread | enter (reader, writer), exit, held | readers that nest while a writer waits; anonymous and linked holds; one condition variable for both kinds of waiters | exclusion, exact counts, re-entrant readers never wait, no starvation, no lost wakeup |
| Range locks, `zfs_rlock.c` | the tree of `rl_t` of a file, with reference counts, proxies and condition variables inside the nodes | lock, unlock, reduce | overlapping readers split and share nodes; a node disappears under its waiters; append and block size growth lock more than was asked for | exclusion, tiling and counts of proxies, no lost wakeup |
| DMU transactions, `dmu_tx.c` | holds, `tx_txg`, `dn_assigned_txg`, `tx_unassigned_txg` | create, hold, assign, unassign, wait, commit, abort | retry after a failed assignment while other threads have dirtied the object | a dnode is dirtied in at most two txgs; no deadlock between assigned transactions |
| DSL write throttle, `dsl_pool.c`, `dsl_dir.c` | `dp_tempreserved`, `dp_space_towrite`, `dp_write_limit`, `dp_throughput` | `dsl_pool_tempreserve_space`, `_clear`, `dsl_pool_willuse_space`, rescaling in the sync thread | concurrent reservations, overflow, ERESTART | reservations are given back exactly, limits stay positive |
| Intent log, `zil.c` | `itx` list, list of log write buffers, chain of log blocks, writer flag, `zl_suspend`, header with `zh_claim_txg`, `zh_claim_seq` and `zh_replay_seq` | `zil_itx_assign`, `zil_commit`, `zil_sync`, `zil_create`, `zil_destroy`, `zil_suspend`, `zil_resume`; `zil_claim`, `zil_replay` after a crash | concurrent committers, snapshots and txgs; failing allocations and writes; a crash at any point of operation, claim and replay | what `fsync()` promised survives, the log is closed under dependence, no block is leaked or freed twice, no record is replayed twice or lost |
| Pool labels and uberblocks, `vdev_label.c`, `uberblock.c`, `spa.c` | four labels and a ring of uberblocks per device | `vdev_config_sync`, `spa_sync`, `vdev_uberblock_load` | a crash between any two writes, missing devices | after a crash the pool opens at the last synced txg or the one in progress, with its data stable and matching labels |
| Metaslab allocator and space maps, `metaslab.c`, `space_map.c` | free ranges per txg stage | allocate, free, sync, condense | deferred frees; reuse of a block that an older uberblock still needs | a block is never allocated twice, never reused before its free is synced |
| ARC, dbuf and dnode layers, `arc.c`, `dbuf.c`, `dnode.c` | cached buffers and their dirty records per txg | hold, dirty, sync, evict, `dmu_sync` | data of three txgs at once in one buffer | a txg writes the data as of that txg |
| POSIX layer and volumes, `zfs_vnops.c`, `zfs_znode.c`, `zvol.c` | znodes | vnode operations | lock order, rollback while mounted | use the locks and the transactions by their rules |
| System z port, `usr/src/uts/s390x`, `usr/src/uts/zSeries` | cross-call mailboxes, page tables, interrupts | cross calls, hat layer, dispatch | concurrent CPUs | cross calls are answered once |

How they interact. A client of ZFS takes `z_teardown_lock` (an rrwlock) as a
reader and a range lock, creates a DMU transaction and assigns it to the open
txg (`txg_hold_open`). It dirties objects, which puts them on lists indexed by
`txg & TXG_MASK`, and commits (`txg_rele_to_sync`). The quiesce thread closes the
open txg, waits until nobody is inside, and hands it to the sync thread, which
runs `spa_sync`: dirty datasets, then the sync tasks, then the metadata that
those changed, then the labels and the uberblock. Callers of `txg_wait_synced`
(fsync without a log, sync tasks, export) wait for that. Callbacks are few: the
check and sync functions of sync tasks are the important ones, called once by
the client and once, some txgs later, by the sync thread.

## 2. Plan

Order of work, the most important behaviour first:

1. `Txg`, the engine, with its abstract specification `TxgService` and the proof
   that the one implements the other. Done.
2. `Rrwlock`, with proofs. Done.
3. `SyncTask`, on top of `TxgService`: a component that uses the engine only
   through what it promises, and `Snapshot`, its tasks that make snapshots, with
   proofs. Done.
4. `RangeLock`: nodes, proxies and waiters of `zfs_rlock.c`, and `ZfsFile`, the callers
   that append, extend, truncate and grow the block size, with proofs. Done.
5. `Zil` and `ZilReplay`, the intent log in operation and its recovery, on top
   of `TxgService`, with proofs. Done.
6. `VdevLabel`, the commit of a txg to labels and uberblocks, with proofs. Done.
7. `DmuTx`: assign, retry and commit on top of `TxgService`.
8. `Throttle`: reservations and the write limit, with 64-bit arithmetic.
9. `SpaceMap`: the stages of freed and allocated space over three txgs.

Every safety property of a passing run is stated by a theorem; what is left to
prove comes with the modules that are not written yet.

## 3. Modules

`Txg.tla` models `txg.c`. A step is what a thread does between two points where
another thread can be seen or can see: between two acquisitions of a lock, or up
to a `cv_wait`. The variables carry the names of the fields of `tx_state_t` and
`tx_cpu_t`; a `pc` per thread says where it is, `asleep` who sleeps on which
condition variable, `lockHolder` who has a `tc_lock`. The names of the actions
are those of the functions: `TxgHoldOpen`, `TxgReleToSync`, `QuiesceGrab` (all
`tc_lock`s are taken one by one, clients run in between), `QuiesceAdvance`,
`QuiesceDrainWait`, `SyncTake`, `SpaSyncObject`, and so on. `spa_sync()` is the
removal of the dirty objects of its txg from the per-txg lists, one after the
other, and the end of it. Sleeping in `cv_wait` releases the mutex and goes to
sleep atomically, as the kernel guarantees; a timed wait may time out at any
moment. `krwlock` gives waiting writers precedence over new readers
(`usr/src/uts/common/os/rwlock.c`), which `MayRead` states.

`TxgService.tla` is what the rest of ZFS may assume: threads enter the open txg,
dirty objects and leave, at most `TXG_CONCURRENT_STATES` txgs are live, a txg is
committed after its predecessor, whole, and only when nobody is inside.
`Txg!ImplementsService` is the refinement; the mapping reads `holders` off the
positions of the clients, `floor` off `tx_synced_txg`, and `durable` off the
objects on disk without those of the syncing txg.

`SyncTask.tla` models `dsl_synctask.c` over `TxgService`. A task is two function
pointers and their argument, so the check and the sync functions are parameters of
the module: a check function may have any set of results in a state of the pool.
`pending` is the array of four lists of `txg_list_t`, the latest group first. A
debug build skips each preliminary check with probability one half, which
`PrelimTasks` turns into any subset of the tasks. The reservation of space in
syncing context may fail with `ENOSPC` or `ERESTART`, but not for groups without a
waiter: their only caller (`spa_history.c:424`) reserves nothing, and
`dsl_dir_tempreserve_space` then returns 0 at once (`dsl_dir.c:792`). All the
checks of a group run before its first sync function, so two tasks of one group
must not depend on each other.

`Snapshot.tla` gives the parameters: snapshots, the classical group of several
tasks (`zfs snapshot -r`), from `dsl_dataset.c`. The configuration of the pool is
the set of the snapshots with their txgs. `SnapshotCheck` has the results of
`dsl_dataset_snapshot_check`: `EAGAIN` if the dataset already has a snapshot of
this txg, `EEXIST` if the name is taken, and `ENOSPC` for the failures that do not
depend on other tasks (space, length of the name). `SnapshotSync` adds the
snapshot without looking, as `dsl_dataset_snapshot_sync` does; what it asserts is
`SnapshotsDistinct`. `dmu_objset_find` comes to each dataset once, so the tasks of
a group are about different datasets (`TasksAssumption`). What a caller is told is
compared with the pool (`SnapshotsTaken`): all of its snapshots in one txg that is on
disk, or none of them. The origin snapshot of a
pool (`dsl_dataset.c:1771`), made while the pool is created, is not part of it.
`MCSyncTask.tla` gives the groups.

`Rrwlock.tla` models `rrwlock.c`. Every function runs under `rr_lock` until it
returns or sleeps, so it is one step. The list of nodes in the thread specific
data is the number of nodes that the thread has for this lock, which is all that
`rrn_find` and `rrn_find_and_remove` use. `anonHolds` and `linkedHolds` are
history: which hold was taken on which count.

`RangeLock.tla` models `zfs_rlock.c`. The AVL tree is a set of nodes; the next and
the previous node are found by offset, and the loops over nodes are sets of
nodes. A node has the offset of its end instead of a length. Every function runs
under `z_range_lock` until it returns or sleeps, so it is one step, with two
exceptions: the release of a write lock and `zfs_range_reduce` wake the sleepers
after they have dropped `z_range_lock`. Between the two halves of the release the
node is in `removed`, where its sleepers still are. `on` says in which node a
thread sleeps; proxies are told apart by their offset, which is sound as long as a
node with sleepers is never split, the property `SleepersFindable`. For volumes
the same code skips append and growth (line 124), which are the behaviours of the
model in which the block size never has to grow. `zfs_range_reduce` is only
called with a write lock of the whole file, as its `ASSERT`s say (`zfs_rlock.c:570`), and
for a range that is not empty; this is the guard of `Reduce`.

`RangeLock` itself lets the size and the block size of the file change at will.
`ZfsFile.tla` adds the callers that change them. `zfs_write` (`Call`, `Lock`)
takes a range or, to append, the end of the file; when it got the whole file it
grows the block (`GrowBlksz`) and reduces its lock (`ReduceLock`,
`zfs_vnops.c:738`); then it moves the end of the file chunk by chunk (`Write`,
`zfs_vnops.c:811`), or gives up at any of these points (`Unlock`) because of its
limit, an error of the copy or a failing `dmu_tx_assign`. `zfs_extend` and
`zfs_trunc` lock the whole file (`Extend`, `Trunc`). `zfs_read`, `zfs_get_data`
and `zfs_free_range` lock and unlock. Offsets are in sectors of 512 bytes, to
which `dmu_object_set_blocksize` rounds a block size up, so powers of two stay
what they are. `Grown` is `zfs_grow_blocksize` with its early returns;
`dmu_object_set_blocksize` refuses a file that has blocks beyond the first
(`dnode_set_blksz`, `ENOTSUP`; `multi`), which a truncation may have left behind; the
refusal is ignored by the callers, and the block stays as it is. `z_max_blksz` is stored
by a property callback without a lock (`zfs_vfsops.c:264`), so every read of it
may find another of `RecordSizes`: the read in `zfs_range_lock_writer`, the copy
that `zfs_write` takes at its beginning (`zfs_vnops.c:614`) and uses for both of
its tests, and the three reads of `zfs_extend` are choices of their own. A file
starts with any size, block size and blocks that earlier calls with other record
sizes have left. `MCRangeLock.tla` bounds the ranges and says who asks for what.

`Zil.tla` models `zil.c` from the first record to the empty log, over `TxgService`.
A record is a number, its `lrc_seq`, with a file and a txg; `Matches` is the rule of
`zil_commit_writer` which of them an `fsync()` of a file must push. `lwbs` is
`zl_lwb_list`. A log block is an address with the GUID and the number that its
checksum must carry, so a block of an older chain at the same address is not
taken for one of this chain (`Valid`). `wlwb`, `wnext` and `wcommit` are the locals
of the one writer, which sleeps and works without `zl_lock` between `StartWriter`,
`Push`, `LastWrite`, `ZioWait` and `Finish`. The txg that `zil_lwb_write_start` holds
from the allocation of the next block to the end of the write is a holder of the
engine, under the name of the block. A write that is done is in the cache of the
disk until `zil_flush_vdevs`. The module has no crash action: what a crash leaves
is a function of the state, the header of the last synced txg and the flushed
blocks with any others of those written (`Outcomes`), and `ChainOf` and `LogRecs` read
it as `zil_parse` does. The commit of a txg flushes the devices on which a block was
allocated or freed in that txg and no others for sure (`TxgFlushed`). When a write
fails, the writer waits for the txg; a later `zil_commit` that finds `zl_log_error`
clear puts its records behind the bad block, which cannot be read until
`zil_sync` has freed it. `CutOff` names the lwbs behind such a block, the one
exception of `CommittedSurvive`. `Unflushed` names the moments before
`zil_flush_vdevs`, for which `NoLeak` promises nothing if power fails. A writer that takes an lwb without a
buffer is bound to use it, for `lwb_zio` is set; `Panic` is that state (finding 2), and
the model stops there. `promised` and `dead` are history: the records for which
`zil_commit` returned, and the lwbs that were freed in a txg that is not yet on disk,
whose blocks a crash would bring back.

`ZilReplay.tla` starts where `Zil` ends: with a log as a crash leaves it, some of
its records and blocks of txgs that were synced, some not. `Claim` is `zil_claim`
from `spa_load`, before the pool syncs; `Mount`, `NextRecord`, `Assign`,
`Replayed`, `ReplayError` and `EndReplay` are `zil_replay` and
`zil_replay_log_record`, with `pass` and `sunk` for its passes and the forced
sync; `Destroy` is `zil_destroy`; `ZilSync` writes `zh_replay_seq` from the slot
of `zl_replay_seq` of the txg. All that is done to the pool is a set of changes
with their txgs, of which the engine makes a prefix durable, so a crash keeps the
durable ones and the header that belongs to them. `Crash` may happen in every
state and may leave any number of blocks at the head of the log readable: devices
fail and come back, but only while the machine is down. The data of a record may
be in a block of its own, which several records may share and which is claimed and
freed once (`zil_dva_tree_add`; `DataFrom` is a set). `AssignError` is the failing
`dmu_tx_assign` of a replay, `ReplayError` any other error. Where the claim ended and
how much of the log the destruction could read is kept as history. `Drain` is the caller `zfsvfs_setup`,
which drains the unlinked set before it replays; it is a part of the run
`replay_drain` only.

`VdevLabel.tla` models `vdev_config_sync` and what surrounds it in `spa_sync` and
`spa_load`. Writes are issued as a set and reach the disks one by one in any order;
each may fail, leaving the old contents or something invalid. The flush between
two steps is what separates the sets. `svd` is the set of vdevs that get the
uberblock. What a label says is the configuration of its top-level vdev with a txg,
and an uberblock is a txg with the configuration in its MOS. Uberblocks are found
on visible vdevs only, since the configuration with which the pool is opened may
not know a vdev whose `vdev_ms_array` is not yet written. `stale` is history. A txg
that changed nothing writes no uberblock (`SyncNothing`), and any number of these may
follow one another, so the next uberblock may go to the slot of the last one;
`Overwriting` names that state.

`MCTxg`, `MCRrwlock`, `MCSyncTask`, `MCRangeLock`, `MCZil`, `MCZilReplay` and
`MCVdevLabel` add bounds, fairness and liveness properties; `TxgProofs`,
`TxgServiceProofs`, `RrwlockProofs`, `SyncTaskProofs`, `VdevLabelProofs`,
`RangeLockProofs`, `ZilProofs` and `ZilReplayProofs` hold the proofs. Definitions
marked *mutant* are wrong variants of the definition that follows them; they are
used by nothing, and serve to show that a property notices such an error.

## 4. Runs

| Run | What it shows | Bounds |
|---|---|---|
| `txg` | Pipeline, counts, durability of `txg_wait_synced` and the refinement of `TxgService`, with all interleavings of both threads and two clients, delays, timeouts and `txg_sync_stop` | two CPUs, two clients, one object, two operations per client; the timer of the sync thread starts txgs up to 5, the clients' waits take the open txg on to 9, so that all four slots are used and two reused |
| `txg_live` | All `txg_wait_synced`s and the stop of the engine end, with threads that suspend and resume the pool for ever; a thread in `txg_delay` leaves it when its txg stalls, even if its timeout never fires; with timeouts, a dirty object reaches the disk although nobody waits for it | two clients with one operation each, timer up to 5 |
| `rrwlock` | Exclusion, counts, wakeups; neither writers nor readers starve | three threads, nesting up to two, two writes |
| `rrwlock_priority` | Finding 1 | three threads |
| `synctask` | Atomicity and honesty of groups with stale checks, races for a name and failing reservations; waiting callers are answered | two groups that share datasets and a name, one record without waiter, txgs 4 to 7, one failed reservation |
| `rangelock` | Exclusion, sleepers, counts and tiling, appends at the end of the file, and the block size: changed by one thread alone while there is one block, and a power of two when a write makes the second, with all callers | three threads, readers with a range inside another, across its end and next to it, writers with two of these ranges, appends at all offsets up to 4, a largest block of 4 sectors and record sizes 1, 2 and 4 that change at any time, files of any size with a first block of 1 or 3; 1.12 million states |
| `rangelock_live` | A writer and the readers of one range get their locks | three readers that come back for ever, one writer |
| `zil` | What `fsync()` promised survives a crash in any state, the log is closed, no block is leaked or freed twice, a suspended log is empty | two writing threads, two that take snapshots, two files (one with records larger than a log block), one record per log block, three places for log blocks, two records, two `fsync()`s; one timer and one failing allocation or write, or, without large records, one suspension; in every state a power loss with each subset of the unflushed writes; 1.08 million states |
| `zil_nospace` | Finding 2 | as above, without snapshots |
| `zilreplay` | No record is applied twice or lost, the header agrees with the file system, frees are exact, and the dataset is mounted in the end | two blocks and the one allocated in advance, three records with data in blocks of their own, of which the two of the first log block share one, all combinations of synced and unsynced records; two more crashes, after each of which none, one or both blocks can be read; one error of a replay vector or of `dmu_tx_assign`, one timer; 310,000 states |
| `replay_drain` | Finding 3 | one block, two records, two crashes |
| `labels` | The pool opens at the right txg, with stable data and matching labels, and never goes back | a disk and one that is not visible yet, two labels per disk, a ring of two uberblocks, three txgs, so that the slots of the last uberblock and of the one before it are both written over, two failing writes or configuration changes, any number of crashes; 430,000 states |

Why the bounds are enough. An engine with txgs 4 to 9 goes through every slot of
the arrays and reuses two; three live txgs are the maximum, so the fourth already
meets every overlap of old and new. Two clients on two CPUs suffice for one that
is inside an old txg while the other enters a new one, which is what every
property of the engine is about; the theorems remove this bound. For the
re-entrant lock three threads are two writers and a reader or two readers and a
writer, and depth two is one hold of each kind; the theorems have no bound. For
sync tasks, two callers, one with a group of two tasks, race for a name on
overlapping datasets next to a record without a waiter, and four txgs let each
retry twice. For range locks, the ranges of the run are nested, overlap
at one end, touch and are equal, and the split of a node that is already shared needs
three readers; the sizes include a file of one block, of a block that is not a power of two
and of several blocks smaller than the record size; the theorems hold for all
ranges, threads and sizes. For the intent log, two
records in blocks of their own make a chain with a first, a last and an allocated
block, of the same file, of different files or with a namespace operation before
them; with one record per block every push starts a write, and two threads are a
writer and one that waits for it; the theorems hold for any of these numbers. For
recovery, two crashes are one in the replay and one in the replay that resumes it,
and two blocks are one that is read before the unreadable one, which a later crash
brings back; the theorems hold
for logs of any length and any number of crashes. For labels, one label of each
parity, and a ring of two, in which every txg from the second on writes over the slot
of the last but one, or, after one that changed nothing, over that of the last; the
theorems remove these bounds.

Fairness. `txg_live` assumes weak fairness of both kernel threads and of the steps
of clients that are inside an operation: the scheduler runs runnable threads, and
mutexes are handed over. It does not assume that clients start operations. That
timed waits time out is a premise of the properties that need it (`DelaysEnd`,
`TimeoutsFire`), which `DelayEndsWhenStalled` does not have. Clients that have the
pool suspended resume it: the only one, `dmu_sync` (`dmu.c:863`), does so on every
path. In `rrwlock` a thread in `rrw_enter` that is not asleep gets `rr_lock` and
goes on, the writer leaves, and a reader, however often it nests reads, does not
keep its outermost hold for ever (strong fairness of the last exit); `synctask`
assumes that the engine opens and commits txgs up to the bound, and that callers
run; `zilreplay` that the engine opens a txg somebody waits for and syncs it, and
that the thread that imports and mounts runs. `rangelock_live` assumes that
holders unlock, and reduce their lock before that if they have grown the block,
that threads inside a function run, and strong fairness of being granted a lock: a
thread that could be granted it again and again gets `z_range_lock` at such a
moment at last. It has one range and one writer, which is what `zfs_rlock.c:73`
promises ("Multiple continuous readers on a range don't starve a writer"). Two
things are outside that promise and are not claimed here: writers may starve one
another, because the release broadcasts after it has dropped `z_range_lock` and
grants nothing; and a writer whose range spans several nodes marks one of them at
a time, so readers may renew the others meanwhile.

### Findings

1. `rrwlock.c:40` says that callers without a read lock give waiting
   writers priority. One boolean stands for all waiting writers, and the first that
   gets the lock clears it. Once it leaves, a new reader can get in before the
   second writer, which still waits, has run and has set the flag again. The second
   writer is overtaken but, as `rrwlock` shows, not starved.
2. `zil_lwb_write_done` releases the txg of the next block before it clears
   `lwb_buf` under `zl_lock` (`zil.c:633`, `637`). If the allocation of the next block
   had failed, the txg can sync in between: `zil_sync` still sees a buffer and
   leaves the lwb on the list, and nothing dirties the dataset again. The next
   `zil_commit` takes an lwb without a buffer, which the comment at `zil.c:717` says
   cannot happen.
3. `zil_sync` sets `zh_replay_seq` from the slot of the txg whenever the dataset is
   dirty (`zil.c:1132`), and after a crash the slots are 0. `zfsvfs_setup` drains the
   unlinked set before it calls `zil_replay` (`zfs_vfsops.c:590`); if a replay had been
   interrupted by the crash, the drain resets the record of what was replayed,
   and records are applied a second time. The run `zilreplay` shows that without
   the drain, which is so for volumes, replay is exact.

Met while modelling, and not shown by a run of their own:

- The comment at `vdev_label.c:1117` relies on every vdev being marked dirty when
  the pool is opened, but `spa_load` does so only on an import or with a stale cache
  file (`spa.c:1351`), and the rewrite starts with the even labels. A crash before the
  odd labels are written and a second one during the next even labels leave a vdev
  without a label of the synced txg. `LabelsMatch` excepts these vdevs (`stale`).
- Even labels newer than any uberblock are meant to be considered invalid
  (`vdev_label.c:1074`), but `vdev_label_read_config` takes the first label that it can
  read, whatever its txg.
- Txgs that change nothing write no uberblock (`vdev_label.c:1047`). A multiple of
  `VDEV_UBERBLOCK_COUNT` txgs after the last one the next uberblock goes to the slot of
  that one (`vdev_label.c:812`), and if the machine goes down while its copies are
  written, with each of them torn, the pool goes back to an older txg, whose blocks may
  have been used again, or cannot be opened at all. The comment at `vdev_label.c:1022`
  ("if the system panics or loses power at any time, the state on disk is still
  transactionally consistent") has no such exception. `CommitSurvives` and `NeverBack`
  have: without `Overwriting` TLC finds this behaviour in a few steps.
- `zil_parse` returns the number of the last block it looked at, so `zh_claim_seq`
  includes the unreadable block at the end. If its device comes back after another
  crash, the block is parsed: its records are replayed, and `zil_free_log_record` frees
  their data (`zil.c:320`), which was never claimed and may be in use elsewhere; the
  blocks after it stay allocated for ever. The comment at `zil.c:515` gives the device
  that comes back as the reason for `zh_claim_seq`. `FreesOwn` and `NoLeak` of
  `ZilReplay` except exactly this block and those behind it: without the exceptions
  TLC finds this behaviour.
- The next log block is put on another device than the one before it (`zil.c:711`),
  and a txg flushes only the devices that it wrote to (`vdev_label.c:1065`). If its txg
  is synced before `zil_flush_vdevs`, and power fails with the block that points to it
  still in a cache, the next block is leaked, although its txg was held until the
  write was done to prevent that ("we'd leak it if we crashed", `zil.c:692`). `NoLeak`
  of `Zil` excepts these moments (`Unflushed`).
- After a failed log write the writer waits for the open txg and clears `zl_log_error`
  (`zil.c:1077`). An `fsync()` that comes before `zil_sync` has freed the bad block
  returns after its own writes were good, but its records are behind a block that
  cannot be read, and a crash before their txg is synced loses them. `CommittedSurvive`
  excepts them (`CutOff`).
- `zfs_extend` reads `z_max_blksz` three times (`zfs_znode.c:1241`, `1245`, `1249`).
  If `recordsize` is lowered between the second and the third, the new size is not
  larger than the old one, and a block that is not a power of two stays as it is while the
  file gets more than one; `SecondBlock` therefore speaks
  of writes only.
- `ASSERT(!ISP2(zp->z_blksz))` (`zfs_vnops.c:742`) takes it that a block larger than
  the record size was granted the whole file because it is not a power of two. If
  `recordsize` is raised between the copy in `zfs_write` (`zfs_vnops.c:614`) and the
  grant of the lock (`zfs_rlock.c:139`), the block may be a power of two. The new
  size is right all the same.

## 5. Proofs

The theorems hold for any finite set of clients and threads, any groups and
objects, any number of CPUs and any initial txg from 4 on (`TXG_INITIAL`; from 1
on for sync tasks), those about sync tasks for any check and sync functions, and
those about labels for any vdevs, disks, labels per disk and ring of at least two
slots. Those about range locks hold for any finite set of threads, any offsets and
lengths and any block sizes, with any upper limit of offsets (`UINT64_MAX` in the
code); those about files moreover for a record size that changes at any time, any
largest block that is a power of two, any initial file, any limit of file sizes for each thread, and a largest offset
(`MAXOFFSET_T`) of less than half that limit, so that the end of a write never
overflows into a lock of the whole file; those about snapshots for any groups of
tasks about different datasets; those about the log in operation for any set of
threads, finite sets of threads that take snapshots and of log blocks, any files
and records, any capacity of a block and any number of failing allocations and
writes (the names of callers and of blocks are told apart, `NamesAssumption`,
since both are holders in the engine); those about recovery for a log with at
least one block, any records in it, any records and blocks of unsynced txgs, and
any number of crashes, errors and timeouts.

`TxgProofs`. The invariants that the runs check are not inductive. The inductive
invariant adds where the lock holders are (which `tc_lock`s the quiesce thread has
at each position, and that a client between `txg_hold_open` and
`txg_rele_to_quiesce` has one), the values of the pipeline variables at each
position of the two threads, and for each client the slot in which it is counted.
The heart of it: a client that has its `tc_lock` is in the open txg because
advancing needs all of them; so every client inside is in the open, the quiescing
or, before the drain, the previous txg, and never in a quiesced one; so the at
most three live txgs are consecutive, and no two of them share one of the four
slots; so a count is exact, and the drain waits for the right clients; so the sync
thread removes exactly the objects of its txg, and the disk is a prefix.
`Invariance` is proved with one step per action, then each invariant is a
corollary. `SuspendCorrect` is an action property from the same invariant.
`WaitSyncedCorrect` says that what was dirtied up to a txg is on disk when
`txg_wait_synced` for that txg returns, which follows from the invariant
(`SyncedDurable`), and that everything is when `txg_sync_stop` returns. That needs
`StopInv`, a second invariant on top of the first: while the engine is being
stopped nobody else works, so nothing is dirtied after the stopping thread has
chosen the txg it waits for.

`TxgServiceProofs`. Initial states map to initial states and each action to
`Enter`, `Dirty`, `Leave`, `OpenNext`, `Commit` or a stutter. The interesting
ones are `QuiesceAdvance` (needs the bound on live txgs) and `SpaSyncDone` (needs that
nobody is inside, and that what is on disk is all that was dirtied).

`RrwlockProofs`. The inductive invariant numbers the holds of a thread from 1 to
its depth and says that the linked ones, one for each of its nodes, come after
the anonymous ones; that without `rr_writer_wanted` there are no linked holds
(they are only taken while a writer waits, and the flag is only cleared by a
writer that found both counts 0); that a writer is alone; and that the counts are
the numbers of holds. So the hold that `rrn_find_and_remove` picks is the one
that was taken last, both counts stay exact, and a count of 0 says that nobody
holds. From it follow exclusion, that `rrw_exit` returns a hold to its own count,
that a thread with a hold is never sent to sleep, and that no sleeper is left
behind.

`SyncTaskProofs`. The inductive invariant ties the lists to the engine: a group on
the list of a slot has a caller that is past `txg_list_add`, a live txg of that
slot, no error and is not freed; a caller inside is a holder in the engine. There
are fewer live txgs than slots (`SlotsDiffer`), so what `txg_list_remove` finds
belongs to the syncing txg, and its caller has left because the txg is quiesced
(`RemoveOK`). A group that ran is off the lists and its txg is at most the
syncing one; a waiting group without an error is still listed or has run. When
the caller sees its txg synced the group cannot be listed any more, since a txg
is only committed with an empty list, so a 0 says that it ran.

The theorems about snapshots need that invariant and one more, `SnapInv`: the
snapshots in the pool are exactly those of the groups that ran (`SnapshotsExact`),
each with the txg in which its group ran, and they are distinct. `Applied` runs
the sync functions of a group one after the other and is a recursive function;
that it leaves the pool with the snapshots of exactly these tasks
(`AppliedSnapshots`) is shown with the least counterexample, with `WFMin` in the
place of induction. The checks of a group are made before its first sync function,
against a pool that does not have its snapshots; that they still hold for the last
one is where the datasets of a group must differ.

`VdevLabelProofs`. The inductive invariant has four parts besides the types.
`Ring`: every uberblock is in the slot of its txg, and those of one txg are the
same; a visible vdev has the last synced one, unless that is being written over; any
newer one is the one being written, which is only there if its write was good. If
the txg in progress is not whole turns of the ring ahead, it goes to another slot
(`SlotsDiffer`, the arithmetic at the bottom of the proof). So whatever a torn write
destroys, it is not the last uberblock, and the best one is that or the new one; what
a crash finds in the excepted case is some older one, from which the invariant holds
again, with the labels of all vdevs left behind (`stale`). `Stable`: the data of every
txg that can be found was flushed before its uberblock was written.
`Writes`: a write is done once, and what is counted as good is on the disk.
`Described`: until the uberblock is written every vdev has an odd label with the
configuration of the synced txg, because only even ones are being written; from
then on the dirty ones have an even label with the new configuration, because the
step was repeated until each had one; vdevs that are not dirty did not change.
`CommitCorrect`, `DataCorrect` and `LabelsCorrect` follow; `NeverBackCorrect`
needs the invariant before and after the step.

`RangeLockProofs`. The inductive invariant has a part for each node and one for the
tree. `NodeInv`: a lock covers a whole node or nothing of it, the count of a node is the
number of locks that cover it, and a node that is not a proxy has the range of the one
lock it belongs to. `TreeInv`: nodes do not overlap, nodes tile every lock, and a writer
has a node of its own. The two argue for each other: a split at the end of a new range
cuts no lock, because both pieces keep the holders of the node, and the nodes put into
the gaps between the old ones get exactly the new reader. So a writer that finds no node
in its range is alone there (`Exclusion`), and a reader that leaves takes one off the
counts that are its own (`CountsExact`). A thread sleeps on a node that says so in
`r_write_wanted` or `r_read_wanted`, or that is out of the tree and still to be
broadcast; a reader is only granted its lock where no node in its range has a waiting
writer, so the nodes that are split have no sleepers (`SleepersFindable`). Least and
greatest nodes of a set are found by the well-founded order of the numbers (`WFMin`),
not by induction.

The same module has the theorems about `ZfsFile`. `FileImplementsRangeLock` says
that the callers follow the rules of `RangeLock`: every step is one of its steps
or a change of the file, and in particular `zfs_range_reduce` is only called with
a write lock of the whole file and for a range that is not empty. So the invariant
above holds for them, and `FileInv` is proved on top of it. It says of a granted
write lock that it is of the whole file, or ends within the block, or the block is a
power of two, or the file has more than one block already (`GrantOK`, `Fits`); of a
writer that has grown the block that the end of its write fits in the same sense
(`StageOK`); and of an append where the end of the file is relative to its range
(`AppendOK`). The argument for `BlocksCorrect`: the block size changes, and the file
shrinks, under a lock of the whole file, which nobody else then has a lock beside
(`WholeFileAlone`), except for a write inside a granted range, which only moves the end
of the file up to the end of the range. A write lock that is not of the whole
file was granted because the block was large enough or could not grow, by
whatever record size was read then; and a block that has been grown for the end
of a write covers it, or has the size of a record or of the largest block, which are
powers of two, or was refused because there are several (`GrowFits`). It does not matter that
the record size at the grant and the copy of `zfs_write` differ. The grant reads size
and block size in the same step that puts the node in the tree, so what was read
before a sleep does not count: `Reset` undoes it. `AppendsAtEnd` holds because
whoever else moves the end of the file past the start of an append has a range that
does not overlap, so it lies behind that of the append.

`ZilProofs`. The list of lwbs is not enough to say what a crash leaves, because
the header on disk may still lead to blocks that `zil_sync` or `zil_destroy` freed
in a txg that is not on disk. So the invariant is about a set, `Chain`: the lwbs
of the list, the one block that an empty log keeps in its header, and the `dead`
ones. Its parts are: `CallerInv`, `WriterInv` and `QuietInv`, which positions of
callers exclude each other, what the writer has at each of its own, and that
nothing is written while the log is suspended; `SpaceInv`, that every allocated
block is of exactly one lwb of `Chain`, free in no txg if alive and in one not yet
on disk if dead; `LinkInv`, that the lwbs of a chain are numbered without a gap
and each points to the next, and the dead come first; `HeadInv`, that each of the
two headers leads to the first lwb that its txg has not freed, and that only a
writer in `zil_create` has an lwb of another chain; `WriteInv` and `DiskInv`,
where the write of each lwb is, and that a block with the right checksum has the
contents of its lwb, however often its address was used before; `BirthInv`, that a
block allocated in a synced txg comes after blocks whose write is over, because the
write of each holds the txg of the next, though they may still be in a write cache; `RecInv`, `LoopInv` and
`OrderInv`, which records have left the list of itxs, that those before `itx_next`
and those promised are settled (in a synced txg, or in an lwb all of whose
predecessors are written, flushed and linked, or failed), and that a record
follows in the chain what it builds on. `Invariant` has one step per action; the
long ones are the start of a write, `zil_sync`, `zil_destroy` and the commit of a
txg. On top of it `Errors` says what `zl_log_error` is for: as long as the write of an lwb is
under way or has failed, its records are in a synced txg or promised to nobody, and
once the write is over, the writer has seen the error or waits for a txg that
includes them. `SuspendedIsEmpty` needs one more invariant, that whoever `zil_suspend`
returned to has seen the end of the suspending; `FreedOnceHolds` is an action
property from the invariant.

What a crash leaves is then a matter of the state alone. `ChainOf` is a recursive
function; that it exists, and that the pointers it follows are those of lwbs of
the chain of the header, numbered from there (`WalkFinds`), is shown with the
least counterexample. It stops after as many blocks as there are, so it has to be
shown that no lwb is farther away: the chain has no gap and no two lwbs share a
block, so this is the pigeonhole principle (`ShortChain`). `Reach` says that a
block is found if all before it are valid as far as they are found, and
`CommittedSurvives` and `NothingLeaks` show this validity. A promised record is
settled, so all blocks up to its own are flushed or failed; one that failed before its
own makes it `CutOff`, and if its own failed, `Errors` says that its txg is synced.
For leaks `BirthInv` does it: without a writer between write and flush every block whose
write is over is stable or failed, and with one it is only claimed that nothing
written is lost; `LogIsClosed` goes the other way, from what is found
to what is before it.

The proof changed the statement of `SuspendedEmpty`. It used to say that the
header on disk is empty once the txg of the destroy is synced. That is not so if a
suspended log had no lwb and no header in memory, but one on disk: the txg that
clears it (an allocation failure left no lwb) is still being synced when the log
is suspended. The header on disk is then cleared with that txg, before the one in
which the snapshot is made.

`ZilReplayProofs`. The recovery is a loop over records, in several passes, over
txgs that sync behind it, and a crash may end it in any state and start it again
from the header. The inductive invariant relates three views of what is done. The
header on disk and the one in memory name the last record that is part of the
synced state (`HeaderInv`); each live txg has its slot of `zl_replay_seq`, which
names the last record applied in or before that txg (`SeqInv`), and the live txgs
share no slot (`EngineInv`); the position of the loop names the last record of all
(`LoopInv`). Together they say that the changes of a prefix of the txgs are a
prefix of the records (`AppliesInv`), so that whichever txg the crash keeps, the
header that was written with it says where to go on. `ClaimInv` says what was
claimed and that the claim, which is made once, ended at one block: all before it had
been read, so whatever can be read later, the destruction finds nothing unclaimed
before that block (`AtEnd`). `FreeInv` and `GoneInv` say that the log is given up in
one txg together with its header, so that a block is freed in exactly the state in
which no header leads to it. `EndInv` says what a destruction that could read so many
blocks has freed. `ReplaysOnce`, `HeaderExact`, `KeepsAll`, `FreesOnce`
and `FreesAll` are the corollaries.

Some theorems state invariants that no run lists, because others there imply what
matters of them on the small instance: the types, that nobody is inside a quiesced
txg (`QuiesceCorrect`), that a `tc_lock` pins the open txg (`PinCorrect`), that
the disk is a prefix of the txgs (`DiskCorrect`), that a suspended pool does not
move (`SuspendCorrect`), that re-entrant readers pass (`ReentrantCorrect`), that
the snapshots are exactly those of the groups that ran (`SnapshotsComplete`), that
files use range locks by their rules (`FileImplementsRangeLock`), and that nothing is
promised on account of a failed log write (`Errors`).

Model-checked only: the liveness properties, which are out of the prover's reach.

## 6. What is not modelled

The write throttle in `txg_sync_thread` (lines 343 to 382), which changes no
variable of the pipeline; `txg_list_remove_this`; starting an engine again after
it was stopped. `refcount_t` tags of `rrwlock.c` other than through
`RcountsExact`. Of the DSL everything but the sync tasks and the snapshots. Range
locks are not followed into the pages and buffers that they protect; of the file
only its size and its block size are.

Of the intent log: errors of `zl_get_data`, after which the record is skipped,
`zil_rollback_destroy`, `zil_close`, `zil_is_committed`, `itx_sync` and
`spa_freeze`; liveness of `zil_commit`, which is that of `txg_wait_synced` and of
the disks. `zil_claim` of several datasets is that of each.

Of the labels: the time stamp of uberblocks, which `vdev_uberblock_compare` looks at
when txgs are equal; reading and initialising labels; spares and level-2 cache
devices; `spa_sync` before its last step, which is the subject of `Txg` and
`SyncTask`. A disk that lies about its cache flush.

The remaining components of the inventory, in the order of the plan. Userland,
drivers and the architecture dependent code are left aside: they are independent
of the properties stated here.

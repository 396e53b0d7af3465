------------------------------ MODULE Snapshot ------------------------------
(***************************************************************************)
(* Sync tasks that make snapshots: dmu_objset_snapshot() puts one task per *)
(* dataset into a group, with dsl_dataset_snapshot_check() and _sync() of  *)
(* dsl_dataset.c.  Tasks without a dataset stand for the others, such as   *)
(* the history records of spa_history_internal_log(), which nobody checks. *)
(*                                                                         *)
(* The configuration of the pool is the set of the snapshots <<task, txg>>.*)
(* CheckFunc and SyncFunc of SyncTask are meant to be SnapshotCheck and    *)
(* SnapshotSync, and PoolInit to be NoSnapshots.                           *)
(***************************************************************************)
EXTENDS SyncTask

NoDataset == "none"

\* dmu_objset_find() comes to a dataset once, so the tasks of a group are about
\* different datasets
ASSUME TasksAssumption ==
  \A g \in Groups :
    /\ Len(TasksOf[g]) \in Nat /\ Tasks(g) = 1..Len(TasksOf[g])
    /\ \A i, j \in Tasks(g) :
         i # j /\ TasksOf[g][i].ds = TasksOf[g][j].ds => TasksOf[g][i].ds = NoDataset

\* a task is created in one group
ASSUME OwnTasksAssumption ==
  \A g, h \in Groups : \A i \in Tasks(g), j \in Tasks(h) :
    g # h /\ TasksOf[g][i] = TasksOf[h][j] => TasksOf[g][i].ds = NoDataset

NoSnapshots == {}

\* dsl_dataset_snapshot_check(): one snapshot per txg (ds_prev_snap_txg), no name
\* twice, and the name may be too long or the reservation of space fail
SnapshotCheck(k, t, p) ==
  IF k.ds = NoDataset THEN {"ok"}
  ELSE IF \E s \in p : s[1].ds = k.ds /\ s[2] >= t THEN {"EAGAIN"}
  ELSE IF \E s \in p : s[1].ds = k.ds /\ s[1].name = k.name THEN {"EEXIST"}
  ELSE {"ok", "ENOSPC"}

\* dsl_dataset_snapshot_sync()
SnapshotSync(k, t, p) == IF k.ds = NoDataset THEN p ELSE p \cup {<<k, t>>}

-----------------------------------------------------------------------------
\* However stale the preliminary checks are, no dataset gets two snapshots
\* with one name, or two in one txg (the ASSERTs on zap_add() and on
\* ds_prev_snap_txg in dsl_dataset_snapshot_sync()).
SnapshotsDistinct ==
  \A s, r \in pool :
    s[1].ds = r[1].ds /\ s # r => s[1].name # r[1].name /\ s[2] # r[2]

\* The snapshots are exactly those of the groups that ran, of all their datasets
\* and with the txg in which they ran: what a caller is told is in the pool.
SnapshotsOf(g, t) ==
  {<<TasksOf[g][i], t>> : i \in {j \in Tasks(g) : TasksOf[g][j].ds # NoDataset}}
SnapshotsExact == pool = UNION {SnapshotsOf(x[1], x[2]) : x \in ran}

\* When a caller is told that its group succeeded, the pool has the snapshots of
\* all its datasets, of one txg, which is on disk; when it is told of an error, of
\* whichever task and after however many attempts, the pool has none of them.
MadeBy(g) == {s \in pool : \E i \in Tasks(g) : s[1] = TasksOf[g][i]}
SnapshotsTaken ==
  \A g \in Groups : gpc[g] = "returned" =>
    IF err[g] = "ok" THEN \E t \in 0..floor : MadeBy(g) = SnapshotsOf(g, t)
    ELSE MadeBy(g) = {}
=============================================================================

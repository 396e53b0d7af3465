------------------------------ MODULE SyncTask ------------------------------
(***************************************************************************)
(* Sync tasks (uts/common/fs/zfs/dsl_synctask.c): changes to the pool's    *)
(* configuration that are made in syncing context.  A group of tasks is    *)
(* checked when its caller enters a txg, put on the list of that txg, and  *)
(* checked again and run as a whole when the txg is synced, while the      *)
(* caller waits.  Txgs behave as TxgService says.                          *)
(*                                                                         *)
(* A task is a pair of function pointers with their argument, so they are  *)
(* parameters here: CheckFunc(k, t, p) is the set of results that the      *)
(* check function of task k may have in txg t when the configuration of    *)
(* the pool is p, and SyncFunc(k, t, p) is the configuration that its sync *)
(* function leaves.                                                        *)
(***************************************************************************)
EXTENDS Integers, Sequences

CONSTANTS Groups,
          NoWait,               \* groups for dsl_sync_task_group_nowait()
          TasksOf,              \* dstg_tasks of each group
          CheckFunc(_, _, _), SyncFunc(_, _, _),
          PoolInit,             \* the configuration of the pool at first
          TxgInit,
          Debug                 \* a ZFS_DEBUG build

ASSUME NoWaitAssumption == NoWait \subseteq Groups
ASSUME TxgInitAssumption == TxgInit \in Nat \ {0}
ASSUME DebugAssumption == Debug \in BOOLEAN

VARIABLES
  open, floor, holders, dirtied, durable,   \* the txg engine
  gpc, gtxg,            \* caller of each group: position, txg of its tx
  err,                  \* dstg_err
  pending,              \* dp_sync_tasks: per slot, the latest group first
  pool,                 \* the configuration, under dp_config_rwlock
  freed,                \* groups that were destroyed
  ran                   \* history: <<g, t>>, group g ran in txg t

Engine == INSTANCE TxgService WITH Clients <- Groups, Objs <- Groups

svc == <<open, floor, holders, dirtied, durable>>
vars == <<svc, gpc, gtxg, err, pending, pool, freed, ran>>

Tasks(g) == DOMAIN TasksOf[g]

\* the per-txg lists have TXG_SIZE heads
TXG_SIZE == 4
TwoSlots(t) == t % 2                                          \* mutant
Slot(t) == t % TXG_SIZE
Slots == 0..(TXG_SIZE - 1)

Goto(g, l) == gpc' = [gpc EXCEPT ![g] = l]
SetErr(g, e) == err' = [err EXCEPT ![g] = e]

\* dsl_sync_task_group_create() and dsl_sync_task_create()
Init ==
  /\ Engine!Init
  /\ gpc = [g \in Groups |-> "top"]
  /\ gtxg = [g \in Groups |-> 0]
  /\ err = [g \in Groups |-> "ok"]
  /\ pending = [s \in Slots |-> << >>]
  /\ pool = PoolInit
  /\ freed = {}
  /\ ran = {}

-----------------------------------------------------------------------------
(* Checking *)

\* dstg_err after the check functions of the tasks in D have run, in the
\* order of the list: the last error counts
Checked(g, D, t, before) ==
  LET Result(i) == CheckFunc(TasksOf[g][i], t, pool)
      PassFrom(i) == \A j \in D : j >= i => "ok" \in Result(j)
  IN  UNION {{e \in Result(i) : e # "ok" /\ PassFrom(i + 1)} : i \in D}
      \cup {e \in {before} : PassFrom(1)}

\* a debug build checks each task only half the time
PrelimTasks(g) == IF Debug THEN SUBSET Tasks(g) ELSE {Tasks(g)}

-----------------------------------------------------------------------------
(* dsl_sync_task_group_wait() and _nowait(), and the end of the callers *)

\* top: dmu_tx_assign(tx, TXG_WAIT)
Assign(g) ==
  /\ gpc[g] = "top"
  /\ Engine!Enter(g)
  /\ gtxg' = [gtxg EXCEPT ![g] = open]
  /\ Goto(g, "assigned")
  /\ UNCHANGED <<err, pending, pool, freed, ran>>

\* dstg_err at the start of the preliminary check
NoErr(g) == "ok"

PrelimCheck(g) ==
  /\ gpc[g] = "assigned" /\ g \notin NoWait
  /\ \E D \in PrelimTasks(g) : \E e \in Checked(g, D, gtxg[g], NoErr(g)) :
       SetErr(g, e) /\ Goto(g, IF e = "ok" THEN "checked" ELSE "failed")
  /\ UNCHANGED <<svc, gtxg, pending, pool, freed, ran>>

\* txg_list_add() puts the group at the head of the list
ListAdd(g) ==
  /\ \/ gpc[g] = "checked"
     \/ gpc[g] = "assigned" /\ g \in NoWait
  /\ Engine!Dirty(g, g)
  /\ pending' = [pending EXCEPT ![Slot(gtxg[g])] = <<g>> \o @]
  /\ Goto(g, "listed")
  /\ UNCHANGED <<gtxg, err, pool, freed, ran>>

\* dmu_tx_commit(), which lets the txg quiesce
ListedOnly == {"listed"}                                      \* mutant
CommitFrom == {"failed", "listed"}

TxCommit(g) ==
  /\ gpc[g] \in CommitFrom
  /\ Engine!Leave(g)
  /\ Goto(g, IF gpc[g] = "failed" THEN "returned"
             ELSE IF g \in NoWait THEN "gone" ELSE "waiting")
  /\ UNCHANGED <<gtxg, err, pending, pool, freed, ran>>

\* txg_wait_synced()
TxgClosed(g) == open > gtxg[g]                                \* mutant
TxgDone(g) == floor >= gtxg[g]

Again(g) ==
  /\ gpc[g] = "waiting" /\ TxgDone(g)
  /\ err[g] = "EAGAIN"
  /\ Goto(g, "top")
  /\ UNCHANGED <<svc, gtxg, err, pending, pool, freed, ran>>

Return(g) ==
  /\ gpc[g] = "waiting" /\ TxgDone(g)
  /\ err[g] # "EAGAIN"
  /\ Goto(g, "returned")
  /\ UNCHANGED <<svc, gtxg, err, pending, pool, freed, ran>>

\* dsl_sync_task_group_destroy() by the caller
Destroy(g) ==
  /\ gpc[g] = "returned"
  /\ freed' = freed \cup {g}
  /\ Goto(g, "gone")
  /\ UNCHANGED <<svc, gtxg, err, pending, pool, ran>>

-----------------------------------------------------------------------------
(* dsl_sync_task_group_sync(), called by dsl_pool_sync() in syncing context *)

Syncing == floor + 1
InSync == Syncing < open /\ \A h \in holders : h[2] > Syncing
Current == pending[Slot(Syncing)]

\* txg_list_remove() takes the group at the head of the list of the txg
StillListed(q) == q                                           \* mutant
Unlisted(q) == Tail(q)

Remove(g) ==
  /\ InSync
  /\ Current # << >> /\ g = Head(Current)
  /\ pending' = [pending EXCEPT ![Slot(Syncing)] = Unlisted(@)]

\* dsl_dir_tempreserve_space() fails; ERESTART becomes EAGAIN
SpaceErr(e) == IF e = "ERESTART" THEN "EAGAIN" ELSE e

SyncNoSpace(g, e) ==
  /\ Remove(g)
  /\ g \notin NoWait
  /\ SetErr(g, SpaceErr(e))
  /\ UNCHANGED <<svc, gpc, gtxg, pool, freed, ran>>

\* dstg_err after the checks in syncing context
Trusted(g) == {"ok"}                                          \* mutant
SyncChecked(g) == Checked(g, Tasks(g), Syncing, "ok")

\* the tasks to run, if the checks of the group left the error e
EachItsOwn(g, e) ==                                           \* mutant
  {i \in Tasks(g) : "ok" \in CheckFunc(TasksOf[g][i], Syncing, pool)}
ToRun(g, e) == IF e = "ok" THEN Tasks(g) ELSE {}

\* the configuration after the sync functions of the tasks in D, in order
Applied(g, D) ==
  LET upTo[i \in 0..Len(TasksOf[g])] ==
        IF i = 0 THEN pool
        ELSE IF i \in D THEN SyncFunc(TasksOf[g][i], Syncing, upTo[i - 1])
        ELSE upTo[i - 1]
  IN  upTo[Len(TasksOf[g])]

\* check all tasks, then run all or none; only the group without a waiter is
\* freed here
SyncRun(g) ==
  /\ Remove(g)
  /\ \E e \in SyncChecked(g) :
       /\ SetErr(g, e)
       /\ pool' = Applied(g, ToRun(g, e))
       /\ ran' = ran \cup {x \in {<<g, Syncing>>} : e = "ok"}
  /\ freed' = IF g \in NoWait THEN freed \cup {g} ELSE freed
  /\ UNCHANGED <<svc, gpc, gtxg>>

\* the engine: dsl_pool_sync() empties the list before the txg is committed
OpenTxg ==
  /\ Engine!OpenNext
  /\ UNCHANGED <<gpc, gtxg, err, pending, pool, freed, ran>>

CommitTxg ==
  /\ Engine!Commit
  /\ Current = << >>
  /\ UNCHANGED <<gpc, gtxg, err, pending, pool, freed, ran>>

SyncStep == CommitTxg \/ \E g \in Groups : SyncRun(g)
SpaceStep == \E g \in Groups, e \in {"ENOSPC", "ERESTART"} : SyncNoSpace(g, e)

CallerStep(g) ==
  \/ PrelimCheck(g) \/ ListAdd(g) \/ TxCommit(g) \/ Again(g)
  \/ Return(g) \/ Destroy(g)

Next ==
  \/ OpenTxg \/ SyncStep \/ SpaceStep
  \/ \E g \in Groups : Assign(g) \/ CallerStep(g)

Spec == Init /\ [][Next]_vars

-----------------------------------------------------------------------------
(* Properties *)

\* What dsl_sync_task_group_wait() returns is what happened: 0 if the group
\* ran exactly once, in a txg that is on disk; an error if it never ran.
ReturnTellsTruth ==
  \A g \in Groups : gpc[g] = "returned" =>
    LET runs == {t \in 0..open : <<g, t>> \in ran}
    IN  IF err[g] = "ok" THEN \E t \in 0..floor : runs = {t} ELSE runs = {}

\* A group on the list is there once, is not freed and has no error (the
\* ASSERT in dsl_sync_task_group_sync() and the VERIFY of txg_list_add()).
PendingIsLive ==
  \A s, r \in Slots : \A i \in DOMAIN pending[s] :
    /\ \A j \in DOMAIN pending[r] : pending[s][i] = pending[r][j] => s = r /\ i = j
    /\ pending[s][i] \notin freed /\ err[pending[s][i]] = "ok"

\* A group is run in the txg that its caller entered, and not before the caller
\* has left it, although several live txgs share the array of lists.
RunsInItsTxg ==
  \A x \in ran : gtxg[x[1]] = x[2] /\ gpc[x[1]] \in {"waiting", "returned", "gone"}
=============================================================================

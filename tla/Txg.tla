--------------------------------- MODULE Txg ---------------------------------
(***************************************************************************)
(* The transaction group engine of ZFS (uts/common/fs/zfs/txg.c).          *)
(*                                                                         *)
(* Every change to a pool belongs to a transaction group (txg).  A txg is  *)
(* open (threads may enter it), then quiescing (no thread may enter, the   *)
(* ones inside finish), then quiesced, then syncing (its dirty objects are *)
(* written out), then synced.  Two kernel threads move txgs along this     *)
(* pipeline: the quiesce thread and the sync thread.  Client threads enter *)
(* the open txg through a per-CPU lock and counter, put dirty objects on   *)
(* per-txg lists, and wait for a txg to open or to reach the disk.         *)
(*                                                                         *)
(* A section of code that runs under tx_sync_lock without blocking is one  *)
(* step.  syncLock is a variable because the code blocks on tx_suspend     *)
(* while it holds tx_sync_lock, and because the two threads carry the lock *)
(* from one iteration of their loops into the next.  A sleeper on a        *)
(* condition variable runs again only after a broadcast on it (or, in a    *)
(* timed wait, when the time is over), so a lost wakeup is a behaviour.    *)
(***************************************************************************)
EXTENDS Integers, FiniteSets

CONSTANTS Clients,      \* threads that use the txg interface
          NCPU,         \* max_ncpus
          Objs,         \* objects that can be on a per-txg dirty list
          TxgInit       \* the txg given to txg_init()

Sync == "sync"          \* tx_sync_thread
Quiesce == "quiesce"    \* tx_quiesce_thread
None == "none"

Cpus == 1..NCPU
Threads == Clients \cup {Sync, Quiesce}

\* The first txg of a pool is TXG_INITIAL = 4; an import opens a later one.
ASSUME ClientsAssumption ==
    IsFiniteSet(Clients) /\ Clients \cap {Sync, Quiesce, None} = {}
ASSUME NCPUAssumption == NCPU \in Nat \ {0}
ASSUME TxgInitAssumption == TxgInit \in Nat /\ TxgInit >= 4

TXG_SIZE == 4
Slots == 0..(TXG_SIZE - 1)
Slot(t) == t % TXG_SIZE                      \* txg & TXG_MASK

VARIABLES
  open, quiesced, syncing, synced,           \* tx_open_txg ... tx_synced_txg
  syncWaiting, quiesceWaiting,               \* tx_sync_txg_waiting, tx_quiesce_txg_waiting
  threads, exiting,                          \* tx_threads, tx_exiting
  syncLock,                                  \* owner of tx_sync_lock
  suspenders, writeWanted,                   \* tx_suspend: readers, RW_WRITE_WANTED
  tcLock, count,                             \* tc_lock owner and tc_count of each tx_cpu
  wchan,                                     \* condition variable a thread sleeps on
  spc, timeUp,                               \* sync thread: position, timer at 0
  qpc, qtxg, qcpu,                           \* quiesce thread: position, txg, CPU index
  cpc, th, want,                             \* clients: position, txg_handle, txg waited for
  list,                                      \* txg_list: members of each slot
  written, persisted                         \* history: <<object, txg>> dirtied / synced

pipe == <<open, quiesced, syncing, synced>>
waits == <<syncWaiting, quiesceWaiting>>
life == <<threads, exiting>>
suspend == <<suspenders, writeWanted>>
percpu == <<tcLock, count>>
svars == <<spc, timeUp>>
qvars == <<qpc, qtxg, qcpu>>
cvars == <<cpc, th, want>>
data == <<list, written, persisted>>
engine == <<pipe, life, percpu, svars, qvars>>
clientSide == <<cvars, data>>
vars == <<pipe, waits, life, syncLock, suspend, percpu, wchan, svars, qvars,
          cvars, data>>

-----------------------------------------------------------------------------
(* Locks and condition variables. *)

Cv(name) == <<name, 0, 0>>
TcCv(c, g) == <<"tc", c, g>>
Awake == Cv("awake")

SyncMore == Cv("sync_more")
SyncDone == Cv("sync_done")
QuiesceMore == Cv("quiesce_more")
QuiesceDone == Cv("quiesce_done")
ExitCv == Cv("exit")

Runs(t) == wchan[t] = Awake
CanLock(t) == syncLock \in {None, t}

\* wchan after broadcasts on the condition variables in cvs
Broadcast(cvs) == [t \in Threads |-> IF wchan[t] \in cvs THEN Awake ELSE wchan[t]]

\* wchan after broadcasts on cvs, with thread t going to sleep on cv
BroadcastAndSleep(cvs, t, cv) == [Broadcast(cvs) EXCEPT ![t] = cv]

-----------------------------------------------------------------------------
(* txg_init() *)

Init ==
  /\ open = TxgInit
  /\ quiesced = 0 /\ syncing = 0 /\ synced = 0
  /\ syncWaiting = 0 /\ quiesceWaiting = 0
  /\ threads = 0 /\ exiting = FALSE
  /\ syncLock = None
  /\ suspenders = {} /\ writeWanted = FALSE
  /\ tcLock = [c \in Cpus |-> None]
  /\ count = [c \in Cpus |-> [g \in Slots |-> 0]]
  /\ wchan = [t \in Threads |-> Awake]
  /\ spc = "unborn" /\ timeUp = FALSE
  /\ qpc = "unborn" /\ qtxg = 0 /\ qcpu = 1
  /\ cpc = [cl \in Clients |-> "idle"]
  /\ th = [cl \in Clients |-> [cpu |-> 0, txg |-> 0]]
  /\ want = [cl \in Clients |-> 0]
  /\ list = [g \in Slots |-> {}]
  /\ written = {} /\ persisted = {}

\* txg_sync_start(): both threads come up at the head of their loops
TxgSyncStart ==
  /\ spc = "unborn" /\ qpc = "unborn"
  /\ syncLock = None
  /\ threads' = 2
  /\ spc' = "top" /\ qpc' = "top"
  /\ UNCHANGED <<pipe, waits, exiting, syncLock, suspend, percpu, wchan,
                 timeUp, qtxg, qcpu, clientSide>>

\* txg_thread_exit(): what both threads do when tx_exiting is set
ThreadExit ==
  /\ threads' = threads - 1
  /\ wchan' = Broadcast({ExitCv})
  /\ syncLock' = None
  /\ UNCHANGED <<pipe, waits, exiting, suspend, percpu, timeUp, qtxg, qcpu,
                 clientSide>>

-----------------------------------------------------------------------------
(* txg_sync_thread() *)

\* nothing asks for a sync: no waiter, no handed-off txg, time left
SyncIdleNoTimer == ~exiting /\ synced >= syncWaiting /\ quiesced = 0  \* mutant
SyncIdle == ~exiting /\ ~timeUp /\ synced >= syncWaiting /\ quiesced = 0

SyncSleep ==
  /\ spc = "top" /\ Runs(Sync) /\ CanLock(Sync)
  /\ SyncIdle
  /\ wchan' = [wchan EXCEPT ![Sync] = SyncMore]
  /\ syncLock' = None
  /\ UNCHANGED <<engine, waits, suspend, clientSide>>

SyncProceed ==
  /\ spc = "top" /\ Runs(Sync) /\ CanLock(Sync)
  /\ ~SyncIdle
  /\ spc' = "need"
  /\ syncLock' = Sync
  /\ UNCHANGED <<pipe, waits, life, suspend, percpu, wchan, timeUp, qvars,
                 clientSide>>

\* the timer reaches 0: timeout - delta at the loop head, or cv_timedwait ends
SyncTimer ==
  /\ spc \in {"top", "sync"} /\ ~timeUp
  /\ timeUp' = TRUE
  /\ wchan' = [wchan EXCEPT ![Sync] = IF @ = SyncMore THEN Awake ELSE @]
  /\ UNCHANGED <<pipe, waits, life, syncLock, suspend, percpu, spc, qvars,
                 clientSide>>

\* the second loop: tx_open_txg is read here and again in SyncPrompt, and the
\* quiesce thread may advance it in between (it is not under tx_sync_lock)
SyncNeedsPrompt ==
  /\ spc = "need" /\ Runs(Sync) /\ CanLock(Sync)
  /\ ~exiting /\ quiesced = 0
  /\ quiesceWaiting < open + 1
  /\ spc' = "prompt"
  /\ syncLock' = Sync
  /\ UNCHANGED <<pipe, waits, life, suspend, percpu, wchan, timeUp, qvars,
                 clientSide>>

SyncPrompt ==
  /\ spc = "prompt"
  /\ quiesceWaiting' = open + 1
  /\ wchan' = BroadcastAndSleep({QuiesceMore}, Sync, QuiesceDone)
  /\ spc' = "need"
  /\ syncLock' = None
  /\ UNCHANGED <<pipe, syncWaiting, life, suspend, percpu, timeUp, qvars,
                 clientSide>>

SyncAwaitQuiesced ==
  /\ spc = "need" /\ Runs(Sync) /\ CanLock(Sync)
  /\ ~exiting /\ quiesced = 0
  /\ quiesceWaiting >= open + 1
  /\ wchan' = BroadcastAndSleep({QuiesceMore}, Sync, QuiesceDone)
  /\ syncLock' = None
  /\ UNCHANGED <<engine, waits, suspend, clientSide>>

SyncExit ==
  /\ spc = "need" /\ Runs(Sync) /\ CanLock(Sync)
  /\ exiting
  /\ spc' = "dead"
  /\ UNCHANGED qpc
  /\ ThreadExit

SyncTake ==
  /\ spc = "need" /\ Runs(Sync) /\ CanLock(Sync)
  /\ ~exiting /\ quiesced # 0
  /\ spc' = "consume"
  /\ syncLock' = Sync
  /\ UNCHANGED <<pipe, waits, life, suspend, percpu, wchan, timeUp, qvars,
                 clientSide>>

\* the writer of tx_suspend waits for the readers
NoReaders == suspenders = {}

\* rw_enter(&tx_suspend, RW_WRITER) finds readers: later readers must wait
SyncBlocksOnSuspend ==
  /\ spc \in {"consume", "finish"}
  /\ ~NoReaders /\ ~writeWanted
  /\ writeWanted' = TRUE
  /\ UNCHANGED <<engine, waits, syncLock, suspenders, wchan, clientSide>>

\* quiesced txg becomes the syncing txg; tx_sync_lock is dropped for spa_sync()
SyncConsume ==
  /\ spc = "consume"
  /\ NoReaders
  /\ writeWanted' = FALSE
  /\ syncing' = quiesced
  /\ quiesced' = 0
  /\ wchan' = Broadcast({QuiesceMore})
  /\ spc' = "sync" /\ timeUp' = FALSE
  /\ syncLock' = None
  /\ UNCHANGED <<open, synced, waits, life, suspenders, percpu, qvars,
                 clientSide>>

\* spa_sync() takes an object off the list of the syncing txg and writes it
SpaSyncObject(o) ==
  /\ spc = "sync"
  /\ o \in list[Slot(syncing)]
  /\ list' = [list EXCEPT ![Slot(syncing)] = @ \ {o}]
  /\ persisted' = persisted \cup {<<o, syncing>>}
  /\ UNCHANGED <<engine, waits, syncLock, suspend, wchan, cvars, written>>

SpaSyncDone ==
  /\ spc = "sync"
  /\ list[Slot(syncing)] = {}
  /\ syncLock = None
  /\ syncLock' = Sync
  /\ spc' = "finish"
  /\ UNCHANGED <<pipe, waits, life, suspend, percpu, wchan, timeUp, qvars,
                 clientSide>>

\* tx_synced_txg advances; the lock is kept into the next iteration
SyncFinish ==
  /\ spc = "finish"
  /\ NoReaders
  /\ writeWanted' = FALSE
  /\ synced' = syncing
  /\ syncing' = 0
  /\ wchan' = Broadcast({SyncDone})
  /\ spc' = "top"
  /\ UNCHANGED <<open, quiesced, waits, life, syncLock, suspenders, percpu,
                 timeUp, qvars, clientSide>>

SyncThreadStep ==
  \/ SyncSleep \/ SyncProceed \/ SyncNeedsPrompt \/ SyncPrompt
  \/ SyncAwaitQuiesced \/ SyncExit \/ SyncTake \/ SyncBlocksOnSuspend
  \/ SyncConsume \/ SpaSyncDone \/ SyncFinish
  \/ \E o \in Objs : SpaSyncObject(o)

-----------------------------------------------------------------------------
(* txg_quiesce_thread() and txg_quiesce() *)

QuiesceIdleIgnoresQuiesced == open >= quiesceWaiting          \* mutant
QuiesceIdle == open >= quiesceWaiting \/ quiesced # 0

QuiesceSleep ==
  /\ qpc = "top" /\ Runs(Quiesce) /\ CanLock(Quiesce)
  /\ ~exiting /\ QuiesceIdle
  /\ wchan' = [wchan EXCEPT ![Quiesce] = QuiesceMore]
  /\ syncLock' = None
  /\ UNCHANGED <<engine, waits, suspend, clientSide>>

QuiesceExit ==
  /\ qpc = "top" /\ Runs(Quiesce) /\ CanLock(Quiesce)
  /\ exiting
  /\ qpc' = "dead"
  /\ UNCHANGED spc
  /\ ThreadExit

QuiesceBegin ==
  /\ qpc = "top" /\ Runs(Quiesce) /\ CanLock(Quiesce)
  /\ ~exiting /\ ~QuiesceIdle
  /\ qtxg' = open
  /\ qpc' = "grab" /\ qcpu' = 1
  /\ syncLock' = None
  /\ UNCHANGED <<pipe, waits, life, suspend, percpu, wchan, svars, clientSide>>

\* mutex_enter(&tx->tx_cpu[c].tc_lock), one CPU after the other
Grab == [tcLock EXCEPT ![qcpu] = Quiesce]

QuiesceGrab ==
  /\ qpc = "grab" /\ qcpu \in Cpus
  /\ tcLock[qcpu] = None
  /\ tcLock' = Grab
  /\ qcpu' = qcpu + 1
  /\ UNCHANGED <<pipe, waits, life, syncLock, suspend, count, wchan, svars,
                 qpc, qtxg, clientSide>>

\* all locks held: tx_open_txg++ and let the clients into the new txg
QuiesceAdvance ==
  /\ qpc = "grab" /\ qcpu = NCPU + 1
  /\ open' = open + 1
  /\ tcLock' = [c \in Cpus |-> IF tcLock[c] = Quiesce THEN None ELSE tcLock[c]]
  /\ qpc' = "drain" /\ qcpu' = 1
  /\ UNCHANGED <<quiesced, syncing, synced, waits, life, syncLock, suspend,
                 count, wchan, svars, qtxg, clientSide>>

\* nobody on CPU c is in the txg that is being quiesced
DrainedButLast(c) == count[c][Slot(qtxg)] = 0 \/ c = NCPU     \* mutant
Drained(c) == count[c][Slot(qtxg)] = 0

\* wait until nobody on CPU qcpu is in the old txg
QuiesceDrainWait ==
  /\ qpc = "drain" /\ qcpu \in Cpus /\ Runs(Quiesce)
  /\ tcLock[qcpu] = None
  /\ ~Drained(qcpu)
  /\ wchan' = [wchan EXCEPT ![Quiesce] = TcCv(qcpu, Slot(qtxg))]
  /\ UNCHANGED <<engine, waits, syncLock, suspend, clientSide>>

QuiesceDrained ==
  /\ qpc = "drain" /\ qcpu \in Cpus /\ Runs(Quiesce)
  /\ tcLock[qcpu] = None
  /\ Drained(qcpu)
  /\ qcpu' = qcpu + 1
  /\ UNCHANGED <<pipe, waits, life, syncLock, suspend, percpu, wchan, svars,
                 qpc, qtxg, clientSide>>

\* the handoff wakes the sync thread and the threads in txg_wait_open()
HandoffWakes == {SyncMore, QuiesceDone}

\* hand the txg to the sync thread; the lock is kept into the next iteration
QuiesceHandoff ==
  /\ qpc = "drain" /\ qcpu = NCPU + 1
  /\ syncLock = None
  /\ syncLock' = Quiesce
  /\ quiesced' = qtxg
  /\ wchan' = Broadcast(HandoffWakes)
  /\ qpc' = "top"
  /\ UNCHANGED <<open, syncing, synced, waits, life, suspend, percpu, svars,
                 qtxg, qcpu, clientSide>>

QuiesceThreadStep ==
  \/ QuiesceSleep \/ QuiesceExit \/ QuiesceBegin \/ QuiesceGrab
  \/ QuiesceAdvance \/ QuiesceDrainWait \/ QuiesceDrained \/ QuiesceHandoff

-----------------------------------------------------------------------------
(* The client interface: entering and leaving a txg. *)

Goto(cl, l) == cpc' = [cpc EXCEPT ![cl] = l]

StopLabels == {"stopsync", "stopping", "exitwait", "stopped"}

\* A thread may start an operation: the engine runs and nobody is stopping it.
MayStart(cl) ==
  /\ threads = 2
  /\ cpc[cl] = "idle"
  /\ \A d \in Clients : cpc[d] \notin StopLabels

\* txg_hold_open() on CPU c: take tc_lock and read tx_open_txg, then count
\* the thread in; it returns with tc_lock held
TxgHoldOpen(cl, c) ==
  /\ MayStart(cl)
  /\ tcLock[c] = None
  /\ tcLock' = [tcLock EXCEPT ![c] = cl]
  /\ th' = [th EXCEPT ![cl] = [cpu |-> c, txg |-> open]]
  /\ Goto(cl, "entering")
  /\ UNCHANGED <<pipe, waits, life, syncLock, suspend, count, wchan, svars,
                 qvars, want, data>>

TxgHoldOpenCount(cl) ==
  /\ cpc[cl] = "entering"
  /\ count' = [count EXCEPT ![th[cl].cpu][Slot(th[cl].txg)] = @ + 1]
  /\ Goto(cl, "entered")
  /\ UNCHANGED <<pipe, waits, life, syncLock, suspend, tcLock, wchan, svars,
                 qvars, th, want, data>>

TxgReleToQuiesce(cl) ==
  /\ cpc[cl] \in {"entered", "delayed"}
  /\ tcLock' = [tcLock EXCEPT ![th[cl].cpu] = None]
  /\ Goto(cl, "assigned")
  /\ UNCHANGED <<pipe, waits, life, syncLock, suspend, count, wchan, svars,
                 qvars, th, want, data>>

\* txg_list_add() of a dirty object by a thread inside its txg: an object
\* that already is a member of the slot stays there once.  The new content of
\* the object is not on disk, whatever was written for the txg before.
TxgListAdd(cl, o) ==
  /\ cpc[cl] = "assigned"
  /\ o \notin list[Slot(th[cl].txg)]
  /\ list' = [list EXCEPT ![Slot(th[cl].txg)] = @ \cup {o}]
  /\ written' = written \cup {<<o, th[cl].txg>>}
  /\ persisted' = persisted \ {<<o, th[cl].txg>>}
  /\ UNCHANGED <<engine, waits, syncLock, suspend, wchan, cvars>>

HandleSlot(cl) == Slot(th[cl].txg)

StaysCounted(n) == IF n = 1 THEN n ELSE n - 1                 \* mutant
Uncount(n) == n - 1

\* txg_rele_to_sync(): the last one out on this CPU wakes the quiesce thread
TxgReleToSync(cl) ==
  LET c == th[cl].cpu
      g == HandleSlot(cl)
  IN  /\ cpc[cl] = "assigned"
      /\ tcLock[c] = None
      /\ count' = [count EXCEPT ![c][g] = Uncount(@)]
      /\ wchan' = IF count[c][g] = 1 THEN Broadcast({TcCv(c, g)}) ELSE wchan
      /\ th' = [th EXCEPT ![cl].cpu = 0]
      /\ Goto(cl, "idle")
      /\ UNCHANGED <<pipe, waits, life, syncLock, suspend, tcLock, svars,
                     qvars, want, data>>

(* txg_delay(), called between txg_hold_open() and txg_rele_to_quiesce() with *)
(* the txg just entered (dsl_pool_tempreserve_space, dsl_dir_tempreserve_impl). *)

Stalled == quiesceWaiting > open             \* txg_stalled()

\* the condition of the waiting loop, but for the time
DelayIgnoresStall(cl) == syncing < th[cl].txg - 1             \* mutant
DelayGoesOn(cl) == syncing < th[cl].txg - 1 /\ ~Stalled

\* the unlocked test that decides whether to delay at all
TxgDelay(cl) ==
  /\ cpc[cl] = "entered"
  /\ open <= th[cl].txg
  /\ syncing # th[cl].txg - 1 /\ synced # th[cl].txg - 1
  /\ Goto(cl, "delaylock")
  /\ UNCHANGED <<engine, waits, syncLock, suspend, wchan, th, want, data>>

\* the test repeated under tx_sync_lock, which the loop then keeps
TxgDelayRecheck(cl) ==
  /\ cpc[cl] = "delaylock" /\ syncLock = None
  /\ IF open > th[cl].txg \/ synced = th[cl].txg - 1
     THEN Goto(cl, "delayed") /\ UNCHANGED syncLock
     ELSE Goto(cl, "delay") /\ syncLock' = cl
  /\ UNCHANGED <<engine, waits, suspend, wchan, th, want, data>>

TxgDelaySleep(cl) ==
  /\ cpc[cl] = "delay" /\ Runs(cl) /\ CanLock(cl)
  /\ DelayGoesOn(cl)
  /\ wchan' = [wchan EXCEPT ![cl] = QuiesceMore]
  /\ syncLock' = None
  /\ UNCHANGED <<engine, waits, suspend, clientSide>>

TxgDelayEnd(cl) ==
  /\ cpc[cl] = "delay" /\ Runs(cl) /\ CanLock(cl)
  /\ ~DelayGoesOn(cl)
  /\ Goto(cl, "delayed")
  /\ syncLock' = None
  /\ UNCHANGED <<engine, waits, suspend, wchan, th, want, data>>

\* lbolt reaches the end of the delay
TxgDelayTimeout(cl) ==
  /\ cpc[cl] = "delay" /\ CanLock(cl)
  /\ wchan' = [wchan EXCEPT ![cl] = Awake]
  /\ Goto(cl, "delayed")
  /\ syncLock' = None
  /\ UNCHANGED <<engine, waits, suspend, th, want, data>>

-----------------------------------------------------------------------------
(* The client interface: waiting, suspending, stopping. *)

\* the condition that ends the loop of txg_wait_synced()
IsSyncing(cl) == synced >= want[cl] \/ syncing >= want[cl]    \* mutant
IsSynced(cl) == synced >= want[cl]

\* the head of txg_wait_synced(txg), 0 meaning the open txg; the loop follows
\* under the same tx_sync_lock
WaitSyncedHead(cl, txg, label) ==
  LET t == IF txg = 0 THEN open ELSE txg
  IN  /\ syncLock = None
      /\ syncLock' = cl
      /\ want' = [want EXCEPT ![cl] = t]
      /\ syncWaiting' = IF syncWaiting < t THEN t ELSE syncWaiting
      /\ Goto(cl, label)
      /\ UNCHANGED <<engine, quiesceWaiting, suspend, wchan, th, data>>

WaitSyncedSleep(cl, label) ==
  /\ cpc[cl] = label /\ Runs(cl) /\ CanLock(cl)
  /\ ~IsSynced(cl)
  /\ wchan' = BroadcastAndSleep({SyncMore}, cl, SyncDone)
  /\ syncLock' = None
  /\ UNCHANGED <<engine, waits, suspend, clientSide>>

WaitSyncedReturn(cl, label, next) ==
  /\ cpc[cl] = label /\ Runs(cl) /\ CanLock(cl)
  /\ IsSynced(cl)
  /\ Goto(cl, next)
  /\ syncLock' = None
  /\ UNCHANGED <<engine, waits, suspend, wchan, th, want, data>>

TxgWaitSynced(cl, txg) == MayStart(cl) /\ WaitSyncedHead(cl, txg, "waitsync")
TxgWaitSyncedSleep(cl) == WaitSyncedSleep(cl, "waitsync")
TxgWaitSyncedReturn(cl) == WaitSyncedReturn(cl, "waitsync", "idle")

\* txg_wait_open(txg), 0 meaning the txg after the open one; tx_open_txg may
\* advance between this read and the one of the loop
TxgWaitOpen(cl, txg) ==
  LET t == IF txg = 0 THEN open + 1 ELSE txg
  IN  /\ MayStart(cl)
      /\ syncLock = None
      /\ syncLock' = cl
      /\ want' = [want EXCEPT ![cl] = t]
      /\ quiesceWaiting' = IF quiesceWaiting < t THEN t ELSE quiesceWaiting
      /\ Goto(cl, "waitopen")
      /\ UNCHANGED <<engine, syncWaiting, suspend, wchan, th, data>>

TxgWaitOpenSleep(cl) ==
  /\ cpc[cl] = "waitopen" /\ Runs(cl) /\ CanLock(cl)
  /\ open < want[cl]
  /\ wchan' = BroadcastAndSleep({QuiesceMore}, cl, QuiesceDone)
  /\ syncLock' = None
  /\ UNCHANGED <<engine, waits, suspend, clientSide>>

TxgWaitOpenReturn(cl) ==
  /\ cpc[cl] = "waitopen" /\ Runs(cl) /\ CanLock(cl)
  /\ open >= want[cl]
  /\ Goto(cl, "idle")
  /\ syncLock' = None
  /\ UNCHANGED <<engine, waits, suspend, wchan, th, want, data>>

\* rw_enter(RW_READER) waits for a waiting writer
PassWriter == TRUE                                            \* mutant
MayRead == ~writeWanted

\* txg_suspend()
TxgSuspend(cl) ==
  /\ MayStart(cl)
  /\ MayRead
  /\ suspenders' = suspenders \cup {cl}
  /\ Goto(cl, "suspended")
  /\ UNCHANGED <<engine, waits, syncLock, writeWanted, wchan, th, want, data>>

TxgResume(cl) ==
  /\ cpc[cl] = "suspended"
  /\ suspenders' = suspenders \ {cl}
  /\ Goto(cl, "idle")
  /\ UNCHANGED <<engine, waits, syncLock, writeWanted, wchan, th, want, data>>

\* txg_sync_stop(), on pool close when no other thread uses the pool:
\* txg_wait_synced(0), then tx_exiting, then wait for both threads
TxgSyncStop(cl) ==
  /\ MayStart(cl)
  /\ \A d \in Clients : cpc[d] = "idle"
  /\ WaitSyncedHead(cl, 0, "stopsync")

TxgSyncStopSleep(cl) == WaitSyncedSleep(cl, "stopsync")
TxgSyncStopSynced(cl) == WaitSyncedReturn(cl, "stopsync", "stopping")

StopForgetsSync == {QuiesceMore, QuiesceDone}                 \* mutant
StopWakes == {QuiesceMore, QuiesceDone, SyncMore}

TxgSyncStopExit(cl) ==
  /\ cpc[cl] = "stopping" /\ CanLock(cl)
  /\ exiting' = TRUE
  /\ wchan' = BroadcastAndSleep(StopWakes, cl, ExitCv)
  /\ Goto(cl, "exitwait")
  /\ UNCHANGED <<pipe, waits, threads, syncLock, suspend, percpu, svars, qvars,
                 th, want, data>>

TxgSyncStopAgain(cl) ==
  /\ cpc[cl] = "exitwait" /\ Runs(cl) /\ CanLock(cl)
  /\ threads # 0
  /\ wchan' = [wchan EXCEPT ![cl] = ExitCv]
  /\ UNCHANGED <<engine, waits, syncLock, suspend, clientSide>>

TxgSyncStopReturn(cl) ==
  /\ cpc[cl] = "exitwait" /\ Runs(cl) /\ CanLock(cl)
  /\ threads = 0
  /\ exiting' = FALSE
  /\ Goto(cl, "stopped")
  /\ UNCHANGED <<pipe, waits, threads, syncLock, suspend, percpu, wchan, svars,
                 qvars, th, want, data>>

-----------------------------------------------------------------------------
\* A client waits for the txg it was last in (or the next), or passes 0.
LastTxg(cl) == {th[cl].txg} \ {0}

StartWork(cl) ==
  \/ \E c \in Cpus : TxgHoldOpen(cl, c)
  \/ \E t \in {0} \cup LastTxg(cl) : TxgWaitSynced(cl, t)
  \/ \E t \in {0} \cup {l + 1 : l \in LastTxg(cl)} : TxgWaitOpen(cl, t)
  \/ TxgSyncStop(cl)

\* What a client does to finish what it has started.
ClientStep(cl) ==
  \/ TxgHoldOpenCount(cl) \/ TxgReleToQuiesce(cl) \/ TxgReleToSync(cl)
  \/ TxgDelayRecheck(cl) \/ TxgDelaySleep(cl) \/ TxgDelayEnd(cl)
  \/ TxgWaitSyncedSleep(cl) \/ TxgWaitSyncedReturn(cl)
  \/ TxgWaitOpenSleep(cl) \/ TxgWaitOpenReturn(cl)
  \/ TxgResume(cl)
  \/ TxgSyncStopSleep(cl) \/ TxgSyncStopSynced(cl) \/ TxgSyncStopExit(cl)
  \/ TxgSyncStopAgain(cl) \/ TxgSyncStopReturn(cl)

\* What a client may do, and nothing obliges it to.
ClientChoice(cl) ==
  \/ \E o \in Objs : TxgListAdd(cl, o)
  \/ TxgDelay(cl)
  \/ TxgDelayTimeout(cl)

Next ==
  \/ TxgSyncStart
  \/ SyncThreadStep
  \/ SyncTimer
  \/ QuiesceThreadStep
  \/ \E cl \in Clients :
       StartWork(cl) \/ ClientStep(cl) \/ ClientChoice(cl) \/ TxgSuspend(cl)

Spec == Init /\ [][Next]_vars

-----------------------------------------------------------------------------
(* Properties *)

SyncLabels == {"unborn", "top", "need", "prompt", "consume", "sync", "finish",
               "dead"}
QuiesceLabels == {"unborn", "top", "grab", "drain", "dead"}
ClientLabels == {"idle", "entering", "entered", "delaylock", "delay", "delayed",
                 "assigned", "waitsync", "waitopen", "suspended"} \cup StopLabels
CvSet == {Awake, SyncMore, SyncDone, QuiesceMore, QuiesceDone, ExitCv}
           \cup {TcCv(c, g) : c \in Cpus, g \in Slots}

\* Every variable of tx_state_t and of the threads has a value of its type.
TypeOK ==
  /\ open \in Nat /\ quiesced \in Nat /\ syncing \in Nat /\ synced \in Nat
  /\ syncWaiting \in Nat /\ quiesceWaiting \in Nat
  /\ threads \in 0..2 /\ exiting \in BOOLEAN
  /\ syncLock \in Threads \cup {None}
  /\ suspenders \subseteq Clients /\ writeWanted \in BOOLEAN
  /\ tcLock \in [Cpus -> Clients \cup {Quiesce, None}]
  /\ count \in [Cpus -> [Slots -> Nat]]
  /\ wchan \in [Threads -> CvSet]
  /\ spc \in SyncLabels /\ timeUp \in BOOLEAN
  /\ qpc \in QuiesceLabels /\ qtxg \in Nat /\ qcpu \in 1..(NCPU + 1)
  /\ cpc \in [Clients -> ClientLabels]
  /\ th \in [Clients -> [cpu : 0..NCPU, txg : Nat]]
  /\ want \in [Clients -> Nat]
  /\ list \in [Slots -> SUBSET Objs]
  /\ written \subseteq Objs \X Nat /\ persisted \subseteq Objs \X Nat

\* The newest txg that is completely on disk.
Floor == IF synced = 0 THEN TxgInit - 1 ELSE synced

\* A client is inside a txg from txg_hold_open() to txg_rele_to_sync(), and
\* counted in it once txg_hold_open() has incremented tc_count.
Counted(cl) == cpc[cl] \in {"entered", "delaylock", "delay", "delayed", "assigned"}
Inside(cl) == cpc[cl] = "entering" \/ Counted(cl)

\* The txgs are consecutive and each state of the pipeline holds at most one:
\* synced, then syncing, then one that is quiescing or quiesced, then open.
\* So the quiesced txg is never overwritten before the sync thread takes it,
\* and txg_quiesce() always closes the open txg (its ASSERT, txg.c:256).
PipelineConsecutive ==
  LET inSync == IF syncing # 0 THEN 1 ELSE 0
      inQuiesce == IF quiesced # 0 \/ qpc = "drain" THEN 1 ELSE 0
  IN  /\ open = Floor + 1 + inSync + inQuiesce
      /\ syncing # 0 => syncing = Floor + 1
      /\ quiesced # 0 => quiesced = open - 1 /\ qpc \notin {"grab", "drain"}
      /\ qpc = "drain" => qtxg = open - 1
      /\ qpc = "grab" => qtxg = open

\* No thread is inside a txg that was handed to the sync thread: it is inside
\* the open txg, or inside the one the quiesce thread waits for, on a CPU that
\* the quiesce thread has still to look at.
HoldersNotQuiesced ==
  \A cl \in Clients : Inside(cl) =>
    \/ th[cl].txg = open
    \/ qpc = "drain" /\ th[cl].txg = qtxg /\ th[cl].cpu >= qcpu

\* From txg_hold_open() to txg_rele_to_quiesce() the thread's txg stays the
\* open one, because txg_quiesce() holds every tc_lock when it closes a txg.
PinsOpenTxg(cl) ==
  cpc[cl] \in {"entering", "entered", "delaylock", "delay", "delayed"}

LockPinsOpenTxg == \A cl \in Clients : PinsOpenTxg(cl) => th[cl].txg = open

\* tc_count of a CPU and slot is the number of threads inside through it, so
\* txg_rele_to_sync() never takes it below 0 (its ASSERT, txg.c:235) and a
\* slot that a new txg reuses starts with nobody counted in it.
HoldersOf(c, g) ==
  {cl \in Clients : Counted(cl) /\ th[cl].cpu = c /\ Slot(th[cl].txg) = g}

CountsExact ==
  \A c \in Cpus, g \in Slots : count[c][g] = Cardinality(HoldersOf(c, g))

\* Apart from the txg that is being synced, the disk holds exactly the writes
\* of all txgs up to the last synced one: none is missing and none of a later
\* txg is there, although txgs four apart share a slot of every list.
DiskIsPrefix ==
  {w \in persisted : w[2] # syncing} = {w \in written : w[2] <= Floor}

\* The engine implements TxgService: a thread is inside its txg, what is on
\* disk for good is what was written by the txgs before the syncing one, and
\* every step is one of the service or none.  So no txg is committed with a
\* thread inside, none is committed twice, skipped or in part, and nothing is
\* dirtied in a txg once it is on disk.
Service == INSTANCE TxgService WITH
  floor <- Floor,
  holders <- {<<cl, th[cl].txg>> : cl \in {d \in Clients : Inside(d)}},
  dirtied <- written,
  durable <- {w \in persisted : w[2] # syncing}

ImplementsService == Service!Spec

\* When txg_wait_synced() returns, everything dirtied in the txg asked for and
\* in the ones before it is on disk, and when txg_sync_stop() returns,
\* everything is and no txg_list has a member (txg_list_destroy's ASSERT).
WaitSyncedIsDurable ==
  [][\A cl \in Clients :
       /\ cpc[cl] = "waitsync" /\ cpc'[cl] = "idle" =>
            \A w \in written : w[2] <= want[cl] => w \in persisted
       /\ cpc'[cl] = "stopped" =>
            written \subseteq persisted /\ \A g \in Slots : list[g] = {}]_vars

\* While a thread has the pool suspended, as dmu_sync() does to decide how far
\* the txg of a block has come, no txg starts or ends syncing.
SuspendFreezes ==
  [][suspenders \cap suspenders' # {} => UNCHANGED <<syncing, synced>>]_vars

=============================================================================

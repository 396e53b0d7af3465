------------------------------ MODULE TxgProofs ------------------------------
(***************************************************************************)
(* Proofs about the transaction group engine, for any number of clients,   *)
(* CPUs and objects and for any number of operations.                      *)
(***************************************************************************)
EXTENDS Txg, FiniteSetTheorems, TLAPS

-----------------------------------------------------------------------------
(* The inductive invariant. *)

\* tx_threads counts the threads that run
ThreadCount ==
  threads = (IF spc \in {"unborn", "dead"} THEN 0 ELSE 1)
            + (IF qpc \in {"unborn", "dead"} THEN 0 ELSE 1)

\* the pipeline, and where the sync thread is in it
PipeInv ==
  /\ PipelineConsecutive
  /\ synced = 0 \/ synced >= TxgInit
  /\ spc = "consume" => quiesced # 0
  /\ syncing # 0 <=> spc \in {"sync", "finish"}

\* who holds the tc_locks
LockInv ==
  /\ \A cl \in Clients : PinsOpenTxg(cl) => tcLock[th[cl].cpu] = cl
  /\ \A cl \in Clients : Inside(cl) => th[cl].cpu \in Cpus
  /\ qpc = "grab" => \A c \in Cpus : c < qcpu => tcLock[c] = Quiesce

\* a write that is not on disk is on the list of its txg, and that txg is
\* live; a list holds nothing else
Live(t) == Floor < t /\ t <= open

DataInv ==
  /\ persisted \subseteq written
  /\ \A w \in written : TxgInit <= w[2] /\ w[2] <= open
  /\ \A w \in written \ persisted : Live(w[2]) /\ w[1] \in list[Slot(w[2])]
  /\ \A g \in Slots : \A o \in list[g] :
       \E t \in Nat : Live(t) /\ Slot(t) = g /\ <<o, t>> \in written \ persisted
  /\ \A w \in persisted : w[2] <= Floor \/ w[2] = syncing
  /\ spc = "finish" => list[Slot(syncing)] = {}

IInv ==
  /\ TypeOK
  /\ ThreadCount
  /\ PipeInv
  /\ LockInv
  /\ HoldersNotQuiesced
  /\ LockPinsOpenTxg
  /\ CountsExact
  /\ DataInv

-----------------------------------------------------------------------------
(* Facts about slots and condition variables. *)

\* txg & TXG_MASK is an index into the arrays of size TXG_SIZE.
LEMMA SlotType == \A t \in Nat : Slot(t) \in Slots
  BY DEF Slot, Slots, TXG_SIZE

\* Two txgs that share a slot are at least TXG_SIZE apart.
LEMMA SlotDistinct ==
  ASSUME NEW a \in Nat, NEW b \in Nat, Slot(a) = Slot(b), a < b
  PROVE  b >= a + 4
  BY DEF Slot, TXG_SIZE

\* Every condition variable that a thread may sleep on is in CvSet.
LEMMA CvTypes ==
  /\ {Awake, SyncMore, SyncDone, QuiesceMore, QuiesceDone, ExitCv} \subseteq CvSet
  /\ \A c \in Cpus, g \in Slots : TcCv(c, g) \in CvSet
  BY DEF CvSet

\* cv_broadcast() and going to sleep keep wchan in its type.
LEMMA BroadcastType ==
  ASSUME wchan \in [Threads -> CvSet], NEW cvs, NEW t \in Threads, NEW cv \in CvSet
  PROVE  /\ Broadcast(cvs) \in [Threads -> CvSet]
         /\ BroadcastAndSleep(cvs, t, cv) \in [Threads -> CvSet]
         /\ [wchan EXCEPT ![t] = cv] \in [Threads -> CvSet]
  <1>1. Awake \in CvSet
    BY DEF CvSet
  <1>2. Broadcast(cvs) \in [Threads -> CvSet]
    BY <1>1 DEF Broadcast
  <1> QED
    BY <1>2 DEF BroadcastAndSleep

-----------------------------------------------------------------------------
(* What the steps do to the variables that the invariant is about. *)

core == <<open, quiesced, syncing, synced, tcLock, count, spc, qpc, qtxg, qcpu,
          cpc, th, list, written, persisted>>

\* a step of the threads that starts or ends no stage of the pipeline
ThreadMove ==
  /\ UNCHANGED <<open, quiesced, syncing, synced, tcLock, count, qtxg, qcpu,
                 cpc, th, list, written, persisted>>
  /\ \/ spc' = spc
     \/ spc \notin {"sync", "finish"} /\ spc' \notin {"sync", "finish"}
  /\ spc' = "consume" => spc = "consume" \/ quiesced # 0
  /\ \/ qpc' = qpc
     \/ qpc \notin {"grab", "drain"} /\ qpc' \notin {"grab", "drain"}

\* a step of a client that neither enters nor leaves a txg
ClientMove(cl) ==
  /\ UNCHANGED <<open, quiesced, syncing, synced, tcLock, count, spc, qpc, qtxg,
                 qcpu, th, list, written, persisted>>
  /\ \E l \in ClientLabels :
       /\ cpc' = [cpc EXCEPT ![cl] = l]
       /\ l = "entering" <=> cpc[cl] = "entering"
       /\ l = "assigned" <=> cpc[cl] = "assigned"
       /\ l \in {"entered", "delaylock", "delay", "delayed"}
            <=> cpc[cl] \in {"entered", "delaylock", "delay", "delayed"}

CoreEffect ==
  \/ UNCHANGED core
  \/ ThreadMove
  \/ SyncConsume \/ SpaSyncDone \/ SyncFinish
  \/ \E o \in Objs : SpaSyncObject(o)
  \/ QuiesceBegin \/ QuiesceGrab \/ QuiesceAdvance \/ QuiesceDrained
  \/ QuiesceHandoff
  \/ \E cl \in Clients :
       \/ ClientMove(cl)
       \/ \E c \in Cpus : TxgHoldOpen(cl, c)
       \/ TxgHoldOpenCount(cl) \/ TxgReleToQuiesce(cl) \/ TxgReleToSync(cl)
       \/ \E o \in Objs : TxgListAdd(cl, o)

USE DEF pipe, waits, life, suspend, percpu, svars, qvars, cvars, data,
        engine, clientSide, Grab, HandleSlot, Uncount

\* A step of txg_sync_thread() or of its timer is one of the core effects.
LEMMA SyncEffect == SyncThreadStep \/ SyncTimer => CoreEffect
  <1>1. SyncSleep \/ SyncTimer \/ SyncAwaitQuiesced \/ SyncBlocksOnSuspend
          => UNCHANGED core
    BY DEF SyncSleep, SyncTimer, SyncAwaitQuiesced, SyncBlocksOnSuspend, core
  <1>2. SyncProceed \/ SyncNeedsPrompt \/ SyncPrompt => ThreadMove
    BY DEF SyncProceed, SyncNeedsPrompt, SyncPrompt, ThreadMove
  <1>3. SyncExit \/ SyncTake => ThreadMove
    BY DEF SyncExit, SyncTake, ThreadExit, ThreadMove
  <1> QED
    BY <1>1, <1>2, <1>3 DEF SyncThreadStep, CoreEffect

\* A step of txg_quiesce_thread(), or the start of both threads, is one of the
\* core effects.
LEMMA QuiesceEffect == QuiesceThreadStep \/ TxgSyncStart => CoreEffect
  <1>1. QuiesceSleep \/ QuiesceDrainWait => UNCHANGED core
    BY DEF QuiesceSleep, QuiesceDrainWait, core
  <1>2. QuiesceExit \/ TxgSyncStart => ThreadMove
    BY DEF QuiesceExit, ThreadExit, TxgSyncStart, ThreadMove
  <1> QED
    BY <1>1, <1>2 DEF QuiesceThreadStep, CoreEffect

\* A step of a client is one of the core effects.
LEMMA ClientEffect ==
  ASSUME TypeOK, NEW cl \in Clients
  PROVE  StartWork(cl) \/ ClientStep(cl) \/ ClientChoice(cl) \/ TxgSuspend(cl)
           => CoreEffect
  <1>1. TxgDelaySleep(cl) \/ TxgWaitSyncedSleep(cl) \/ TxgWaitOpenSleep(cl)
          \/ TxgSyncStopSleep(cl) \/ TxgSyncStopAgain(cl)
          => UNCHANGED core
    BY DEF TxgDelaySleep, TxgWaitSyncedSleep, WaitSyncedSleep, TxgWaitOpenSleep,
           TxgSyncStopSleep, TxgSyncStopAgain, core
  <1>2. TxgDelay(cl) \/ TxgDelayRecheck(cl) => ClientMove(cl)
    BY DEF TxgDelay, TxgDelayRecheck, Goto, ClientMove, ClientLabels
  <1>3. TxgDelayEnd(cl) \/ TxgDelayTimeout(cl) => ClientMove(cl)
    BY DEF TxgDelayEnd, TxgDelayTimeout, Goto, ClientMove, ClientLabels
  <1>4. ASSUME NEW t \in Nat, TxgWaitSynced(cl, t) PROVE ClientMove(cl)
    <2>1. cpc[cl] = "idle" /\ cpc' = [cpc EXCEPT ![cl] = "waitsync"]
      BY <1>4 DEF TxgWaitSynced, WaitSyncedHead, MayStart, Goto
    <2>2. UNCHANGED <<open, quiesced, syncing, synced, tcLock, count, spc, qpc,
                      qtxg, qcpu, th, list, written, persisted>>
      BY <1>4 DEF TxgWaitSynced, WaitSyncedHead
    <2>3. "waitsync" \in ClientLabels
      BY DEF ClientLabels
    <2> QED
      BY <2>1, <2>2, <2>3 DEF ClientMove
  <1>5. ASSUME NEW t \in Nat, TxgWaitOpen(cl, t) PROVE ClientMove(cl)
    <2>1. cpc[cl] = "idle" /\ cpc' = [cpc EXCEPT ![cl] = "waitopen"]
      BY <1>5 DEF TxgWaitOpen, MayStart, Goto
    <2>2. UNCHANGED <<open, quiesced, syncing, synced, tcLock, count, spc, qpc,
                      qtxg, qcpu, th, list, written, persisted>>
      BY <1>5 DEF TxgWaitOpen
    <2>3. "waitopen" \in ClientLabels
      BY DEF ClientLabels
    <2> QED
      BY <2>1, <2>2, <2>3 DEF ClientMove
  <1>6. TxgSuspend(cl) \/ TxgResume(cl) => ClientMove(cl)
    BY DEF TxgSuspend, TxgResume, MayStart, Goto, ClientMove, ClientLabels
  <1>7. TxgWaitSyncedReturn(cl) \/ TxgWaitOpenReturn(cl) => ClientMove(cl)
    BY DEF TxgWaitSyncedReturn, WaitSyncedReturn, TxgWaitOpenReturn, Goto,
           ClientMove, ClientLabels
  <1>8. TxgSyncStop(cl) \/ TxgSyncStopSynced(cl) => ClientMove(cl)
    BY DEF TxgSyncStop, WaitSyncedHead, TxgSyncStopSynced, WaitSyncedReturn,
           MayStart, Goto, ClientMove, ClientLabels, StopLabels
  <1>9. TxgSyncStopExit(cl) \/ TxgSyncStopReturn(cl) => ClientMove(cl)
    BY DEF TxgSyncStopExit, TxgSyncStopReturn, Goto, ClientMove, ClientLabels,
           StopLabels
  <1>10. (UNCHANGED core \/ ClientMove(cl)) => CoreEffect
    BY DEF CoreEffect
  <1>11. LastTxg(cl) \subseteq Nat
    BY DEF TypeOK, LastTxg
  <1>12. StartWork(cl) => CoreEffect
    BY <1>4, <1>5, <1>8, <1>10, <1>11 DEF StartWork, CoreEffect
  <1>13. ClientStep(cl) => CoreEffect
    BY <1>1, <1>2, <1>3, <1>6, <1>7, <1>8, <1>9, <1>10 DEF ClientStep, CoreEffect
  <1>14. ClientChoice(cl) => CoreEffect
    BY <1>2, <1>3, <1>10 DEF ClientChoice, CoreEffect
  <1> QED
    BY <1>6, <1>10, <1>12, <1>13, <1>14

\* Every step is one of the few that matter to the invariant, or moves a
\* thread between positions that the invariant does not tell apart.
LEMMA Effect == TypeOK /\ [Next]_vars => CoreEffect
  <1>1. UNCHANGED vars => CoreEffect
    BY DEF vars, CoreEffect, core
  <1> QED
    BY <1>1, SyncEffect, QuiesceEffect, ClientEffect DEF Next

-----------------------------------------------------------------------------
(* Type correctness. *)

\* A set of clients inside a txg is finite.
LEMMA HoldersFinite == \A c, g : IsFiniteSet(HoldersOf(c, g))
  <1>1. ASSUME NEW c, NEW g PROVE IsFiniteSet(HoldersOf(c, g))
    <2>1. HoldersOf(c, g) \subseteq Clients
      BY DEF HoldersOf
    <2> QED
      BY <2>1, ClientsAssumption, FS_Subset
  <1> QED
    BY <1>1

\* The ASSERT of txg_rele_to_sync(): a thread inside a txg has been counted.
LEMMA HolderIsCounted ==
  ASSUME TypeOK, LockInv, CountsExact, NEW cl \in Clients, Counted(cl)
  PROVE  count[th[cl].cpu][Slot(th[cl].txg)] \in Nat \ {0}
  <1> DEFINE c == th[cl].cpu
             g == Slot(th[cl].txg)
  <1>1. c \in Cpus /\ g \in Slots
    BY SlotType DEF TypeOK, LockInv, Inside
  <1>2. HoldersOf(c, g) # {}
    BY DEF HoldersOf
  <1>3. Cardinality(HoldersOf(c, g)) \in Nat \ {0}
    BY <1>2, HoldersFinite, FS_CardinalityType, FS_EmptySet
  <1> QED
    BY <1>1, <1>3 DEF CountsExact

\* The steps of txg_sync_thread() keep the types.
LEMMA SyncTypes ==
  ASSUME TypeOK, ThreadCount, SyncThreadStep \/ SyncTimer
  PROVE  TypeOK' /\ ThreadCount'
  <1> USE DEF TypeOK, ThreadCount, SyncLabels, Threads
  <1>1. CASE SyncSleep \/ SyncProceed
    BY <1>1, BroadcastType, CvTypes DEF SyncSleep, SyncProceed
  <1>2. CASE SyncTimer
    BY <1>2, BroadcastType, CvTypes DEF SyncTimer
  <1>3. CASE SyncNeedsPrompt \/ SyncTake
    BY <1>3 DEF SyncNeedsPrompt, SyncTake
  <1>4. CASE SyncPrompt
    <2>1. wchan' \in [Threads -> CvSet]
      BY <1>4, BroadcastType, CvTypes DEF SyncPrompt
    <2>2. ThreadCount' /\ quiesceWaiting' \in Nat
      BY <1>4 DEF SyncPrompt
    <2> QED
      BY <1>4, <2>1, <2>2 DEF SyncPrompt
  <1>5. CASE SyncAwaitQuiesced
    BY <1>5, BroadcastType, CvTypes DEF SyncAwaitQuiesced
  <1>6. CASE SyncExit
    <2>1. wchan' \in [Threads -> CvSet]
      BY <1>6, BroadcastType, CvTypes DEF SyncExit, ThreadExit
    <2>2. ThreadCount' /\ threads' \in 0..2
      BY <1>6 DEF SyncExit, ThreadExit
    <2> QED
      BY <1>6, <2>1, <2>2 DEF SyncExit, ThreadExit
  <1>7. CASE SyncBlocksOnSuspend
    BY <1>7 DEF SyncBlocksOnSuspend
  <1>8. CASE SyncConsume
    BY <1>8, BroadcastType, CvTypes DEF SyncConsume
  <1>9. CASE SpaSyncDone
    BY <1>9 DEF SpaSyncDone
  <1>10. CASE SyncFinish
    BY <1>10, BroadcastType, CvTypes DEF SyncFinish
  <1>11. CASE \E o \in Objs : SpaSyncObject(o)
    <2> PICK o \in Objs : SpaSyncObject(o)
      BY <1>11
    <2>1. list' \in [Slots -> SUBSET Objs]
      BY SlotType DEF SpaSyncObject
    <2>2. persisted' \subseteq Objs \X Nat
      BY DEF SpaSyncObject
    <2> QED
      BY <2>1, <2>2 DEF SpaSyncObject
  <1> QED
    BY <1>1, <1>2, <1>3, <1>4, <1>5, <1>6, <1>7, <1>8, <1>9, <1>10, <1>11
    DEF SyncThreadStep

\* The steps of txg_quiesce_thread() keep the types.
LEMMA QuiesceTypes ==
  ASSUME TypeOK, ThreadCount, QuiesceThreadStep \/ TxgSyncStart
  PROVE  TypeOK' /\ ThreadCount'
  <1> USE NCPUAssumption DEF TypeOK, ThreadCount, QuiesceLabels, Threads, Cpus
  <1>1. CASE QuiesceSleep
    BY <1>1, BroadcastType, CvTypes DEF QuiesceSleep
  <1>2. CASE QuiesceExit
    <2>1. wchan' \in [Threads -> CvSet]
      BY <1>2, BroadcastType, CvTypes DEF QuiesceExit, ThreadExit
    <2>2. ThreadCount' /\ threads' \in 0..2
      BY <1>2 DEF QuiesceExit, ThreadExit
    <2> QED
      BY <1>2, <2>1, <2>2 DEF QuiesceExit, ThreadExit
  <1>3. CASE QuiesceBegin
    BY <1>3 DEF QuiesceBegin
  <1>9. CASE QuiesceGrab
    <2>1. /\ tcLock' \in [Cpus -> Clients \cup {Quiesce, None}]
          /\ qcpu' \in 1..(NCPU + 1)
      BY <1>9 DEF QuiesceGrab
    <2> QED
      BY <1>9, <2>1 DEF QuiesceGrab
  <1>4. CASE QuiesceAdvance
    BY <1>4 DEF QuiesceAdvance
  <1>5. CASE QuiesceDrainWait
    BY <1>5, BroadcastType, CvTypes, SlotType DEF QuiesceDrainWait
  <1>6. CASE QuiesceDrained
    BY <1>6 DEF QuiesceDrained
  <1>7. CASE QuiesceHandoff
    BY <1>7, BroadcastType, CvTypes DEF QuiesceHandoff
  <1>8. CASE TxgSyncStart
    BY <1>8 DEF TxgSyncStart, SyncLabels
  <1> QED
    BY <1>1, <1>2, <1>3, <1>4, <1>5, <1>6, <1>7, <1>8, <1>9
    DEF QuiesceThreadStep

\* The steps of the client interface keep the types; tc_count stays a natural
\* number because the thread that leaves has been counted.
LEMMA ClientTypes ==
  ASSUME TypeOK, ThreadCount, LockInv, CountsExact, NEW cl \in Clients,
         StartWork(cl) \/ ClientStep(cl) \/ ClientChoice(cl) \/ TxgSuspend(cl)
  PROVE  TypeOK' /\ ThreadCount'
  <1> USE NCPUAssumption DEF TypeOK, ThreadCount, Threads, Goto
  <1>0. /\ ClientLabels \cap StopLabels = StopLabels
        /\ {"idle", "entering", "entered", "delaylock", "delay", "delayed",
            "assigned", "waitsync", "waitopen", "suspended", "stopsync",
            "stopping", "exitwait", "stopped"} \subseteq ClientLabels
    BY DEF ClientLabels, StopLabels
  <1>1. CASE \E c \in Cpus : TxgHoldOpen(cl, c)
    <2> PICK c \in Cpus : TxgHoldOpen(cl, c)
      BY <1>1
    <2>1. /\ th' \in [Clients -> [cpu : 0..NCPU, txg : Nat]]
          /\ tcLock' \in [Cpus -> Clients \cup {Quiesce, None}]
      BY DEF TxgHoldOpen, Cpus
    <2> QED
      BY <1>0, <2>1 DEF TxgHoldOpen
  <1>2. CASE TxgHoldOpenCount(cl)
    <2>1. th[cl].cpu \in Cpus /\ Slot(th[cl].txg) \in Slots
      BY <1>2, SlotType DEF TxgHoldOpenCount, LockInv, Inside
    <2>2. count' \in [Cpus -> [Slots -> Nat]]
      BY <1>2, <2>1 DEF TxgHoldOpenCount
    <2> QED
      BY <1>0, <1>2, <2>2 DEF TxgHoldOpenCount
  <1>3. CASE TxgReleToQuiesce(cl)
    <2>1. tcLock' \in [Cpus -> Clients \cup {Quiesce, None}]
      BY <1>3 DEF TxgReleToQuiesce
    <2> QED
      BY <1>0, <1>3, <2>1 DEF TxgReleToQuiesce
  <1>4. CASE TxgReleToSync(cl)
    <2> DEFINE c == th[cl].cpu
               g == Slot(th[cl].txg)
    <2>1. Counted(cl)
      BY <1>4 DEF TxgReleToSync, Counted
    <2>2. c \in Cpus /\ g \in Slots
      BY <2>1, SlotType DEF LockInv, Inside
    <2>3. count[c][g] - 1 \in Nat
      BY <2>1, HolderIsCounted
    <2>4. count' \in [Cpus -> [Slots -> Nat]]
      BY <1>4, <2>2, <2>3 DEF TxgReleToSync
    <2>5. wchan' \in [Threads -> CvSet]
      BY <1>4, <2>2, BroadcastType, CvTypes DEF TxgReleToSync
    <2>6. th' \in [Clients -> [cpu : 0..NCPU, txg : Nat]]
      BY <1>4 DEF TxgReleToSync
    <2> QED
      BY <1>0, <1>4, <2>4, <2>5, <2>6 DEF TxgReleToSync
  <1>5. CASE \E o \in Objs : TxgListAdd(cl, o)
    <2> PICK o \in Objs : TxgListAdd(cl, o)
      BY <1>5
    <2>1. Slot(th[cl].txg) \in Slots
      BY SlotType
    <2>2. list' \in [Slots -> SUBSET Objs]
      BY <2>1 DEF TxgListAdd
    <2>3. written' \subseteq Objs \X Nat /\ persisted' \subseteq Objs \X Nat
      BY DEF TxgListAdd
    <2> QED
      BY <2>2, <2>3 DEF TxgListAdd
  <1>6. CASE TxgDelay(cl) \/ TxgDelayEnd(cl)
    BY <1>0, <1>6 DEF TxgDelay, TxgDelayEnd
  <1>16. CASE TxgDelayRecheck(cl)
    BY <1>0, <1>16 DEF TxgDelayRecheck
  <1>7. CASE TxgDelaySleep(cl) \/ TxgDelayTimeout(cl)
    <2>1. /\ [wchan EXCEPT ![cl] = QuiesceMore] \in [Threads -> CvSet]
          /\ [wchan EXCEPT ![cl] = Awake] \in [Threads -> CvSet]
      BY BroadcastType, CvTypes
    <2> QED
      BY <1>0, <1>7, <2>1 DEF TxgDelaySleep, TxgDelayTimeout
  <1>8. CASE TxgSuspend(cl) \/ TxgResume(cl)
    BY <1>0, <1>8 DEF TxgSuspend, TxgResume
  <1>9. LastTxg(cl) \subseteq Nat
    BY DEF LastTxg
  <1>10. CASE \E t \in {0} \cup LastTxg(cl) : TxgWaitSynced(cl, t)
    <2> PICK t \in Nat : TxgWaitSynced(cl, t)
      BY <1>9, <1>10
    <2>1. want' \in [Clients -> Nat] /\ syncWaiting' \in Nat
      BY DEF TxgWaitSynced, WaitSyncedHead
    <2> QED
      BY <1>0, <2>1 DEF TxgWaitSynced, WaitSyncedHead
  <1>11. CASE \E t \in {0} \cup {l + 1 : l \in LastTxg(cl)} : TxgWaitOpen(cl, t)
    <2> PICK t \in Nat : TxgWaitOpen(cl, t)
      BY <1>9, <1>11
    <2>1. want' \in [Clients -> Nat] /\ quiesceWaiting' \in Nat
      BY DEF TxgWaitOpen
    <2> QED
      BY <1>0, <2>1 DEF TxgWaitOpen
  <1>12. CASE TxgSyncStop(cl)
    <2>1. want' \in [Clients -> Nat] /\ syncWaiting' \in Nat
      BY <1>12 DEF TxgSyncStop, WaitSyncedHead
    <2> QED
      BY <1>0, <1>12, <2>1 DEF TxgSyncStop, WaitSyncedHead
  <1>13. CASE TxgWaitSyncedSleep(cl) \/ TxgSyncStopSleep(cl) \/ TxgWaitOpenSleep(cl)
    <2>1. /\ BroadcastAndSleep({SyncMore}, cl, SyncDone) \in [Threads -> CvSet]
          /\ BroadcastAndSleep({QuiesceMore}, cl, QuiesceDone) \in [Threads -> CvSet]
      BY BroadcastType, CvTypes
    <2> QED
      BY <1>13, <2>1
      DEF TxgWaitSyncedSleep, TxgSyncStopSleep, WaitSyncedSleep, TxgWaitOpenSleep
  <1>14. CASE TxgWaitSyncedReturn(cl) \/ TxgSyncStopSynced(cl) \/ TxgWaitOpenReturn(cl)
    BY <1>0, <1>14
    DEF TxgWaitSyncedReturn, TxgSyncStopSynced, WaitSyncedReturn, TxgWaitOpenReturn
  <1>15. CASE TxgSyncStopExit(cl) \/ TxgSyncStopAgain(cl) \/ TxgSyncStopReturn(cl)
    <2>1. BroadcastAndSleep(StopWakes, cl, ExitCv) \in [Threads -> CvSet]
      BY BroadcastType, CvTypes
    <2>2. [wchan EXCEPT ![cl] = ExitCv] \in [Threads -> CvSet]
      BY BroadcastType, CvTypes
    <2>3. CASE TxgSyncStopExit(cl)
      BY <1>0, <2>1, <2>3 DEF TxgSyncStopExit
    <2>4. CASE TxgSyncStopAgain(cl)
      BY <2>2, <2>4 DEF TxgSyncStopAgain
    <2>5. CASE TxgSyncStopReturn(cl)
      BY <1>0, <2>5 DEF TxgSyncStopReturn
    <2> QED
      BY <1>15, <2>3, <2>4, <2>5
  <1> QED
    BY <1>1, <1>2, <1>3, <1>4, <1>5, <1>6, <1>7, <1>8, <1>10, <1>11, <1>12,
       <1>13, <1>14, <1>15, <1>16
    DEF StartWork, ClientStep, ClientChoice

\* Every step keeps the types and the number of threads.
LEMMA TypeStep == IInv /\ [Next]_vars => TypeOK' /\ ThreadCount'
  <1>1. IInv /\ UNCHANGED vars => TypeOK' /\ ThreadCount'
    BY DEF IInv, vars, TypeOK, ThreadCount
  <1> QED
    BY <1>1, SyncTypes, QuiesceTypes, ClientTypes DEF IInv, Next

-----------------------------------------------------------------------------
(* The pipeline. *)

\* Every step keeps the order of the txgs in the pipeline.
LEMMA PipeStep == TypeOK /\ PipeInv /\ CoreEffect => PipeInv'
  <1> SUFFICES ASSUME TypeOK, PipeInv, CoreEffect PROVE PipeInv'
    OBVIOUS
  <1> USE TxgInitAssumption DEF TypeOK, PipeInv, PipelineConsecutive, Floor
  <1>1. CASE UNCHANGED <<open, quiesced, syncing, synced, spc, qpc, qtxg>>
    BY <1>1
  <1>2. CASE ThreadMove
    BY <1>2 DEF ThreadMove
  <1>3. CASE SyncConsume
    BY <1>3 DEF SyncConsume
  <1>4. CASE SpaSyncDone
    BY <1>4 DEF SpaSyncDone
  <1>5. CASE SyncFinish
    BY <1>5 DEF SyncFinish
  <1>6. CASE QuiesceBegin
    BY <1>6 DEF QuiesceBegin, QuiesceIdle
  <1>7. CASE QuiesceAdvance
    BY <1>7 DEF QuiesceAdvance
  <1>8. CASE QuiesceHandoff
    BY <1>8 DEF QuiesceHandoff
  <1>9. UNCHANGED core \/ QuiesceGrab \/ QuiesceDrained
          \/ (\E o \in Objs : SpaSyncObject(o))
          => UNCHANGED <<open, quiesced, syncing, synced, spc, qpc, qtxg>>
    BY DEF core, QuiesceGrab, QuiesceDrained, SpaSyncObject
  <1>10. ASSUME NEW cl \in Clients,
                \/ ClientMove(cl)
                \/ \E c \in Cpus : TxgHoldOpen(cl, c)
                \/ TxgHoldOpenCount(cl) \/ TxgReleToQuiesce(cl) \/ TxgReleToSync(cl)
                \/ \E o \in Objs : TxgListAdd(cl, o)
         PROVE  UNCHANGED <<open, quiesced, syncing, synced, spc, qpc, qtxg>>
    BY <1>10 DEF ClientMove, TxgHoldOpen, TxgHoldOpenCount, TxgReleToQuiesce,
                 TxgReleToSync, TxgListAdd
  <1> QED
    BY <1>1, <1>2, <1>3, <1>4, <1>5, <1>6, <1>7, <1>8, <1>9, <1>10 DEF CoreEffect

-----------------------------------------------------------------------------
(* The per-CPU locks and the threads inside a txg. *)

\* Every step keeps what a held tc_lock says: its owner is inside through that
\* CPU, or is the quiesce thread that has grabbed it.
LEMMA LockStep ==
  TypeOK /\ PipeInv /\ LockInv /\ LockPinsOpenTxg /\ CoreEffect
    => LockInv' /\ LockPinsOpenTxg'
  <1> SUFFICES ASSUME TypeOK, PipeInv, LockInv, LockPinsOpenTxg, CoreEffect
               PROVE  LockInv' /\ LockPinsOpenTxg'
    OBVIOUS
  <1> USE ClientsAssumption, NCPUAssumption
      DEF TypeOK, LockInv, LockPinsOpenTxg, PinsOpenTxg, Inside, Counted, Cpus
  <1>1. CASE UNCHANGED <<open, tcLock, qpc, qcpu, cpc, th>>
    BY <1>1
  <1>2. CASE ThreadMove
    BY <1>2 DEF ThreadMove
  <1>3. CASE QuiesceBegin
    BY <1>3 DEF QuiesceBegin
  <1>4. CASE QuiesceGrab
    BY <1>4 DEF QuiesceGrab
  <1>5. CASE QuiesceAdvance
    <2>1. \A c \in Cpus : tcLock[c] = Quiesce
      BY <1>5 DEF QuiesceAdvance
    <2>2. \A cl \in Clients : ~PinsOpenTxg(cl)
      BY <2>1
    <2> QED
      BY <1>5, <2>2 DEF QuiesceAdvance
  <1>6. CASE QuiesceDrained
    BY <1>6 DEF QuiesceDrained
  <1>7. CASE QuiesceHandoff
    BY <1>7 DEF QuiesceHandoff
  <1>8. ASSUME NEW cl \in Clients, ClientMove(cl)
        PROVE  LockInv' /\ LockPinsOpenTxg'
    BY <1>8 DEF ClientMove
  <1>9. ASSUME NEW cl \in Clients, NEW c \in Cpus, TxgHoldOpen(cl, c)
        PROVE  LockInv' /\ LockPinsOpenTxg'
    <2>1. \A d \in Clients \ {cl} : PinsOpenTxg(d) => th[d].cpu # c
      BY <1>9 DEF TxgHoldOpen, None, Quiesce
    <2>2. /\ cpc' = [cpc EXCEPT ![cl] = "entering"]
          /\ tcLock' = [tcLock EXCEPT ![c] = cl]
          /\ th' = [th EXCEPT ![cl] = [cpu |-> c, txg |-> open]]
          /\ UNCHANGED <<open, qpc, qcpu>>
      BY <1>9 DEF TxgHoldOpen, Goto
    <2>3. th'[cl].cpu = c /\ th'[cl].txg = open /\ tcLock'[c] = cl
      BY <2>2
    <2>4. qpc = "grab" => ~(c < qcpu)
      BY <1>9 DEF TxgHoldOpen, None, Quiesce
    <2> QED
      BY <2>1, <2>2, <2>3, <2>4
  <1>10. ASSUME NEW cl \in Clients, TxgHoldOpenCount(cl)
         PROVE  LockInv' /\ LockPinsOpenTxg'
    BY <1>10 DEF TxgHoldOpenCount, Goto
  <1>11. ASSUME NEW cl \in Clients, TxgReleToQuiesce(cl)
         PROVE  LockInv' /\ LockPinsOpenTxg'
    BY <1>11 DEF TxgReleToQuiesce, Goto
  <1>12. ASSUME NEW cl \in Clients, TxgReleToSync(cl)
         PROVE  LockInv' /\ LockPinsOpenTxg'
    BY <1>12 DEF TxgReleToSync, Goto
  <1>13. UNCHANGED core \/ SyncConsume \/ SpaSyncDone \/ SyncFinish
           \/ (\E o \in Objs : SpaSyncObject(o))
           \/ (\E cl \in Clients, o \in Objs : TxgListAdd(cl, o))
           => UNCHANGED <<open, tcLock, qpc, qcpu, cpc, th>>
    BY DEF core, SyncConsume, SpaSyncDone, SyncFinish, SpaSyncObject, TxgListAdd
  <1> QED
    BY <1>1, <1>2, <1>3, <1>4, <1>5, <1>6, <1>7, <1>8, <1>9, <1>10, <1>11, <1>12,
       <1>13
    DEF CoreEffect

\* A CPU whose count is 0 has no thread inside the txg being drained: the ones
\* that are inside but not counted yet are in the open txg.
LEMMA DrainedCpu ==
  ASSUME TypeOK, PipeInv, LockInv, LockPinsOpenTxg, CountsExact,
         qpc = "drain", qcpu \in Cpus, count[qcpu][Slot(qtxg)] = 0,
         NEW cl \in Clients, Inside(cl), th[cl].txg = qtxg
  PROVE  th[cl].cpu # qcpu
  <1>1. HoldersOf(qcpu, Slot(qtxg)) = {}
    BY SlotType, HoldersFinite, FS_EmptySet DEF TypeOK, CountsExact
  <1>2. qtxg # open
    BY DEF PipeInv, PipelineConsecutive, TypeOK
  <1>3. Counted(cl)
    BY <1>2 DEF LockPinsOpenTxg, PinsOpenTxg, Inside
  <1> QED
    BY <1>1, <1>3 DEF HoldersOf

\* Every step keeps the threads inside a txg out of the quiesced and syncing ones,
\* and keeps the open txg open for a thread that still has its tc_lock.
LEMMA HolderStep ==
  ASSUME TypeOK, PipeInv, LockInv, LockPinsOpenTxg, HoldersNotQuiesced,
         CountsExact, CoreEffect
  PROVE  HoldersNotQuiesced'
  <1> USE NCPUAssumption DEF TypeOK, HoldersNotQuiesced, Inside, Counted, Cpus
  <1>1. CASE UNCHANGED <<open, qpc, qtxg, qcpu, cpc, th>>
    BY <1>1
  <1>2. CASE ThreadMove
    BY <1>2 DEF ThreadMove
  <1>3. CASE QuiesceBegin
    BY <1>3 DEF QuiesceBegin
  <1>4. CASE QuiesceGrab
    BY <1>4 DEF QuiesceGrab
  <1>5. CASE QuiesceAdvance
    BY <1>5 DEF QuiesceAdvance, PipeInv, PipelineConsecutive, LockInv
  <1>6. CASE QuiesceDrained
    BY <1>6, DrainedCpu DEF QuiesceDrained, Drained
  <1>7. CASE QuiesceHandoff
    BY <1>7 DEF QuiesceHandoff, LockInv
  <1>8. ASSUME NEW cl \in Clients, ClientMove(cl) PROVE HoldersNotQuiesced'
    BY <1>8 DEF ClientMove
  <1>9. ASSUME NEW cl \in Clients, NEW c \in Cpus, TxgHoldOpen(cl, c)
        PROVE  HoldersNotQuiesced'
    BY <1>9 DEF TxgHoldOpen, Goto
  <1>10. ASSUME NEW cl \in Clients,
                TxgHoldOpenCount(cl) \/ TxgReleToQuiesce(cl)
         PROVE  HoldersNotQuiesced'
    <2>1. /\ UNCHANGED <<open, qpc, qtxg, qcpu, th>>
          /\ \E l \in {"entered", "assigned"} : cpc' = [cpc EXCEPT ![cl] = l]
          /\ Inside(cl)
      BY <1>10 DEF TxgHoldOpenCount, TxgReleToQuiesce, Goto
    <2>2. \A d \in Clients : Inside(d)' => Inside(d)
      BY <2>1
    <2> QED
      BY <2>1, <2>2
  <1>11. ASSUME NEW cl \in Clients, TxgReleToSync(cl) PROVE HoldersNotQuiesced'
    BY <1>11 DEF TxgReleToSync, Goto
  <1>12. UNCHANGED core \/ SyncConsume \/ SpaSyncDone \/ SyncFinish
           \/ (\E o \in Objs : SpaSyncObject(o))
           \/ (\E cl \in Clients, o \in Objs : TxgListAdd(cl, o))
           => UNCHANGED <<open, qpc, qtxg, qcpu, cpc, th>>
    BY DEF core, SyncConsume, SpaSyncDone, SyncFinish, SpaSyncObject, TxgListAdd
  <1> QED
    BY <1>1, <1>2, <1>3, <1>4, <1>5, <1>6, <1>7, <1>8, <1>9, <1>10, <1>11, <1>12
    DEF CoreEffect

\* Counts are exact as long as nobody enters or leaves.
LEMMA CountFrame ==
  ASSUME TypeOK, CountsExact, count' = count,
         \A d \in Clients : Counted(d)' <=> Counted(d),
         \A d \in Clients : Counted(d) => th'[d] = th[d]
  PROVE  CountsExact'
  <1>1. \A c \in Cpus, g \in Slots : HoldersOf(c, g)' = HoldersOf(c, g)
    BY DEF HoldersOf
  <1> QED
    BY <1>1 DEF CountsExact

\* Every step keeps each tc_count equal to the number of threads inside.
LEMMA CountStep ==
  ASSUME TypeOK, LockInv, CountsExact, CoreEffect
  PROVE  CountsExact'
  <1>1. CASE UNCHANGED <<count, cpc, th>>
    BY <1>1, CountFrame DEF Counted
  <1>2. ASSUME NEW cl \in Clients, ClientMove(cl) PROVE CountsExact'
    BY <1>2, CountFrame DEF ClientMove, Counted, TypeOK
  <1>3. ASSUME NEW cl \in Clients, NEW c \in Cpus, TxgHoldOpen(cl, c)
        PROVE  CountsExact'
    BY <1>3, CountFrame DEF TxgHoldOpen, MayStart, Goto, Counted, TypeOK
  <1>4. ASSUME NEW cl \in Clients, TxgReleToQuiesce(cl) PROVE CountsExact'
    BY <1>4, CountFrame DEF TxgReleToQuiesce, Goto, Counted, TypeOK
  <1>5. ASSUME NEW cl \in Clients, TxgHoldOpenCount(cl) PROVE CountsExact'
    <2> DEFINE c0 == th[cl].cpu
               g0 == Slot(th[cl].txg)
    <2>1. c0 \in Cpus /\ g0 \in Slots
      BY <1>5, SlotType DEF TxgHoldOpenCount, LockInv, Inside, TypeOK
    <2>2. /\ cl \notin HoldersOf(c0, g0)
          /\ \A c \in Cpus, g \in Slots :
               HoldersOf(c, g)' = IF c = c0 /\ g = g0 THEN HoldersOf(c, g) \cup {cl}
                                  ELSE HoldersOf(c, g)
      BY <1>5 DEF TxgHoldOpenCount, Goto, HoldersOf, Counted, TypeOK
    <2>3. Cardinality(HoldersOf(c0, g0) \cup {cl}) = Cardinality(HoldersOf(c0, g0)) + 1
      BY <2>2, HoldersFinite, FS_AddElement
    <2>4. \A c \in Cpus, g \in Slots :
            count'[c][g] = IF c = c0 /\ g = g0 THEN count[c][g] + 1 ELSE count[c][g]
      BY <1>5, <2>1 DEF TxgHoldOpenCount, TypeOK
    <2> QED
      BY <2>1, <2>2, <2>3, <2>4 DEF CountsExact
  <1>6. ASSUME NEW cl \in Clients, TxgReleToSync(cl) PROVE CountsExact'
    <2> DEFINE c0 == th[cl].cpu
               g0 == Slot(th[cl].txg)
    <2>1. c0 \in Cpus /\ g0 \in Slots
      BY <1>6, SlotType DEF TxgReleToSync, LockInv, Inside, Counted, TypeOK
    <2>5. /\ cpc' = [cpc EXCEPT ![cl] = "idle"]
          /\ th' = [th EXCEPT ![cl].cpu = 0]
          /\ count' = [count EXCEPT ![c0][g0] = @ - 1]
          /\ cpc[cl] = "assigned"
      BY <1>6 DEF TxgReleToSync, Goto
    <2>6. /\ ~Counted(cl)'
          /\ \A d \in Clients \ {cl} : (Counted(d)' <=> Counted(d)) /\ th'[d] = th[d]
      BY <2>5 DEF Counted, TypeOK
    <2>2. /\ cl \in HoldersOf(c0, g0)
          /\ \A c \in Cpus, g \in Slots :
               HoldersOf(c, g)' = IF c = c0 /\ g = g0 THEN HoldersOf(c, g) \ {cl}
                                  ELSE HoldersOf(c, g)
      BY <2>5, <2>6 DEF HoldersOf, Counted
    <2>3. Cardinality(HoldersOf(c0, g0) \ {cl}) = Cardinality(HoldersOf(c0, g0)) - 1
      <3>1. IsFiniteSet(HoldersOf(c0, g0)) /\ cl \in HoldersOf(c0, g0)
        BY <2>2, HoldersFinite
      <3> HIDE DEF c0, g0
      <3> QED
        BY <3>1, FS_RemoveElement
    <2>4. \A c \in Cpus, g \in Slots :
            count'[c][g] = IF c = c0 /\ g = g0 THEN count[c][g] - 1 ELSE count[c][g]
      BY <2>1, <2>5 DEF TypeOK
    <2> HIDE DEF c0, g0
    <2> QED
      BY <2>1, <2>2, <2>3, <2>4 DEF CountsExact
  <1>7. UNCHANGED core \/ ThreadMove \/ SyncConsume \/ SpaSyncDone \/ SyncFinish
          \/ QuiesceBegin \/ QuiesceGrab \/ QuiesceAdvance \/ QuiesceDrained
          \/ QuiesceHandoff
          => UNCHANGED <<count, cpc, th>>
    BY DEF core, ThreadMove, SyncConsume, SpaSyncDone, SyncFinish, QuiesceBegin,
           QuiesceGrab, QuiesceAdvance, QuiesceDrained, QuiesceHandoff
  <1>8. (\E o \in Objs : SpaSyncObject(o))
          \/ (\E cl \in Clients, o \in Objs : TxgListAdd(cl, o))
          => UNCHANGED <<count, cpc, th>>
    BY DEF SpaSyncObject, TxgListAdd
  <1> QED
    BY <1>1, <1>2, <1>3, <1>4, <1>5, <1>6, <1>7, <1>8 DEF CoreEffect

-----------------------------------------------------------------------------
(* The dirty lists and the disk. *)

\* There are at most three live txgs, so no two of them share a slot.
LEMMA LiveSlots ==
  ASSUME TypeOK, PipeInv, NEW a \in Nat, NEW b \in Nat, Live(a), Live(b),
         Slot(a) = Slot(b)
  PROVE  a = b
  <1>1. open <= Floor + 3 /\ Floor \in Int
    BY TxgInitAssumption DEF TypeOK, PipeInv, PipelineConsecutive, Floor
  <1>2. a < b + 4 /\ b < a + 4
    BY <1>1 DEF Live, TypeOK
  <1> QED
    BY <1>2, SlotDistinct

\* A thread inside a txg is inside a live one, later than the syncing one.
LEMMA HolderLive ==
  ASSUME TypeOK, PipeInv, HoldersNotQuiesced, NEW cl \in Clients, Inside(cl)
  PROVE  Live(th[cl].txg) /\ th[cl].txg # syncing /\ th[cl].txg >= TxgInit
  BY TxgInitAssumption
  DEF TypeOK, PipeInv, PipelineConsecutive, HoldersNotQuiesced, Live, Floor

\* Every step keeps the lists and the disk in agreement with what was written.
LEMMA DataStep ==
  ASSUME TypeOK, PipeInv, HoldersNotQuiesced, DataInv, CoreEffect, TypeOK'
  PROVE  DataInv'
  <1>1. CASE UNCHANGED <<open, synced, syncing, list, written, persisted>>
             /\ (spc' = "finish" => spc = "finish")
    BY <1>1 DEF DataInv, Live, Floor
  <1>2. CASE SyncConsume
    <2>1. syncing = 0 /\ Floor \in Nat /\ Floor' = Floor
      BY <1>2, TxgInitAssumption
      DEF SyncConsume, PipeInv, TypeOK, Floor
    <2>2. \A w \in persisted : w[2] <= Floor
      BY <2>1 DEF DataInv, TypeOK
    <2> QED
      BY <1>2, <2>1, <2>2 DEF SyncConsume, DataInv, Live
  <1>3. CASE SpaSyncDone
    BY <1>3 DEF SpaSyncDone, DataInv, Live, Floor
  <1>4. CASE SyncFinish
    <2>1. syncing # 0 /\ syncing = Floor + 1 /\ Floor' = syncing /\ Floor \in Int
      BY <1>4, TxgInitAssumption
      DEF SyncFinish, PipeInv, PipelineConsecutive, TypeOK, Floor
    <2>2. list[Slot(syncing)] = {} /\ UNCHANGED <<open, list, written, persisted>>
      BY <1>4 DEF SyncFinish, DataInv
    <2>3. \A t \in Nat : Live(t) /\ list[Slot(t)] # {} => Live(t)'
      BY <2>1, <2>2 DEF Live, TypeOK
    <2>4. \A w \in persisted : w[2] <= Floor'
      BY <2>1 DEF DataInv, TypeOK
    <2> QED
      BY <1>4, <2>2, <2>3, <2>4 DEF SyncFinish, DataInv, TypeOK
  <1>5. ASSUME NEW o \in Objs, SpaSyncObject(o) PROVE DataInv'
    <2> DEFINE g0 == Slot(syncing)
    <2>1. syncing # 0 /\ Live(syncing) /\ g0 \in Slots /\ syncing \in Nat
      BY <1>5, SlotType, TxgInitAssumption
      DEF SpaSyncObject, PipeInv, PipelineConsecutive, Live, Floor, TypeOK
    <2>2. <<o, syncing>> \in written \ persisted
      BY <1>5, <2>1, LiveSlots DEF SpaSyncObject, DataInv
    <2>3. /\ o \in list[g0]
          /\ list' = [list EXCEPT ![g0] = list[g0] \ {o}]
          /\ persisted' = persisted \cup {<<o, syncing>>}
          /\ UNCHANGED <<open, synced, syncing, written, spc>>
          /\ spc = "sync"
      BY <1>5 DEF SpaSyncObject
    <2>4. \A w \in written \ persisted' : w[1] \in list'[Slot(w[2])]
      <3> SUFFICES ASSUME NEW w \in written \ persisted'
                   PROVE  w[1] \in list'[Slot(w[2])]
        OBVIOUS
      <3>1. w \in Objs \X Nat /\ w[2] \in Nat /\ w = <<w[1], w[2]>>
        BY DEF TypeOK
      <3>2. w \in written \ persisted /\ w # <<o, syncing>>
        BY <2>3
      <3>3. Live(w[2]) /\ w[1] \in list[Slot(w[2])]
        BY <3>2 DEF DataInv
      <3>4. CASE Slot(w[2]) = g0
        <4>1. w[2] = syncing
          BY <3>1, <3>3, <3>4, <2>1, LiveSlots
        <4> QED
          BY <4>1, <3>1, <3>2, <3>3, <2>1, <2>3 DEF TypeOK
      <3>5. CASE Slot(w[2]) # g0
        BY <3>1, <3>3, <3>5, <2>1, <2>3, SlotType DEF TypeOK
      <3> QED
        BY <3>4, <3>5
    <2>5. \A g \in Slots : \A p \in list'[g] : \E t \in Nat :
            Live(t) /\ Slot(t) = g /\ <<p, t>> \in written \ persisted'
      <3> SUFFICES ASSUME NEW g \in Slots, NEW p \in list'[g]
                   PROVE  \E t \in Nat : /\ Live(t) /\ Slot(t) = g
                                         /\ <<p, t>> \in written \ persisted'
        OBVIOUS
      <3>1. p \in list[g] /\ ~(g = g0 /\ p = o)
        BY <2>1, <2>3 DEF TypeOK
      <3>2. PICK t \in Nat : Live(t) /\ Slot(t) = g /\ <<p, t>> \in written \ persisted
        BY <3>1 DEF DataInv
      <3>3. <<p, t>> # <<o, syncing>>
        BY <3>1, <3>2
      <3> QED
        BY <3>2, <3>3, <2>3
    <2>6. \A t : Live(t)' <=> Live(t)
      BY <2>3 DEF Live, Floor
    <2> QED
      BY <2>2, <2>3, <2>4, <2>5, <2>6 DEF DataInv, Floor
  <1>6. ASSUME NEW cl \in Clients, NEW o \in Objs, TxgListAdd(cl, o) PROVE DataInv'
    <2> DEFINE t0 == th[cl].txg
               g0 == Slot(t0)
    <2>1. Live(t0) /\ t0 # syncing /\ t0 >= TxgInit /\ t0 \in Nat /\ g0 \in Slots
      BY <1>6, HolderLive, SlotType DEF TxgListAdd, Inside, Counted, TypeOK
    <2>2. /\ list' = [list EXCEPT ![g0] = list[g0] \cup {o}]
          /\ written' = written \cup {<<o, t0>>}
          /\ persisted' = persisted \ {<<o, t0>>}
          /\ UNCHANGED <<open, synced, syncing, spc>>
      BY <1>6 DEF TxgListAdd
    <2>3. \A t : Live(t)' <=> Live(t)
      BY <2>2 DEF Live, Floor
    <2>4. \A w \in written' \ persisted' : Live(w[2]) /\ w[1] \in list'[Slot(w[2])]
      <3> SUFFICES ASSUME NEW w \in written' \ persisted'
                   PROVE  Live(w[2]) /\ w[1] \in list'[Slot(w[2])]
        OBVIOUS
      <3>1. w = <<o, t0>> \/ w \in written \ persisted
        BY <2>2
      <3>2. w[2] \in Nat /\ Slot(w[2]) \in Slots
        BY SlotType DEF TypeOK
      <3> QED
        BY <3>1, <3>2, <2>1, <2>2 DEF DataInv, TypeOK
    <2>5. \A g \in Slots : \A p \in list'[g] : \E t \in Nat :
            Live(t) /\ Slot(t) = g /\ <<p, t>> \in written' \ persisted'
      <3> SUFFICES ASSUME NEW g \in Slots, NEW p \in list'[g]
                   PROVE  \E t \in Nat : /\ Live(t) /\ Slot(t) = g
                                         /\ <<p, t>> \in written' \ persisted'
        OBVIOUS
      <3>1. p \in list[g] \/ (g = g0 /\ p = o)
        BY <2>1, <2>2 DEF TypeOK
      <3>2. CASE p \in list[g]
        <4>1. PICK t \in Nat : Live(t) /\ Slot(t) = g /\ <<p, t>> \in written \ persisted
          BY <3>2 DEF DataInv
        <4> QED
          BY <4>1, <2>2
      <3>3. CASE g = g0 /\ p = o
        BY <3>3, <2>1, <2>2
      <3> QED
        BY <3>1, <3>2, <3>3
    <2>6. spc = "finish" => list'[Slot(syncing)] = {}
      <3> SUFFICES ASSUME spc = "finish" PROVE list'[Slot(syncing)] = {}
        OBVIOUS
      <3>1. Live(syncing) /\ syncing \in Nat
        BY TxgInitAssumption DEF PipeInv, PipelineConsecutive, Live, Floor, TypeOK
      <3>2. Slot(syncing) # g0 /\ Slot(syncing) \in Slots
        BY <3>1, <2>1, LiveSlots, SlotType
      <3> QED
        BY <3>2, <2>1, <2>2 DEF DataInv, TypeOK
    <2>7. \A w \in written' : TxgInit <= w[2] /\ w[2] <= open
      BY <2>1, <2>2 DEF DataInv, Live
    <2> QED
      BY <2>2, <2>3, <2>4, <2>5, <2>6, <2>7 DEF DataInv, Floor
  <1>7. CASE QuiesceAdvance
    BY <1>7 DEF QuiesceAdvance, DataInv, Live, Floor, TypeOK
  <1>8. UNCHANGED core \/ ThreadMove \/ QuiesceBegin \/ QuiesceGrab
          \/ QuiesceDrained \/ QuiesceHandoff
          => /\ UNCHANGED <<open, synced, syncing, list, written, persisted>>
             /\ spc' = "finish" => spc = "finish"
    BY DEF core, ThreadMove, QuiesceBegin, QuiesceGrab, QuiesceDrained,
           QuiesceHandoff
  <1>9. ASSUME NEW cl \in Clients,
               \/ ClientMove(cl)
               \/ \E c \in Cpus : TxgHoldOpen(cl, c)
               \/ TxgHoldOpenCount(cl) \/ TxgReleToQuiesce(cl) \/ TxgReleToSync(cl)
        PROVE  /\ UNCHANGED <<open, synced, syncing, list, written, persisted>>
               /\ spc' = "finish" => spc = "finish"
    BY <1>9 DEF ClientMove, TxgHoldOpen, TxgHoldOpenCount, TxgReleToQuiesce,
                TxgReleToSync
  <1> QED
    BY <1>1, <1>2, <1>3, <1>4, <1>5, <1>6, <1>7, <1>8, <1>9 DEF CoreEffect

-----------------------------------------------------------------------------
(* The theorems. *)

\* txg_init() establishes the invariant.
LEMMA Initially == Init => IInv
  <1> SUFFICES ASSUME Init PROVE IInv
    OBVIOUS
  <1> USE NCPUAssumption, TxgInitAssumption, ClientsAssumption DEF Init
  <1>1. TypeOK /\ ThreadCount
    <2>1. wchan \in [Threads -> CvSet]
      BY CvTypes
    <2>2. /\ tcLock \in [Cpus -> Clients \cup {Quiesce, None}]
          /\ count \in [Cpus -> [Slots -> Nat]]
          /\ list \in [Slots -> SUBSET Objs]
      OBVIOUS
    <2>3. /\ cpc \in [Clients -> ClientLabels]
          /\ th \in [Clients -> [cpu : 0..NCPU, txg : Nat]]
          /\ want \in [Clients -> Nat]
      BY DEF ClientLabels
    <2>4. spc \in SyncLabels /\ qpc \in QuiesceLabels /\ qcpu \in 1..(NCPU + 1)
      BY DEF SyncLabels, QuiesceLabels
    <2>5. open \in Nat /\ threads \in 0..2 /\ syncLock \in Threads \cup {None}
      OBVIOUS
    <2>7. exiting \in BOOLEAN /\ writeWanted \in BOOLEAN /\ timeUp \in BOOLEAN
      BY Zenon
    <2>6. ThreadCount
      BY DEF ThreadCount
    <2> QED
      BY <2>1, <2>2, <2>3, <2>4, <2>5, <2>6, <2>7 DEF TypeOK
  <1>2. PipeInv
    BY DEF PipeInv, PipelineConsecutive, Floor
  <1>3. LockInv /\ HoldersNotQuiesced /\ LockPinsOpenTxg
    BY DEF LockInv, HoldersNotQuiesced, LockPinsOpenTxg, PinsOpenTxg, Inside,
           Counted
  <1>4. CountsExact
    <2>1. \A c \in Cpus, g \in Slots : HoldersOf(c, g) = {}
      BY DEF HoldersOf, Counted
    <2> QED
      BY <2>1, FS_EmptySet DEF CountsExact
  <1>5. DataInv
    BY DEF DataInv
  <1> QED
    BY <1>1, <1>2, <1>3, <1>4, <1>5 DEF IInv

\* Every step preserves the invariant.
LEMMA Inductive == IInv /\ [Next]_vars => IInv'
  BY TypeStep, Effect, PipeStep, LockStep, HolderStep, CountStep, DataStep
  DEF IInv

\* The invariant holds in every state of every behaviour of the engine.
THEOREM Invariance == Spec => []IInv
  BY Initially, Inductive, PTL DEF Spec

\* Type correctness: in particular tx_threads and the tc_counts never wrap
\* below 0, whatever the number of clients and CPUs.
THEOREM TypeCorrect == Spec => []TypeOK
  <1>1. IInv => TypeOK
    BY DEF IInv
  <1> QED
    BY <1>1, Invariance, PTL

\* At most one txg is in each stage of the pipeline and they are consecutive.
THEOREM PipelineCorrect == Spec => []PipelineConsecutive
  <1>1. IInv => PipelineConsecutive
    BY DEF IInv, PipeInv
  <1> QED
    BY <1>1, Invariance, PTL

\* No thread is inside a txg that has been handed to the sync thread.
THEOREM QuiesceCorrect == Spec => []HoldersNotQuiesced
  <1>1. IInv => HoldersNotQuiesced
    BY DEF IInv
  <1> QED
    BY <1>1, Invariance, PTL

\* A thread that still has its tc_lock is in the open txg.
THEOREM PinCorrect == Spec => []LockPinsOpenTxg
  <1>1. IInv => LockPinsOpenTxg
    BY DEF IInv
  <1> QED
    BY <1>1, Invariance, PTL

\* The tc_counts count the threads inside each txg, slot reuse included.
THEOREM CountsCorrect == Spec => []CountsExact
  <1>1. IInv => CountsExact
    BY DEF IInv
  <1> QED
    BY <1>1, Invariance, PTL

\* The invariant says what is on disk.
LEMMA DiskNow == IInv => DiskIsPrefix
  <1> SUFFICES ASSUME IInv PROVE DiskIsPrefix
    OBVIOUS
  <1>1. written \subseteq Objs \X Nat /\ Floor \in Int
    BY TxgInitAssumption DEF IInv, TypeOK, Floor
  <1>2. \A w \in written : w[2] <= Floor => w \in persisted /\ w[2] # syncing
    BY <1>1, TxgInitAssumption
    DEF IInv, PipeInv, PipelineConsecutive, DataInv, Live, TypeOK
  <1>3. \A w \in persisted : w \in written /\ (w[2] # syncing => w[2] <= Floor)
    BY DEF IInv, DataInv
  <1> QED
    BY <1>2, <1>3 DEF DiskIsPrefix

\* The disk is always a prefix of the history of txgs, plus the txg being
\* synced.
THEOREM DiskCorrect == Spec => []DiskIsPrefix
  BY DiskNow, Invariance, PTL

\* No txg starts or ends syncing while a thread has the pool suspended.
THEOREM SuspendCorrect == Spec => SuspendFreezes
  <1>1. ASSUME IInv, [Next]_vars
        PROVE  suspenders \cap suspenders' # {} => UNCHANGED <<syncing, synced>>
    <2>1. CoreEffect
      BY <1>1, Effect DEF IInv
    <2>2. SyncConsume \/ SyncFinish => suspenders = {}
      BY DEF SyncConsume, SyncFinish, NoReaders
    <2>3. UNCHANGED core \/ ThreadMove \/ SpaSyncDone \/ QuiesceBegin \/ QuiesceGrab
            \/ QuiesceAdvance \/ QuiesceDrained \/ QuiesceHandoff
            \/ (\E o \in Objs : SpaSyncObject(o))
            => UNCHANGED <<syncing, synced>>
      BY DEF core, ThreadMove, SpaSyncDone, QuiesceBegin, QuiesceGrab,
             QuiesceAdvance, QuiesceDrained, QuiesceHandoff, SpaSyncObject
    <2>4. ASSUME NEW cl \in Clients,
                 \/ ClientMove(cl)
                 \/ \E c \in Cpus : TxgHoldOpen(cl, c)
                 \/ TxgHoldOpenCount(cl) \/ TxgReleToQuiesce(cl)
                 \/ TxgReleToSync(cl)
                 \/ \E o \in Objs : TxgListAdd(cl, o)
          PROVE  UNCHANGED <<syncing, synced>>
      BY <2>4 DEF ClientMove, TxgHoldOpen, TxgHoldOpenCount, TxgReleToQuiesce,
                  TxgReleToSync, TxgListAdd
    <2> QED
      BY <2>1, <2>2, <2>3, <2>4 DEF CoreEffect
  <1> QED
    BY <1>1, Invariance, PTL DEF Spec, SuspendFreezes

-----------------------------------------------------------------------------
(* What the waits for a sync promise. *)

\* txg_sync_stop() is called when no other thread uses the pool.  It waits for
\* the open txg, and then everything is on disk.
StopInv ==
  \A cl \in Clients : cpc[cl] \in StopLabels =>
    /\ \A d \in Clients : d # cl => cpc[d] = "idle"
    /\ cpc[cl] = "stopsync" => \A w \in written : w[2] <= want[cl]
    /\ cpc[cl] # "stopsync" => written \subseteq persisted

\* Once tx_synced_txg has reached a txg, everything up to it is on disk.
LEMMA SyncedDurable ==
  ASSUME IInv, NEW cl \in Clients, IsSynced(cl), NEW w \in written, w[2] <= want[cl]
  PROVE  w \in persisted
  <1> SUFFICES ASSUME w \notin persisted PROVE FALSE
    OBVIOUS
  <1>1. Live(w[2]) /\ w[2] >= TxgInit
    BY DEF IInv, DataInv
  <1>2. w[2] \in Nat /\ want[cl] \in Nat /\ synced \in Nat /\ synced >= want[cl]
    BY DEF IInv, TypeOK, IsSynced
  <1> QED
    BY <1>1, <1>2, TxgInitAssumption DEF Live, Floor

\* the steps that leave alone what StopInv is about
KeepsStop == UNCHANGED <<cpc, want, written>> /\ persisted \subseteq persisted'

\* a step of a client that is neither idle nor stopping the engine
Works(cl) ==
  /\ cpc[cl] # "idle" /\ cpc[cl] \notin StopLabels
  /\ \E l : l \notin StopLabels /\ cpc' = [cpc EXCEPT ![cl] = l]
  /\ cpc[cl] = "waitsync" => IsSynced(cl)

\* The kernel threads do not touch the clients.
LEMMA ThreadsKeepStop == SyncThreadStep \/ SyncTimer \/ QuiesceThreadStep \/ TxgSyncStart => KeepsStop
  <1>1. SyncThreadStep => KeepsStop
    <2>1. SyncSleep \/ SyncProceed \/ SyncNeedsPrompt \/ SyncPrompt \/ SyncAwaitQuiesced
            \/ SyncTake \/ SyncBlocksOnSuspend \/ SyncConsume \/ SpaSyncDone \/ SyncFinish
            => KeepsStop
      BY DEF SyncSleep, SyncProceed, SyncNeedsPrompt, SyncPrompt, SyncAwaitQuiesced,
             SyncTake, SyncBlocksOnSuspend, SyncConsume, SpaSyncDone, SyncFinish, KeepsStop
    <2>2. SyncExit \/ (\E o \in Objs : SpaSyncObject(o)) => KeepsStop
      BY DEF SyncExit, ThreadExit, SpaSyncObject, KeepsStop
    <2> QED
      BY <2>1, <2>2 DEF SyncThreadStep
  <1>2. SyncTimer \/ TxgSyncStart => KeepsStop
    BY DEF SyncTimer, TxgSyncStart, KeepsStop
  <1>3. QuiesceThreadStep => KeepsStop
    BY DEF QuiesceThreadStep, QuiesceSleep, QuiesceExit, ThreadExit, QuiesceBegin, QuiesceGrab,
           QuiesceAdvance, QuiesceDrainWait, QuiesceDrained, QuiesceHandoff, KeepsStop
  <1> QED
    BY <1>1, <1>2, <1>3

\* Only txg_sync_stop() starts with the engine to itself.
LEMMA StartsWork ==
  ASSUME NEW cl \in Clients, StartWork(cl) \/ TxgSuspend(cl)
  PROVE  /\ cpc[cl] = "idle" /\ \A d \in Clients : cpc[d] \notin StopLabels
         /\ UNCHANGED <<written, persisted>>
         /\ \/ \E l \in ClientLabels \ StopLabels : l # "idle" /\ cpc' = [cpc EXCEPT ![cl] = l]
            \/ /\ \A d \in Clients : cpc[d] = "idle"
               /\ cpc' = [cpc EXCEPT ![cl] = "stopsync"] /\ want' = [want EXCEPT ![cl] = open]
  <1> USE DEF ClientLabels, StopLabels, MayStart, Goto
  <1>1. CASE TxgSuspend(cl)
    BY <1>1 DEF TxgSuspend
  <1>2. CASE \E c \in Cpus : TxgHoldOpen(cl, c)
    BY <1>2 DEF TxgHoldOpen
  <1>3. ASSUME NEW t, TxgWaitSynced(cl, t)
        PROVE  /\ MayStart(cl) /\ UNCHANGED <<written, persisted>>
               /\ cpc' = [cpc EXCEPT ![cl] = "waitsync"]
    BY <1>3 DEF TxgWaitSynced, WaitSyncedHead
  <1>4. ASSUME NEW t, TxgWaitOpen(cl, t)
        PROVE  /\ MayStart(cl) /\ UNCHANGED <<written, persisted>>
               /\ cpc' = [cpc EXCEPT ![cl] = "waitopen"]
    BY <1>4 DEF TxgWaitOpen
  <1>5. CASE TxgSyncStop(cl)
    BY <1>5 DEF TxgSyncStop, WaitSyncedHead
  <1> QED
    BY <1>1, <1>2, <1>3, <1>4, <1>5 DEF StartWork

\* What a client does that has started something.
LEMMA ClientWorks ==
  ASSUME NEW cl \in Clients, ClientStep(cl) \/ ClientChoice(cl)
  PROVE  \/ KeepsStop
         \/ Works(cl) /\ UNCHANGED <<written, persisted>>
         \/ cpc[cl] = "assigned" /\ cpc' = cpc /\ want' = want
         \/ /\ cpc[cl] = "stopsync" /\ IsSynced(cl) /\ cpc' = [cpc EXCEPT ![cl] = "stopping"]
            /\ UNCHANGED <<want, written, persisted>>
         \/ /\ cpc[cl] \in {"stopping", "exitwait"} /\ UNCHANGED <<want, written, persisted>>
            /\ \E l \in {"exitwait", "stopped"} : cpc' = [cpc EXCEPT ![cl] = l]
  <1> USE DEF Goto, StopLabels
  <1>1. CASE \/ TxgDelaySleep(cl) \/ TxgWaitSyncedSleep(cl) \/ TxgWaitOpenSleep(cl)
             \/ TxgSyncStopSleep(cl) \/ TxgSyncStopAgain(cl)
    BY <1>1 DEF TxgDelaySleep, TxgWaitSyncedSleep, WaitSyncedSleep, TxgWaitOpenSleep,
                TxgSyncStopSleep, TxgSyncStopAgain, KeepsStop
  <1>2. CASE TxgHoldOpenCount(cl) \/ TxgReleToQuiesce(cl)
    BY <1>2 DEF TxgHoldOpenCount, TxgReleToQuiesce, Works
  <1>3. CASE TxgReleToSync(cl) \/ TxgResume(cl)
    BY <1>3 DEF TxgReleToSync, TxgResume, Works
  <1>4. CASE TxgDelay(cl) \/ TxgDelayRecheck(cl)
    BY <1>4 DEF TxgDelay, TxgDelayRecheck, Works
  <1>5. CASE TxgDelayEnd(cl) \/ TxgDelayTimeout(cl)
    BY <1>5 DEF TxgDelayEnd, TxgDelayTimeout, Works
  <1>6. CASE TxgWaitSyncedReturn(cl) \/ TxgWaitOpenReturn(cl)
    BY <1>6 DEF TxgWaitSyncedReturn, WaitSyncedReturn, TxgWaitOpenReturn, Works
  <1>7. CASE \E o \in Objs : TxgListAdd(cl, o)
    BY <1>7 DEF TxgListAdd
  <1>8. CASE TxgSyncStopSynced(cl)
    BY <1>8 DEF TxgSyncStopSynced, WaitSyncedReturn
  <1>9. CASE TxgSyncStopExit(cl) \/ TxgSyncStopReturn(cl)
    BY <1>9 DEF TxgSyncStopExit, TxgSyncStopReturn
  <1> QED
    BY <1>1, <1>2, <1>3, <1>4, <1>5, <1>6, <1>7, <1>8, <1>9 DEF ClientStep, ClientChoice

\* Every step keeps what is known while the engine is being stopped.
LEMMA StopStep ==
  ASSUME IInv, StopInv, [Next]_vars
  PROVE  StopInv'
  <1>t. cpc \in [Clients -> ClientLabels] /\ want \in [Clients -> Nat]
    BY DEF IInv, TypeOK
  <1>1. CASE KeepsStop
    BY <1>1 DEF KeepsStop, StopInv
  <1>2. ASSUME NEW cl \in Clients, StartWork(cl) \/ TxgSuspend(cl)
        PROVE  StopInv'
    <2>1. CASE \E l \in ClientLabels \ StopLabels : l # "idle" /\ cpc' = [cpc EXCEPT ![cl] = l]
      <3>1. \A d \in Clients : cpc[d] \notin StopLabels
        BY <1>2, StartsWork
      <3>2. \A d \in Clients : cpc'[d] \notin StopLabels
        BY <1>t, <2>1, <3>1
      <3> QED
        BY <3>2 DEF StopInv
    <2>2. CASE /\ \A d \in Clients : cpc[d] = "idle"
               /\ cpc' = [cpc EXCEPT ![cl] = "stopsync"] /\ want' = [want EXCEPT ![cl] = open]
      <3>1. \A w \in written : w[2] <= open
        BY DEF IInv, DataInv
      <3>2. written' = written
        BY <1>2, StartsWork
      <3>3. \A d \in Clients : d # cl => cpc'[d] = "idle"
        BY <1>t, <2>2
      <3>4. cpc'[cl] = "stopsync" /\ want'[cl] = open
        BY <1>t, <2>2
      <3> QED
        BY <3>1, <3>2, <3>3, <3>4 DEF StopInv, StopLabels
    <2> QED
      BY <1>2, <2>1, <2>2, StartsWork
  <1>3. ASSUME NEW cl \in Clients, ClientStep(cl) \/ ClientChoice(cl)
        PROVE  StopInv'
    <2>1. CASE Works(cl) \/ (cpc[cl] = "assigned" /\ cpc' = cpc /\ want' = want)
      <3>1. cpc[cl] # "idle" /\ cpc[cl] \notin StopLabels
        BY <2>1 DEF Works, StopLabels
      <3>2. \A d \in Clients : cpc[d] \notin StopLabels
        BY <3>1 DEF StopInv
      <3>3. \A d \in Clients : cpc'[d] \notin StopLabels
        BY <1>t, <2>1, <3>2 DEF Works
      <3> QED
        BY <3>3 DEF StopInv
    <2>2. CASE /\ cpc[cl] = "stopsync" /\ IsSynced(cl) /\ cpc' = [cpc EXCEPT ![cl] = "stopping"]
               /\ UNCHANGED <<want, written, persisted>>
      <3>1. cpc[cl] \in StopLabels
        BY <2>2 DEF StopLabels
      <3>2. \A d \in Clients : d # cl => cpc'[d] = "idle"
        BY <1>t, <2>2, <3>1 DEF StopInv
      <3>3. \A w \in written : w \in persisted
        BY <2>2, <3>1, SyncedDurable DEF StopInv
      <3>4. cpc'[cl] = "stopping"
        BY <1>t, <2>2
      <3> QED
        BY <2>2, <3>2, <3>3, <3>4 DEF StopInv, StopLabels
    <2>3. CASE /\ cpc[cl] \in {"stopping", "exitwait"} /\ UNCHANGED <<want, written, persisted>>
               /\ \E l \in {"exitwait", "stopped"} : cpc' = [cpc EXCEPT ![cl] = l]
      <3>1. cpc[cl] \in StopLabels /\ cpc[cl] # "stopsync"
        BY <2>3 DEF StopLabels
      <3>2. \A d \in Clients : d # cl => cpc'[d] = "idle"
        BY <1>t, <2>3, <3>1 DEF StopInv
      <3>3. written \subseteq persisted
        BY <3>1 DEF StopInv
      <3>4. cpc'[cl] \in {"exitwait", "stopped"}
        BY <1>t, <2>3
      <3> QED
        BY <2>3, <3>2, <3>3, <3>4 DEF StopInv, StopLabels
    <2> QED
      BY <1>1, <1>3, <2>1, <2>2, <2>3, ClientWorks
  <1>4. CASE UNCHANGED vars
    BY <1>4 DEF vars, StopInv
  <1> QED
    BY <1>1, <1>2, <1>3, <1>4, ThreadsKeepStop DEF Next

\* A step that ends txg_wait_synced() finds the txg synced, and one after which
\* the engine is stopped finds everything on disk.
LEMMA WaitSyncedStep ==
  ASSUME IInv, StopInv, [Next]_vars, NEW cl \in Clients
  PROVE  /\ cpc[cl] = "waitsync" /\ cpc'[cl] = "idle" => IsSynced(cl)
         /\ cpc'[cl] = "stopped" => written \subseteq persisted
  <1>t. cpc \in [Clients -> ClientLabels]
    BY DEF IInv, TypeOK
  <1>s. cpc[cl] = "stopped" => written \subseteq persisted
    BY DEF StopInv, StopLabels
  <1>1. CASE cpc' = cpc
    BY <1>1, <1>s
  <1>2. ASSUME NEW d \in Clients, StartWork(d) \/ TxgSuspend(d)
        PROVE  /\ cpc[cl] = "waitsync" /\ cpc'[cl] = "idle" => IsSynced(cl)
               /\ cpc'[cl] = "stopped" => written \subseteq persisted
    BY <1>2, <1>t, <1>s, StartsWork DEF StopLabels
  <1>3. ASSUME NEW d \in Clients, ClientStep(d) \/ ClientChoice(d)
        PROVE  /\ cpc[cl] = "waitsync" /\ cpc'[cl] = "idle" => IsSynced(cl)
               /\ cpc'[cl] = "stopped" => written \subseteq persisted
    <2>1. CASE cpc' = cpc
      BY <1>1, <2>1
    <2>2. CASE Works(d)
      BY <1>t, <1>s, <2>2 DEF Works, StopLabels
    <2>3. CASE cpc[d] = "stopsync" /\ cpc' = [cpc EXCEPT ![d] = "stopping"]
      BY <1>t, <1>s, <2>3
    <2>4. CASE cpc[d] \in {"stopping", "exitwait"} /\ \E l \in {"exitwait", "stopped"} : cpc' = [cpc EXCEPT ![d] = l]
      <3>1. written \subseteq persisted
        BY <2>4 DEF StopInv, StopLabels
      <3> QED
        BY <1>t, <2>4, <3>1
    <2> QED
      BY <1>3, <2>1, <2>2, <2>3, <2>4, ClientWorks DEF KeepsStop
  <1>4. UNCHANGED vars \/ KeepsStop => cpc' = cpc
    BY DEF vars, KeepsStop
  <1> QED
    BY <1>1, <1>2, <1>3, <1>4, ThreadsKeepStop DEF Next

\* When txg_wait_synced() returns, what was dirtied up to its txg is on disk, and
\* when txg_sync_stop() returns everything is, and the lists are empty.
THEOREM WaitSyncedCorrect == Spec => WaitSyncedIsDurable
  <1>1. Init => StopInv
    BY DEF Init, StopInv, StopLabels
  <1>2. IInv /\ StopInv /\ [Next]_vars => StopInv'
    BY StopStep
  <1>3. IInv /\ StopInv /\ [Next]_vars =>
          \A cl \in Clients :
            /\ cpc[cl] = "waitsync" /\ cpc'[cl] = "idle" =>
                 \A w \in written : w[2] <= want[cl] => w \in persisted
            /\ cpc'[cl] = "stopped" =>
                 written \subseteq persisted /\ \A g \in Slots : list[g] = {}
    <2>1. IInv /\ written \subseteq persisted => \A g \in Slots : list[g] = {}
      BY DEF IInv, DataInv
    <2> QED
      BY <2>1, WaitSyncedStep, SyncedDurable
  <1> QED
    BY <1>1, <1>2, <1>3, Invariance, PTL DEF Spec, WaitSyncedIsDurable
=============================================================================

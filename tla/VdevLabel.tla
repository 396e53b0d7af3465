----------------------------- MODULE VdevLabel -----------------------------
(***************************************************************************)
(* How a txg is committed to the disks (uts/common/fs/zfs/vdev_label.c,    *)
(* and the end of spa_sync() in spa.c).  vdev_config_sync() flushes the    *)
(* data of the txg, writes the even labels of the top-level vdevs whose    *)
(* configuration is dirty, then the uberblock, then the odd labels.        *)
(* Writes of one of these steps reach the disks in any order, and each may *)
(* fail and leave what was there or something that its checksum tells to   *)
(* be invalid; the flush between two steps orders them.  The machine may   *)
(* go down at any point, and spa_load() starts from the best uberblock.    *)
(*                                                                         *)
(* A configuration is a value for each top-level vdev: what its leaves'    *)
(* labels describe.  An uberblock leads to the configuration in the MOS.   *)
(***************************************************************************)
EXTENDS Integers, FiniteSets

CONSTANTS Tops, Leaves, TopOf,  \* top-level vdevs, and their disks
          Logs,                 \* top-level vdevs with vdev_islog
          Visible,              \* those with vdev_ms_array # 0
          Configs,
          VDEV_LABELS,          \* 4: labels on a disk
          UbCount,              \* VDEV_UBERBLOCK_COUNT: slots in a label's ring
          SPA_DVAS_PER_BP,      \* 3: vdevs that get the uberblock of most txgs
          TxgInit

Labels == 0..(VDEV_LABELS - 1)
Slots == 0..(UbCount - 1)
LabelPlaces == Leaves \X Labels
UberblockPlaces == Leaves \X Labels \X Slots

ASSUME VdevsAssumption ==
  /\ TopOf \in [Leaves -> Tops] /\ \A v \in Tops : \E f \in Leaves : TopOf[f] = v
  /\ Logs \subseteq Tops /\ Visible \subseteq Tops /\ Visible # {}
ASSUME ConfigsAssumption == Configs # {}
ASSUME SizesAssumption == VDEV_LABELS \in Nat \ {0, 1} /\ UbCount \in Nat \ {0, 1}
ASSUME TxgInitAssumption == TxgInit \in Nat \ {0, 1}

VARIABLES
  txg,          \* the txg that is synced now or next
  config,       \* the configuration in core
  dirty,        \* spa_dirty_list
  ubsync,       \* spa_ubsync, as it was last written
  pc, svd,      \* vdev_config_sync(): position, argument
  pending, good,    \* writes in flight, and good_writes
  labels, ubs,  \* the disks: labels, and the rings of uberblocks in them
  stable,       \* txgs whose data is in stable storage
  stale         \* history: vdevs whose labels a crash left behind

disks == <<labels, ubs>>
vars == <<txg, config, dirty, ubsync, pc, svd, pending, good, disks, stable, stale>>

Uberblock(t, c) == [txg |-> t, config |-> c]
Uberblocks == [txg : Nat, config : [Tops -> Configs]]
Label(t, c) == [txg |-> t, config |-> c]
LabelSet == [txg : Nat, config : Configs]

\* what is not there or not valid
NoUberblock == Uberblock(0, CHOOSE c \in [Tops -> Configs] : TRUE)
NoLabel == Label(0, CHOOSE c \in Configs : TRUE)

OneSlot(t) == 0                                               \* mutant
Slot(t) == t % UbCount

-----------------------------------------------------------------------------
(* spa_load() *)

\* vdev_uberblock_load(), and vdev_uberblock_compare() by txg.  Vdevs that are
\* not visible may be missing in the configuration the pool is opened with.
VisiblePlaces == {p \in UberblockPlaces : TopOf[p[1]] \in Visible}
Found == {u \in {ubs[p] : p \in VisiblePlaces} : u.txg # 0}
Best == LET F == Found IN {u \in F : \A v \in F : v.txg <= u.txg}

\* A pool as it is created: all labels and an uberblock
Init ==
  /\ txg = TxgInit
  /\ config \in [Tops -> Configs]
  /\ ubsync = Uberblock(TxgInit - 1, config)
  /\ dirty = {} /\ svd = {} /\ pending = {} /\ good = {}
  /\ pc = "idle"
  /\ labels = [w \in LabelPlaces |-> Label(TxgInit - 1, config[TopOf[w[1]]])]
  /\ ubs = [p \in UberblockPlaces |->
              IF p[3] = Slot(TxgInit - 1) THEN ubsync ELSE NoUberblock]
  /\ stable = {TxgInit - 1}
  /\ stale = {}

-----------------------------------------------------------------------------
(* spa_sync() *)

\* vdev_config_dirty() of top-level vdevs, with or without a change of what their
\* labels say, under the config lock or by the sync thread
ConfigDirty(S) ==
  /\ pc = "idle"
  /\ \E c \in [Tops -> Configs] : (\A v \in Tops \ S : c[v] = config[v]) /\ config' = c
  /\ dirty' = dirty \cup S
  /\ UNCHANGED <<txg, ubsync, pc, svd, pending, good, disks, stable, stale>>

\* The txg changed nothing, and no uberblock is written for it
SyncNothing ==
  /\ pc = "idle" /\ dirty = {}
  /\ txg' = txg + 1
  /\ UNCHANGED <<config, dirty, ubsync, pc, svd, pending, good, disks, stable, stale>>

\* the vdevs for the uberblock: a few when no configuration changed
Candidates == Visible \ Logs
Few ==
  {S \in SUBSET Candidates :
     /\ S # {}
     /\ \/ Cardinality(S) = SPA_DVAS_PER_BP
        \/ Cardinality(S) < SPA_DVAS_PER_BP /\ S = Candidates}

StartSync ==
  /\ pc = "idle"
  /\ IF dirty = {} THEN svd' \in Few ELSE svd' = Tops
  /\ pc' = "flush"
  /\ UNCHANGED <<txg, config, dirty, ubsync, pending, good, disks, stable, stale>>

-----------------------------------------------------------------------------
(* vdev_config_sync() *)

\* the labels of one parity of the dirty vdevs, and all places of the uberblock
BothParities(p) == {w \in LabelPlaces : TopOf[w[1]] \in dirty}   \* mutant
LabelWrites(p) == {w \in LabelPlaces : TopOf[w[1]] \in dirty /\ w[2] % 2 = p}
UberblockWrites(S) == {w \in LabelPlaces : TopOf[w[1]] \in S}

Issue(W) == pending' = W /\ good' = {}

\* the write caches are flushed before the first label is written
NotFlushed == stable                                          \* mutant
Flushed == stable \cup {txg}

FlushData ==
  /\ pc = "flush"
  /\ stable' = Flushed
  /\ pc' = "even" /\ Issue(LabelWrites(0))
  /\ UNCHANGED <<txg, config, dirty, ubsync, svd, disks, stale>>

\* a write changes the disk to x at w
NewUberblock == Uberblock(txg, config)
NewLabel(w) == Label(txg, config[TopOf[w[1]]])
Place(w) == <<w[1], w[2], Slot(txg)>>
PutUberblock(w, u) == ubs' = [ubs EXCEPT ![Place(w)] = u] /\ UNCHANGED labels
PutLabel(w, x) == labels' = [labels EXCEPT ![w] = x] /\ UNCHANGED ubs

Writing == pc \in {"even", "uberblock", "odd"}

Write(w) ==
  /\ Writing /\ w \in pending
  /\ pending' = pending \ {w} /\ good' = good \cup {w}
  /\ IF pc = "uberblock" THEN PutUberblock(w, NewUberblock) ELSE PutLabel(w, NewLabel(w))
  /\ UNCHANGED <<txg, config, dirty, ubsync, pc, svd, stable, stale>>

\* a write fails, with nothing or only a part of it on the disk
WriteFailed(w) ==
  /\ Writing /\ w \in pending
  /\ pending' = pending \ {w}
  /\ \/ UNCHANGED disks
     \/ pc = "uberblock" /\ PutUberblock(w, NoUberblock)
     \/ pc # "uberblock" /\ PutLabel(w, NoLabel)
  /\ UNCHANGED <<txg, config, dirty, ubsync, pc, svd, good, stable, stale>>

\* vdev_label_sync_list(): a label of each dirty vdev, unless it is a log device
LabelsGood == \A v \in dirty \ Logs : \E w \in good : TopOf[w[1]] = v
\* vdev_uberblock_sync_list()
UberblockGood == \E w \in good : TopOf[w[1]] \in Visible

EvenDone ==
  /\ pc = "even" /\ pending = {}
  /\ IF LabelsGood THEN pc' = "uberblock" /\ Issue(UberblockWrites(svd))
     ELSE UNCHANGED pc /\ Issue(LabelWrites(0))
  /\ UNCHANGED <<txg, config, dirty, ubsync, svd, disks, stable, stale>>

UberblockDone ==
  /\ pc = "uberblock" /\ pending = {}
  /\ IF UberblockGood THEN pc' = "odd" /\ Issue(LabelWrites(1)) /\ UNCHANGED svd
     ELSE UNCHANGED pc /\ Issue(UberblockWrites(Tops)) /\ svd' = Tops
  /\ UNCHANGED <<txg, config, dirty, ubsync, disks, stable, stale>>

\* the end of vdev_config_sync() and of spa_sync()
OddDone ==
  /\ pc = "odd" /\ pending = {}
  /\ IF LabelsGood
     THEN /\ pc' = "idle" /\ Issue({}) /\ svd' = {}
          /\ ubsync' = NewUberblock /\ txg' = txg + 1 /\ dirty' = {}
          /\ stale' = stale \ dirty
     ELSE Issue(LabelWrites(1)) /\ UNCHANGED <<pc, svd, ubsync, txg, dirty, stale>>
  /\ UNCHANGED <<config, disks, stable>>

-----------------------------------------------------------------------------
(* The machine goes down, and spa_load() opens the pool again *)

SameTxg(u) == u.txg                                           \* mutant
FirstTxg(u) == u.txg + 1

\* the odd labels of dirty vdevs when the new uberblock was found, and all labels
\* when an older one was
LeftBehind(u) ==
  IF u.txg = ubsync.txg THEN {} ELSE IF u.txg < ubsync.txg THEN Tops ELSE dirty

Crash ==
  \E u \in Best :
    /\ ubsync' = u /\ config' = u.config /\ txg' = FirstTxg(u)
    /\ dirty' = {} /\ pc' = "idle" /\ svd' = {} /\ Issue({})
    /\ stable' = {t \in stable : t <= u.txg}
    /\ stale' = stale \cup LeftBehind(u)
    /\ UNCHANGED disks

SyncStep ==
  \/ StartSync \/ FlushData \/ EvenDone \/ UberblockDone \/ OddDone
  \/ \E w \in pending : Write(w)

Fail == \E w \in pending : WriteFailed(w)

Next ==
  \/ SyncStep \/ SyncNothing \/ Fail \/ Crash
  \/ \E S \in SUBSET Tops : ConfigDirty(S)

Spec == Init /\ [][Next]_vars

-----------------------------------------------------------------------------
(* Properties *)

TypeOK ==
  /\ txg \in Nat /\ config \in [Tops -> Configs]
  /\ ubsync \in Uberblocks /\ ubsync.txg # 0 /\ ubsync.txg < txg
  /\ dirty \subseteq Tops /\ svd \subseteq Tops
  /\ pc \in {"idle", "flush", "even", "uberblock", "odd"}
  /\ pending \subseteq LabelPlaces /\ good \subseteq LabelPlaces
  /\ labels \in [LabelPlaces -> LabelSet]
  /\ ubs \in [UberblockPlaces -> Uberblocks]
  /\ stable \subseteq Nat /\ stale \subseteq Tops

\* The last uberblock is being written over: since it, the txgs that changed
\* nothing have made up whole turns of the ring.  Torn writes of all its copies
\* lose it before the new one is there.
Overwriting == pc = "uberblock" /\ (txg - ubsync.txg) % UbCount = 0

\* "if the system panics or loses power at any time, the state on disk is still
\* transactionally consistent" (vdev_config_sync()): the pool can be opened, at
\* the last txg that was synced or at the one in progress, and nowhere else,
\* unless the last uberblock is being written over.
CommitSurvives ==
  ~Overwriting =>
    /\ Best # {}
    /\ \A u \in Best : u = ubsync \/ (u = NewUberblock /\ pc \in {"uberblock", "odd"})

\* All data of the txg a crash leads back to was flushed to stable storage before
\* its uberblock was written.
DataFirst == \A u \in Best : u.txg \in stable

\* A txg that a crash would have led to is never lost again, neither by failed
\* writes of a later uberblock nor by the crash itself, except by a failed write
\* over the last uberblock.
NeverBack ==
  [][Overwriting \/ \A u \in Best, v \in Best' : u.txg <= v.txg]_vars

\* Whenever the machine goes down, a label tells the configuration of the txg
\* that the crash leads back to: an odd one before the uberblock is written, and
\* an even one after it.  Vdevs whose labels were left behind by a crash are
\* excepted until they have been brought up to date, and so is a crash that finds
\* an older uberblock than the last one (see Overwriting).
LabelsMatch ==
  \A u \in Best : u.txg >= ubsync.txg =>
    \A v \in Tops \ (Logs \cup stale) :
      \E w \in LabelPlaces :
        /\ TopOf[w[1]] = v
        /\ labels[w].config = u.config[v] /\ labels[w].txg \in 1..u.txg
=============================================================================

-------------------------- MODULE VdevLabelProofs --------------------------
(***************************************************************************)
(* Proofs about VdevLabel, for all numbers of vdevs, labels and slots.     *)
(***************************************************************************)
EXTENDS VdevLabel, TLAPS

-----------------------------------------------------------------------------
(* Slots of the ring *)

\* A txg has a slot.
LEMMA SlotType == \A t \in Nat : Slot(t) \in Slots
  BY SizesAssumption, SMT DEF Slot, Slots

\* Txgs that are not whole turns of the ring apart are in different slots: this
\* keeps the last uberblock while the next one is written.
LEMMA SlotsDiffer ==
  ASSUME NEW a \in Nat, NEW b \in Nat, a < b, (b - a) % UbCount # 0
  PROVE  Slot(a) # Slot(b)
<1> DEFINE qa == a \div UbCount
           qb == b \div UbCount
           qd == (b - a) \div UbCount
           rd == (b - a) % UbCount
<1>1. /\ qa \in Int /\ a = UbCount * qa + Slot(a)
      /\ qb \in Int /\ b = UbCount * qb + Slot(b)
      /\ qd \in Int /\ b - a = UbCount * qd + rd /\ rd \in 1..(UbCount - 1)
  BY SizesAssumption, SMT DEF Slot
<1>2. SUFFICES ASSUME Slot(a) = Slot(b) PROVE FALSE
  OBVIOUS
<1>3. Slot(a) \in Int /\ UbCount \in Int /\ UbCount > 0
  BY SlotType, SizesAssumption DEF Slots
<1> HIDE DEF qa, qb, qd, rd
<1>4. PICK k \in Int : k = qb - qa - qd /\ UbCount * k = rd
  BY <1>1, <1>2, <1>3, SMT
<1>5. CASE k <= 0
  <2>1. UbCount * k <= 0
    BY <1>3, <1>5, SMT
  <2> QED
    BY <1>1, <1>4, <2>1, SMT
<1>6. CASE k >= 1
  <2>1. UbCount * k >= UbCount
    BY <1>3, <1>6, SMT
  <2> QED
    BY <1>1, <1>3, <1>4, <2>1, SMT
<1> QED
  BY <1>4, <1>5, <1>6, SMT

\* What stands for nothing has the types of the things.
LEMMA NothingType ==
  /\ NoUberblock \in Uberblocks /\ NoUberblock.txg = 0
  /\ NoLabel \in LabelSet /\ NoLabel.txg = 0
<1>1. (CHOOSE c \in Configs : TRUE) \in Configs
  BY ConfigsAssumption
<1>2. \E c : c \in [Tops -> Configs]
  <2>1. [v \in Tops |-> CHOOSE c \in Configs : TRUE] \in [Tops -> Configs]
    BY <1>1
  <2> QED
    BY <2>1
<1>3. (CHOOSE c \in [Tops -> Configs] : TRUE) \in [Tops -> Configs]
  BY <1>2
<1> QED
  BY <1>1, <1>3 DEF NoUberblock, NoLabel, Uberblock, Label, Uberblocks, LabelSet

-----------------------------------------------------------------------------
(* Types *)

\* What vdev_config_sync() is about to write has its type.
LEMMA NewType ==
  ASSUME TypeOK
  PROVE  /\ NewUberblock \in Uberblocks
         /\ \A w \in LabelPlaces : NewLabel(w) \in LabelSet
         /\ \A w \in LabelPlaces : Place(w) \in UberblockPlaces
  BY SlotType, VdevsAssumption
  DEF TypeOK, NewUberblock, NewLabel, Uberblock, Label, Uberblocks, LabelSet, LabelPlaces,
      Place, UberblockPlaces

\* An uberblock that can be found has its type and is that of some txg.
LEMMA FoundType ==
  ASSUME TypeOK
  PROVE  \A u \in Found : u \in Uberblocks /\ u.txg \in Nat /\ u.txg # 0
  BY DEF TypeOK, Found, VisiblePlaces, Uberblocks

\* The best uberblocks are some of those found.
LEMMA BestFound == \A u \in Best : u \in Found /\ \A v \in Found : v.txg <= u.txg
  BY DEF Best

LEMMA TypeInit == Init => TypeOK
<1> SUFFICES ASSUME Init PROVE TypeOK
  OBVIOUS
<1>1. ubsync \in Uberblocks /\ ubsync.txg = TxgInit - 1
  BY TxgInitAssumption DEF Init, Uberblock, Uberblocks
<1>2. labels \in [LabelPlaces -> LabelSet]
  BY TxgInitAssumption, VdevsAssumption DEF Init, Label, LabelSet, LabelPlaces
<1>3. ubs \in [UberblockPlaces -> Uberblocks]
  BY <1>1, NothingType DEF Init
<1> QED
  BY <1>1, <1>2, <1>3, TxgInitAssumption DEF Init, TypeOK

LEMMA TypeNext == TypeOK /\ [Next]_vars => TypeOK'
<1> SUFFICES ASSUME TypeOK, [Next]_vars PROVE TypeOK'
  OBVIOUS
<1>1. CASE StartSync
  BY <1>1, VdevsAssumption DEF StartSync, TypeOK, Few, Candidates, disks
<1>2. CASE FlushData
  BY <1>2 DEF FlushData, TypeOK, Flushed, Issue, LabelWrites, disks
<1>3. CASE EvenDone
  BY <1>3 DEF EvenDone, TypeOK, Issue, LabelWrites, UberblockWrites, disks
<1>4. CASE UberblockDone
  BY <1>4 DEF UberblockDone, TypeOK, Issue, LabelWrites, UberblockWrites, disks
<1>5. CASE OddDone
  <2>1. NewUberblock \in Uberblocks /\ NewUberblock.txg = txg
    BY NewType DEF NewUberblock, Uberblock
  <2>2. txg # 0
    BY DEF TypeOK, Uberblocks
  <2> QED
    BY <1>5, <2>1, <2>2 DEF OddDone, TypeOK, Issue, LabelWrites, disks
<1>6. ASSUME NEW w \in pending, Write(w) PROVE TypeOK'
  <2>1. w \in LabelPlaces
    BY DEF TypeOK
  <2>2. labels' \in [LabelPlaces -> LabelSet]
    BY <1>6, <2>1, NewType DEF Write, PutLabel, PutUberblock, TypeOK
  <2>3. ubs' \in [UberblockPlaces -> Uberblocks]
    BY <1>6, <2>1, NewType DEF Write, PutLabel, PutUberblock, TypeOK
  <2> QED
    BY <1>6, <2>1, <2>2, <2>3 DEF Write, TypeOK
<1>7. ASSUME NEW w \in pending, WriteFailed(w) PROVE TypeOK'
  <2>1. w \in LabelPlaces
    BY DEF TypeOK
  <2>2. labels' \in [LabelPlaces -> LabelSet]
    BY <1>7, <2>1, NothingType DEF WriteFailed, PutLabel, PutUberblock, TypeOK, disks
  <2>3. ubs' \in [UberblockPlaces -> Uberblocks]
    BY <1>7, <2>1, NothingType DEF WriteFailed, PutLabel, PutUberblock, TypeOK, disks
  <2> QED
    BY <1>7, <2>1, <2>2, <2>3 DEF WriteFailed, TypeOK
<1>8. CASE SyncNothing
  <2>1. ubsync.txg < txg + 1 /\ txg + 1 \in Nat
    BY DEF TypeOK, Uberblocks
  <2> QED
    BY <1>8, <2>1 DEF SyncNothing, TypeOK, disks
<1>9. CASE Crash
  <2>1. PICK u \in Best :
          /\ ubsync' = u /\ config' = u.config /\ txg' = u.txg + 1
          /\ dirty' = {} /\ pc' = "idle" /\ svd' = {} /\ pending' = {} /\ good' = {}
          /\ stable' = {t \in stable : t <= u.txg}
          /\ stale' = stale \cup LeftBehind(u)
          /\ UNCHANGED disks
    BY <1>9 DEF Crash, Issue, FirstTxg
  <2>2. u \in Uberblocks /\ u.txg \in Nat /\ u.txg # 0 /\ u.config \in [Tops -> Configs]
    BY <2>1, BestFound, FoundType DEF Uberblocks
  <2>3. ubsync'.txg < txg' /\ txg' \in Nat
    BY <2>1, <2>2
  <2>4. stable' \subseteq Nat /\ stale' \subseteq Tops
    BY <2>1 DEF TypeOK, LeftBehind
  <2> QED
    BY <2>1, <2>2, <2>3, <2>4 DEF TypeOK, disks
<1>10. ASSUME NEW S \in SUBSET Tops, ConfigDirty(S) PROVE TypeOK'
  BY <1>10 DEF ConfigDirty, TypeOK, disks
<1>11. CASE UNCHANGED vars
  BY <1>11 DEF vars, disks, TypeOK
<1> QED
  BY <1>1, <1>2, <1>3, <1>4, <1>5, <1>6, <1>7, <1>8, <1>9, <1>10, <1>11
  DEF Next, SyncStep, Fail

\* TypeOK holds in every state.
THEOREM TypeCorrect == Spec => []TypeOK
  BY TypeInit, TypeNext, PTL DEF Spec

-----------------------------------------------------------------------------
(* The inductive invariant *)

\* The uberblocks: each is in the slot of its txg; the last synced one can be
\* found unless it is being written over, and the only one newer than it is the
\* one being written, which is where a write was good; those of one txg are the
\* same.
Turned == (txg - ubsync.txg) % UbCount = 0
Ring ==
  /\ \A p \in UberblockPlaces : ubs[p].txg # 0 => p[3] = Slot(ubs[p].txg)
  /\ \/ pc \in {"uberblock", "odd"} /\ Turned
     \/ \E p \in VisiblePlaces : ubs[p] = ubsync
  /\ \A p, q \in VisiblePlaces :
       ubs[p].txg = ubs[q].txg /\ ubs[p].txg # 0 => ubs[p] = ubs[q]
  /\ \A p \in VisiblePlaces :
       /\ ubs[p].txg <= ubsync.txg \/ ubs[p] = NewUberblock
       /\ ubs[p].txg = ubsync.txg => ubs[p] = ubsync
       /\ ubs[p] = NewUberblock =>
            pc = "odd" \/ (pc = "uberblock" /\ <<p[1], p[2]>> \in good)
  /\ pc = "uberblock" => \A w \in good : ubs[Place(w)] = NewUberblock
  /\ pc = "odd" => \E p \in VisiblePlaces : ubs[p] = NewUberblock

\* The data of the txgs whose uberblocks can be found, and of the last synced one,
\* is stable, and that of the next one before anything else is written.
Stable ==
  /\ ubsync.txg \in stable
  /\ \A p \in VisiblePlaces : ubs[p].txg # 0 => ubs[p].txg \in stable
  /\ pc \in {"even", "uberblock", "odd"} => txg \in stable

\* The writes: each is done once, and those of labels are of dirty vdevs and of
\* the parity of the step.
Writes ==
  /\ pending \cap good = {}
  /\ pc = "even" => pending \cup good \subseteq LabelWrites(0)
  /\ pc = "odd" => pending \cup good \subseteq LabelWrites(1)
  /\ pc \in {"even", "odd"} => \A w \in good : labels[w] = NewLabel(w)

\* an odd label that tells the configuration of v in the last synced txg
OddLabel(v) ==
  \E w \in LabelPlaces :
    /\ TopOf[w[1]] = v /\ w[2] % 2 = 1
    /\ labels[w].config = ubsync.config[v] /\ labels[w].txg \in 1..ubsync.txg

\* an even label that tells the one in the txg being synced
EvenLabel(v) ==
  \E w \in LabelPlaces : TopOf[w[1]] = v /\ w[2] % 2 = 0 /\ labels[w] = NewLabel(w)

\* The labels: the odd ones are good until the uberblock is written, and the even
\* ones from then on.
Described ==
  /\ \A v \in Tops \ dirty : config[v] = ubsync.config[v]
  /\ \A v \in Tops \ (Logs \cup stale) : (pc = "odd" => v \notin dirty) => OddLabel(v)
  /\ pc \in {"uberblock", "odd"} => \A v \in dirty \ Logs : EvenLabel(v)

IInv == TypeOK /\ Ring /\ Stable /\ Writes /\ Described

-----------------------------------------------------------------------------
(* The uberblocks *)

\* Numbers that the steps below need.
LEMMA Numbers ==
  ASSUME TypeOK
  PROVE  /\ txg \in Nat /\ ubsync.txg \in Nat /\ ubsync.txg # 0 /\ ubsync.txg < txg
         /\ NewUberblock.txg = txg /\ NewUberblock.config = config
         /\ \A p \in UberblockPlaces : ubs[p].txg \in Nat
         /\ VisiblePlaces \subseteq UberblockPlaces
  BY DEF TypeOK, Uberblocks, NewUberblock, Uberblock, VisiblePlaces

\* An uberblock that can be found is no newer than the last synced one, or it is
\* the one being written.
LEMMA OldOrNew ==
  ASSUME TypeOK, Ring, NEW p \in VisiblePlaces
  PROVE  /\ ubs[p].txg \in Nat /\ ubs[p].txg <= txg
         /\ \/ ubs[p].txg <= ubsync.txg /\ ubs[p] # NewUberblock
            \/ ubs[p].txg = txg /\ ubs[p] = NewUberblock
         /\ ubs[p].txg = ubsync.txg => ubs[p] = ubsync
         /\ ubs[p] = NewUberblock =>
              pc = "odd" \/ (pc = "uberblock" /\ <<p[1], p[2]>> \in good)
<1>1. /\ ubs[p].txg <= ubsync.txg \/ ubs[p] = NewUberblock
      /\ ubs[p].txg = ubsync.txg => ubs[p] = ubsync
      /\ ubs[p] = NewUberblock =>
           pc = "odd" \/ (pc = "uberblock" /\ <<p[1], p[2]>> \in good)
  BY DEF Ring
<1>2. ubs[p].txg \in Nat
  BY Numbers
<1>3. CASE ubs[p] = NewUberblock
  <2>1. ubs[p].txg = txg
    BY <1>3, Numbers
  <2> QED
    BY <1>1, <1>2, <1>3, <2>1, Numbers
<1>4. CASE ubs[p] # NewUberblock
  <2>1. ubs[p].txg <= txg
    BY <1>1, <1>2, <1>4, Numbers
  <2> QED
    BY <1>1, <1>2, <1>4, <2>1
<1> QED
  BY <1>3, <1>4

\* Before the uberblock is written none is newer than the last synced one.
LEMMA NoneNewer ==
  ASSUME TypeOK, Ring, pc \notin {"uberblock", "odd"}
  PROVE  \A p \in VisiblePlaces : ubs[p].txg <= ubsync.txg
  BY DEF Ring

\* Unless it is being written over, the last synced uberblock is not where the
\* next one is written.
LEMMA KeepsLast ==
  ASSUME TypeOK, Ring, NEW w \in LabelPlaces, ~Turned
  PROVE  \E p \in VisiblePlaces : ubs[p] = ubsync /\ p # Place(w)
<1>1. PICK p \in VisiblePlaces : ubs[p] = ubsync
  BY DEF Ring
<1>2. p[3] = Slot(ubsync.txg)
  BY <1>1, Numbers DEF Ring
<1>3. Slot(ubsync.txg) # Slot(txg)
  BY Numbers, SlotsDiffer DEF Turned
<1>4. Place(w)[3] = Slot(txg)
  BY DEF Place
<1> QED
  BY <1>1, <1>2, <1>3, <1>4

\* The uberblocks of one txg stay the same when u is written at one place.
LEMMA SameStays ==
  ASSUME TypeOK, Ring, NEW x \in UberblockPlaces, NEW u,
         \A p \in UberblockPlaces : ubs'[p] = IF p = x THEN u ELSE ubs[p],
         u.txg # 0 => u = NewUberblock
  PROVE  \A p, q \in VisiblePlaces :
           ubs'[p].txg = ubs'[q].txg /\ ubs'[p].txg # 0 => ubs'[p] = ubs'[q]
<1> SUFFICES ASSUME NEW p \in VisiblePlaces, NEW q \in VisiblePlaces,
                    ubs'[p].txg = ubs'[q].txg, ubs'[p].txg # 0
             PROVE  ubs'[p] = ubs'[q]
  OBVIOUS
<1>0. p \in UberblockPlaces /\ q \in UberblockPlaces
  BY Numbers
<1>1. CASE p # x /\ q # x
  BY <1>0, <1>1 DEF Ring
<1>2. ASSUME NEW y \in VisiblePlaces, u = NewUberblock, ubs[y].txg = u.txg
      PROVE  ubs[y] = NewUberblock
  <2>1. ubs[y].txg = txg
    BY <1>2, Numbers
  <2>2. ubs[y].txg <= ubsync.txg \/ ubs[y] = NewUberblock
    BY OldOrNew
  <2> QED
    BY <2>1, <2>2, Numbers
<1>3. CASE p = x
  BY <1>0, <1>2, <1>3
<1>4. CASE q = x
  BY <1>0, <1>2, <1>4
<1> QED
  BY <1>1, <1>3, <1>4

LEMMA RingInit == Init => Ring
<1> SUFFICES ASSUME Init PROVE Ring
  OBVIOUS
<1>0. TypeOK
  BY TypeInit
<1>1. ubsync.txg = TxgInit - 1 /\ txg = TxgInit /\ pc = "idle"
  BY DEF Init, Uberblock
<1>2. \A p \in UberblockPlaces : (ubs[p] = ubsync /\ p[3] = Slot(TxgInit - 1)) \/ ubs[p] = NoUberblock
  BY DEF Init
<1>3. \E p \in VisiblePlaces : ubs[p] = ubsync
  <2>1. PICK f \in Leaves : TopOf[f] \in Visible
    BY VdevsAssumption
  <2>2. <<f, 0, Slot(TxgInit - 1)>> \in VisiblePlaces
    BY <2>1, SlotType, SizesAssumption, TxgInitAssumption DEF VisiblePlaces, UberblockPlaces, Labels
  <2>3. ubs[<<f, 0, Slot(TxgInit - 1)>>] = ubsync
    BY <2>2 DEF Init, VisiblePlaces
  <2> QED
    BY <2>2, <2>3
<1>4. NewUberblock.txg = TxgInit
  BY <1>1 DEF NewUberblock, Uberblock
<1> QED
  BY <1>0, <1>1, <1>2, <1>3, <1>4, Numbers, NothingType, TxgInitAssumption, SizesAssumption DEF Ring

LEMMA RingNext == TypeOK /\ Ring /\ Writes /\ [Next]_vars => Ring'
<1> SUFFICES ASSUME TypeOK, Ring, Writes, [Next]_vars PROVE Ring'
  OBVIOUS
<1> USE Numbers
<1>t. TypeOK'
  BY TypeNext
<1>v. VisiblePlaces' = VisiblePlaces
  BY DEF VisiblePlaces
<1>1. CASE StartSync
  BY <1>1, <1>v DEF StartSync, Ring, Turned, disks, NewUberblock, Place
<1>2. CASE FlushData
  BY <1>2, <1>v DEF FlushData, Ring, Turned, disks, NewUberblock, Place
<1>3. CASE EvenDone
  BY <1>3, <1>v DEF EvenDone, Issue, Ring, Turned, disks, NewUberblock, Place
<1>4. CASE UberblockDone
  <2>1. CASE UberblockGood
    <3>1. PICK w \in good : TopOf[w[1]] \in Visible
      BY <2>1 DEF UberblockGood
    <3>2. Place(w) \in VisiblePlaces /\ ubs[Place(w)] = NewUberblock
      BY <1>4, <3>1, NewType DEF UberblockDone, Ring, TypeOK, VisiblePlaces, Place
    <3> QED
      BY <1>4, <2>1, <3>2, <1>v DEF UberblockDone, Issue, Ring, Turned, disks, NewUberblock, Place
  <2>2. CASE ~UberblockGood
    <3>1. \A p \in VisiblePlaces : ubs[p] # NewUberblock
      BY <1>4, <2>2 DEF UberblockDone, UberblockGood, Ring, VisiblePlaces
    <3> QED
      BY <1>4, <2>2, <3>1, <1>v DEF UberblockDone, Issue, Ring, Turned, disks, NewUberblock, Place
  <2> QED
    BY <2>1, <2>2
<1>5. CASE OddDone
  <2>1. CASE LabelsGood
    <3>1. /\ ubsync' = NewUberblock /\ txg' = txg + 1 /\ pc' = "idle" /\ ubs' = ubs
          /\ ubsync'.txg = txg
      BY <1>5, <2>1 DEF OddDone, disks
    <3>2. NewUberblock'.txg = txg + 1
      BY <3>1 DEF NewUberblock, Uberblock
    <3>3. \E p \in VisiblePlaces : ubs[p] = NewUberblock
      BY <1>5 DEF OddDone, Ring
    <3>4. \A p \in VisiblePlaces :
            /\ ubs[p].txg <= txg
            /\ ubs[p].txg = txg => ubs[p] = NewUberblock
            /\ ubs[p] # NewUberblock'
      <4> SUFFICES ASSUME NEW p \in VisiblePlaces
                   PROVE  /\ ubs[p].txg <= txg
                          /\ ubs[p].txg = txg => ubs[p] = NewUberblock
                          /\ ubs[p] # NewUberblock'
        OBVIOUS
      <4>1. /\ ubs[p].txg \in Nat /\ ubs[p].txg <= txg
            /\ \/ ubs[p].txg <= ubsync.txg
               \/ ubs[p].txg = txg /\ ubs[p] = NewUberblock
        BY OldOrNew
      <4>2. ubs[p] # NewUberblock'
        <5>1. ubs[p].txg # txg + 1
          BY <4>1
        <5> QED
          BY <5>1, <3>2
      <4> QED
        BY <4>1, <4>2
    <3> QED
      BY <3>1, <3>3, <3>4, <1>v, SizesAssumption DEF Ring
  <2>2. CASE ~LabelsGood
    BY <1>5, <2>2, <1>v DEF OddDone, Issue, Ring, Turned, disks, NewUberblock, Place
  <2> QED
    BY <2>1, <2>2
<1>6. ASSUME NEW w \in pending, Write(w) PROVE Ring'
  <2>0. w \in LabelPlaces /\ Place(w) \in UberblockPlaces
    BY NewType DEF TypeOK
  <2>1. CASE pc = "uberblock"
    <3>1. /\ ubs' = [ubs EXCEPT ![Place(w)] = NewUberblock]
          /\ good' = good \cup {w} /\ UNCHANGED <<txg, config, ubsync, pc>>
      BY <1>6, <2>1 DEF Write, PutUberblock
    <3>2. NewUberblock' = NewUberblock /\ \A x : Place(x)' = Place(x)
      BY <3>1 DEF NewUberblock, Place
    <3>3. \A p \in UberblockPlaces : ubs'[p] = IF p = Place(w) THEN NewUberblock ELSE ubs[p]
      BY <3>1 DEF TypeOK
    <3>4. Turned \/ \E p \in VisiblePlaces : ubs'[p] = ubsync
      BY <2>0, <3>3, KeepsLast
    <3>s. \A p, q \in VisiblePlaces :
            ubs'[p].txg = ubs'[q].txg /\ ubs'[p].txg # 0 => ubs'[p] = ubs'[q]
      BY <2>0, <3>3, SameStays, NothingType
    <3>t. Turned' <=> Turned
      BY <3>1 DEF Turned
    <3>5. Place(w)[3] = Slot(txg) /\ <<Place(w)[1], Place(w)[2]>> = w
      BY <2>0 DEF Place, LabelPlaces
    <3>6. \A p \in UberblockPlaces : ubs'[p].txg # 0 => p[3] = Slot(ubs'[p].txg)
      BY <3>3, <3>5 DEF Ring
    <3>7. \A p \in VisiblePlaces :
            /\ ubs'[p].txg <= ubsync.txg \/ ubs'[p] = NewUberblock
            /\ ubs'[p].txg = ubsync.txg => ubs'[p] = ubsync
            /\ ubs'[p] = NewUberblock => <<p[1], p[2]>> \in good'
      <4> TAKE p \in VisiblePlaces
      <4>1. CASE p = Place(w)
        <5>1. ubs'[p] = NewUberblock /\ ubs'[p].txg = txg
          BY <3>3, <4>1
        <5> QED
          BY <3>1, <3>5, <4>1, <5>1
      <4>2. CASE p # Place(w)
        <5>1. ubs'[p] = ubs[p]
          BY <3>3, <4>2
        <5> QED
          BY <2>1, <3>1, <5>1, OldOrNew
      <4> QED
        BY <4>1, <4>2
    <3>8. \A x \in good' : ubs'[Place(x)] = NewUberblock
      BY <2>1, <3>1, <3>3, <2>0, NewType DEF Ring, TypeOK
    <3> QED
      BY <2>1, <3>1, <3>2, <3>4, <3>s, <3>t, <3>6, <3>7, <3>8, <1>v DEF Ring
  <2>2. CASE pc # "uberblock"
    BY <1>6, <2>2, <1>v DEF Write, PutLabel, Ring, Turned, NewUberblock, Place
  <2> QED
    BY <2>1, <2>2
<1>7. ASSUME NEW w \in pending, WriteFailed(w) PROVE Ring'
  <2>0. w \in LabelPlaces /\ Place(w) \in UberblockPlaces
    BY NewType DEF TypeOK
  <2>1. CASE ubs' = ubs
    BY <1>7, <2>1, <1>v DEF WriteFailed, Ring, Turned, NewUberblock, Place
  <2>2. CASE pc = "uberblock" /\ PutUberblock(w, NoUberblock)
    <3>1. /\ ubs' = [ubs EXCEPT ![Place(w)] = NoUberblock]
          /\ UNCHANGED <<txg, config, ubsync, pc, good>>
      BY <1>7, <2>2 DEF WriteFailed, PutUberblock
    <3>2. NewUberblock' = NewUberblock /\ \A x : Place(x)' = Place(x)
      BY <3>1 DEF NewUberblock, Place
    <3>3. \A p \in UberblockPlaces : ubs'[p] = IF p = Place(w) THEN NoUberblock ELSE ubs[p]
      BY <3>1 DEF TypeOK
    <3>4. Turned \/ \E p \in VisiblePlaces : ubs'[p] = ubsync
      BY <2>0, <3>3, KeepsLast
    <3>s. \A p, q \in VisiblePlaces :
            ubs'[p].txg = ubs'[q].txg /\ ubs'[p].txg # 0 => ubs'[p] = ubs'[q]
      BY <2>0, <3>3, SameStays, NothingType
    <3>t. Turned' <=> Turned
      BY <3>1 DEF Turned
    <3>6. \A p \in UberblockPlaces : ubs'[p].txg # 0 => p[3] = Slot(ubs'[p].txg)
      BY <3>3, NothingType DEF Ring
    <3>7. \A p \in VisiblePlaces :
            /\ ubs'[p].txg <= ubsync.txg \/ ubs'[p] = NewUberblock
            /\ ubs'[p].txg = ubsync.txg => ubs'[p] = ubsync
            /\ ubs'[p] = NewUberblock => <<p[1], p[2]>> \in good
      <4> TAKE p \in VisiblePlaces
      <4>1. CASE p = Place(w)
        <5>1. ubs'[p] = NoUberblock /\ ubs'[p].txg = 0
          BY <3>3, <4>1, NothingType
        <5>2. NewUberblock # NoUberblock
          BY NothingType
        <5> QED
          BY <5>1, <5>2
      <4>2. CASE p # Place(w)
        <5>1. ubs'[p] = ubs[p]
          BY <3>3, <4>2
        <5> QED
          BY <2>2, <5>1, OldOrNew
      <4> QED
        BY <4>1, <4>2
    <3>8. ASSUME NEW x \in good PROVE ubs'[Place(x)] = NewUberblock
      <4>1. x # w /\ x \in LabelPlaces
        BY DEF Writes, TypeOK
      <4>2. Place(x) # Place(w) /\ Place(x) \in UberblockPlaces
        BY <4>1, <2>0, NewType DEF Place, LabelPlaces
      <4> QED
        BY <2>2, <3>3, <4>2 DEF Ring
    <3> QED
      BY <2>2, <3>1, <3>2, <3>4, <3>s, <3>t, <3>6, <3>7, <3>8, <1>v DEF Ring
  <2> QED
    BY <1>7, <2>1, <2>2 DEF WriteFailed, PutLabel, disks
<1>8. CASE SyncNothing
  <2>1. /\ txg' = txg + 1 /\ ubs' = ubs /\ ubsync' = ubsync /\ pc' = pc /\ pc = "idle"
    BY <1>8 DEF SyncNothing, disks
  <2>2. NewUberblock'.txg = txg + 1
    BY <2>1 DEF NewUberblock, Uberblock
  <2>3. \A p \in VisiblePlaces : ubs[p].txg <= ubsync.txg /\ ubs[p] # NewUberblock'
    BY <2>1, <2>2, NoneNewer
  <2> QED
    BY <2>1, <2>3, <1>v DEF Ring
<1>9. CASE Crash
  <2>1. PICK u \in Best : ubsync' = u /\ txg' = u.txg + 1 /\ pc' = "idle" /\ ubs' = ubs
    BY <1>9 DEF Crash, FirstTxg, disks
  <2>2. u \in Found /\ u.txg \in Nat /\ u.txg # 0 /\ \A v \in Found : v.txg <= u.txg
    BY <2>1, BestFound, FoundType
  <2>3. PICK q \in VisiblePlaces : ubs[q] = u
    BY <2>2 DEF Found
  <2>4. \A p \in VisiblePlaces : ubs[p].txg <= u.txg
    BY <2>2 DEF Found
  <2>6. \A p \in VisiblePlaces : ubs[p].txg = u.txg => ubs[p] = u
    BY <2>2, <2>3 DEF Ring
  <2>7. NewUberblock'.txg = u.txg + 1
    BY <2>1 DEF NewUberblock, Uberblock
  <2>8. \A p \in VisiblePlaces : ubs[p] # NewUberblock'
    BY <2>2, <2>4, <2>7
  <2> QED
    BY <2>1, <2>2, <2>3, <2>4, <2>6, <2>8, <1>v, SizesAssumption DEF Ring
<1>10. ASSUME NEW S \in SUBSET Tops, ConfigDirty(S) PROVE Ring'
  <2>1. txg' = txg /\ ubs' = ubs /\ ubsync' = ubsync /\ pc' = pc /\ pc = "idle"
    BY <1>10 DEF ConfigDirty, disks
  <2>2. NewUberblock'.txg = txg
    BY <2>1 DEF NewUberblock, Uberblock
  <2>3. \A p \in VisiblePlaces : ubs[p].txg <= ubsync.txg /\ ubs[p] # NewUberblock'
    BY <2>1, <2>2, NoneNewer
  <2> QED
    BY <2>1, <2>3, <1>v DEF Ring
<1>11. CASE UNCHANGED vars
  BY <1>11, <1>v DEF vars, disks, Ring, Turned, NewUberblock, Place
<1> QED
  BY <1>1, <1>2, <1>3, <1>4, <1>5, <1>6, <1>7, <1>8, <1>9, <1>10, <1>11
  DEF Next, SyncStep, Fail

\* What a crash leads back to.
LEMMA BestIs ==
  ASSUME TypeOK, Ring, NEW u \in Best
  PROVE  \/ u.txg < ubsync.txg
         \/ u = ubsync /\ pc # "odd"
         \/ u = NewUberblock /\ pc \in {"uberblock", "odd"}
<1>1. u \in Found /\ \A v \in Found : v.txg <= u.txg
  BY BestFound
<1>2. PICK p \in VisiblePlaces : ubs[p] = u
  BY <1>1 DEF Found
<1>3. /\ u.txg \in Nat
      /\ u.txg <= ubsync.txg \/ (u.txg = txg /\ u = NewUberblock)
      /\ u.txg = ubsync.txg => u = ubsync
      /\ u = NewUberblock => pc \in {"uberblock", "odd"}
  BY <1>2, OldOrNew
<1>4. ASSUME pc = "odd" PROVE ubsync.txg < u.txg
  <2>1. PICK q \in VisiblePlaces : ubs[q] = NewUberblock
    BY <1>4 DEF Ring
  <2>2. NewUberblock \in Found
    BY <2>1, Numbers DEF Found
  <2> QED
    BY <1>1, <1>3, <2>2, Numbers
<1> QED
  BY <1>3, <1>4, Numbers

\* A crash leads back to the last synced txg at least, unless its uberblock is
\* being written over.
LEMMA BestLast ==
  ASSUME TypeOK, Ring, ~Overwriting
  PROVE  Best # {} /\ \A u \in Best : ubsync.txg <= u.txg
<1>1. ASSUME NEW v \in Found
      PROVE  v.txg \in Nat /\ (v.txg <= ubsync.txg \/ v = NewUberblock)
  <2>1. PICK p \in VisiblePlaces : ubs[p] = v
    BY <1>1 DEF Found
  <2> QED
    BY <2>1, OldOrNew
<1>2. CASE NewUberblock \in Found
  <2>1. \A v \in Found : v.txg <= NewUberblock.txg
    BY <1>1, Numbers
  <2>2. NewUberblock \in Best
    BY <1>2, <2>1 DEF Best
  <2>3. ASSUME NEW u \in Best PROVE ubsync.txg <= u.txg
    <3>1. u \in Found /\ txg <= u.txg
      BY <1>2, BestFound, Numbers
    <3> QED
      BY <3>1, <1>1, Numbers
  <2> QED
    BY <2>2, <2>3
<1>3. CASE NewUberblock \notin Found
  <2>1. pc # "odd"
    <3> SUFFICES ASSUME pc = "odd" PROVE FALSE
      OBVIOUS
    <3>1. PICK p \in VisiblePlaces : ubs[p] = NewUberblock
      BY DEF Ring
    <3> QED
      BY <1>3, <3>1, Numbers DEF Found
  <2>2. ubsync \in Found
    <3>1. PICK q \in VisiblePlaces : ubs[q] = ubsync
      BY <2>1 DEF Ring, Overwriting, Turned
    <3> QED
      BY <3>1, Numbers DEF Found
  <2>3. \A v \in Found : v.txg <= ubsync.txg
    BY <1>1, <1>3
  <2>4. ubsync \in Best
    BY <2>2, <2>3 DEF Best
  <2> QED
    BY <2>2, <2>4, BestFound
<1> QED
  BY <1>2, <1>3

-----------------------------------------------------------------------------
(* The data, and the writes *)

LEMMA StableNext == TypeOK /\ Ring /\ Stable /\ [Next]_vars => Stable'
<1> SUFFICES ASSUME TypeOK, Ring, Stable, [Next]_vars PROVE Stable'
  OBVIOUS
<1>v. VisiblePlaces' = VisiblePlaces
  BY DEF VisiblePlaces
<1>u. ASSUME UNCHANGED <<ubs, ubsync, txg, stable>>,
             pc' \in {"even", "uberblock", "odd"} => pc \in {"even", "uberblock", "odd"}
      PROVE  Stable'
  BY <1>u, <1>v DEF Stable
<1>1. CASE StartSync
  BY <1>1, <1>u DEF StartSync, disks
<1>2. CASE FlushData
  BY <1>2, <1>v DEF FlushData, Stable, Flushed, disks
<1>3. CASE EvenDone
  BY <1>3, <1>u DEF EvenDone, disks
<1>4. CASE UberblockDone
  BY <1>4, <1>u DEF UberblockDone, disks
<1>5. CASE OddDone
  <2>1. NewUberblock.txg = txg /\ txg \in stable
    BY <1>5, Numbers DEF OddDone, Stable
  <2> QED
    BY <1>5, <2>1, <1>v DEF OddDone, Stable, disks
<1>6. ASSUME NEW w \in pending, Write(w) PROVE Stable'
  <2>1. UNCHANGED <<ubsync, txg, stable, pc>> /\ txg \in stable
    BY <1>6 DEF Write, Writing, Stable
  <2>2. \A p \in VisiblePlaces : ubs'[p] = ubs[p] \/ ubs'[p] = NewUberblock
    BY <1>6, Numbers DEF Write, PutUberblock, PutLabel, TypeOK
  <2> QED
    BY <2>1, <2>2, <1>v, Numbers DEF Stable
<1>7. ASSUME NEW w \in pending, WriteFailed(w) PROVE Stable'
  <2>1. UNCHANGED <<ubsync, txg, stable, pc>>
    BY <1>7 DEF WriteFailed
  <2>2. \A p \in VisiblePlaces : ubs'[p] = ubs[p] \/ ubs'[p] = NoUberblock
    BY <1>7, Numbers DEF WriteFailed, PutUberblock, PutLabel, TypeOK, disks
  <2> QED
    BY <2>1, <2>2, <1>v, NothingType DEF Stable
<1>8. CASE SyncNothing
  BY <1>8, <1>v DEF SyncNothing, Stable, disks
<1>9. CASE Crash
  <2>1. PICK u \in Best :
          ubsync' = u /\ pc' = "idle" /\ stable' = {t \in stable : t <= u.txg} /\ ubs' = ubs
    BY <1>9 DEF Crash, disks
  <2>2. u \in Found /\ u.txg \in Nat /\ \A v \in Found : v.txg <= u.txg
    BY <2>1, BestFound, FoundType
  <2>3. \A v \in Found : v.txg \in stable
    BY DEF Found, Stable
  <2>4. \A p \in VisiblePlaces : ubs[p].txg # 0 => ubs[p].txg \in stable'
    BY <2>1, <2>2, <2>3 DEF Found
  <2> QED
    BY <2>1, <2>2, <2>3, <2>4, <1>v DEF Stable
<1>10. ASSUME NEW S \in SUBSET Tops, ConfigDirty(S) PROVE Stable'
  BY <1>10, <1>u DEF ConfigDirty, disks
<1>11. CASE UNCHANGED vars
  BY <1>11, <1>u DEF vars, disks
<1> QED
  BY <1>1, <1>2, <1>3, <1>4, <1>5, <1>6, <1>7, <1>8, <1>9, <1>10, <1>11
  DEF Next, SyncStep, Fail

LEMMA WritesNext == TypeOK /\ Writes /\ [Next]_vars => Writes'
<1> SUFFICES ASSUME TypeOK, Writes, [Next]_vars PROVE Writes'
  OBVIOUS
<1>1. CASE StartSync
  BY <1>1 DEF StartSync, Writes, LabelWrites, NewLabel, disks
<1>2. CASE FlushData
  BY <1>2 DEF FlushData, Issue, Writes, LabelWrites, NewLabel, disks
<1>3. CASE EvenDone
  BY <1>3 DEF EvenDone, Issue, Writes, LabelWrites, NewLabel, disks
<1>4. CASE UberblockDone
  BY <1>4 DEF UberblockDone, Issue, Writes, LabelWrites, NewLabel, disks
<1>5. CASE OddDone
  BY <1>5 DEF OddDone, Issue, Writes, LabelWrites, NewLabel, disks
<1>6. ASSUME NEW w \in pending, Write(w) PROVE Writes'
  <2>1. /\ pending' = pending \ {w} /\ good' = good \cup {w}
        /\ UNCHANGED <<txg, config, dirty, pc>>
    BY <1>6 DEF Write
  <2>2. /\ \A x : NewLabel(x)' = NewLabel(x)
        /\ LabelWrites(0)' = LabelWrites(0) /\ LabelWrites(1)' = LabelWrites(1)
    BY <2>1 DEF NewLabel, LabelWrites
  <2>3. pc \in {"even", "odd"} => \A x \in good' : labels'[x] = NewLabel(x)
    BY <1>6, <2>1 DEF Write, PutLabel, Writes, TypeOK
  <2> QED
    BY <2>1, <2>2, <2>3 DEF Writes
<1>7. ASSUME NEW w \in pending, WriteFailed(w) PROVE Writes'
  <2>1. pending' = pending \ {w} /\ good' = good /\ UNCHANGED <<txg, config, dirty, pc>>
    BY <1>7 DEF WriteFailed
  <2>2. /\ \A x : NewLabel(x)' = NewLabel(x)
        /\ LabelWrites(0)' = LabelWrites(0) /\ LabelWrites(1)' = LabelWrites(1)
    BY <2>1 DEF NewLabel, LabelWrites
  <2>3. ASSUME pc \in {"even", "odd"}, NEW x \in good PROVE labels'[x] = NewLabel(x)
    <3>1. x # w /\ labels[x] = NewLabel(x)
      BY <2>3 DEF Writes
    <3> QED
      BY <1>7, <2>3, <3>1 DEF WriteFailed, PutLabel, TypeOK, disks
  <2> QED
    BY <2>1, <2>2, <2>3 DEF Writes
<1>8. CASE SyncNothing
  BY <1>8 DEF SyncNothing, Writes
<1>9. CASE Crash
  BY <1>9 DEF Crash, Issue, Writes
<1>10. ASSUME NEW S \in SUBSET Tops, ConfigDirty(S) PROVE Writes'
  BY <1>10 DEF ConfigDirty, Writes
<1>11. CASE UNCHANGED vars
  BY <1>11 DEF vars, disks, Writes, LabelWrites, NewLabel
<1> QED
  BY <1>1, <1>2, <1>3, <1>4, <1>5, <1>6, <1>7, <1>8, <1>9, <1>10, <1>11
  DEF Next, SyncStep, Fail

-----------------------------------------------------------------------------
(* The labels *)

LEMMA LabelTypes ==
  ASSUME TypeOK
  PROVE  /\ \A w \in LabelPlaces : labels[w].txg \in Nat
         /\ \A w : NewLabel(w).txg = txg /\ NewLabel(w).config = config[TopOf[w[1]]]
  BY DEF TypeOK, LabelSet, NewLabel, Label

\* An odd label stays when the label at another place is written.
LEMMA OddKept ==
  ASSUME NEW v, NEW w, OddLabel(v), ubsync' = ubsync,
         ~(TopOf[w[1]] = v /\ w[2] % 2 = 1),
         \A x \in LabelPlaces : x # w => labels'[x] = labels[x]
  PROVE  OddLabel(v)'
  BY DEF OddLabel

\* An even label stays when an odd one is written.
LEMMA EvenKept ==
  ASSUME NEW v, NEW w, EvenLabel(v), UNCHANGED <<txg, config>>, w[2] % 2 = 1,
         \A x \in LabelPlaces : x # w => labels'[x] = labels[x]
  PROVE  EvenLabel(v)'
<1>1. PICK x \in LabelPlaces : TopOf[x[1]] = v /\ x[2] % 2 = 0 /\ labels[x] = NewLabel(x)
  BY DEF EvenLabel
<1>2. x # w
  BY <1>1
<1> QED
  BY <1>1, <1>2 DEF EvenLabel, NewLabel

\* Labels are not written outside Write and WriteFailed.
LEMMA SameLabels ==
  ASSUME UNCHANGED <<txg, config, dirty, ubsync, labels, stale>>, Described,
         pc' = "odd" => pc \in {"uberblock", "odd"},
         pc' = "uberblock" => pc = "uberblock",
         pc = "odd" => pc' = "odd"
  PROVE  Described'
  BY DEF Described, OddLabel, EvenLabel, NewLabel

\* A label of the step's parity of a dirty vdev is written, well or not.
LEMMA LabelWritten ==
  ASSUME TypeOK, Writes, Described, NEW w \in pending, pc \in {"even", "odd"},
         \A y \in LabelPlaces : y # w => labels'[y] = labels[y],
         UNCHANGED <<txg, config, dirty, ubsync, stale, pc>>
  PROVE  Described'
<1>2. /\ TopOf[w[1]] \in dirty
      /\ pc = "even" => w[2] % 2 = 0
      /\ pc = "odd" => w[2] % 2 = 1
  BY DEF Writes, LabelWrites
<1>3. ASSUME NEW v \in Tops \ (Logs \cup stale), pc = "odd" => v \notin dirty PROVE OddLabel(v)'
  <2>1. OddLabel(v)
    BY <1>3 DEF Described
  <2>2. ~(TopOf[w[1]] = v /\ w[2] % 2 = 1)
    BY <1>2, <1>3
  <2> QED
    BY <2>1, <2>2, OddKept
<1>4. ASSUME pc = "odd", NEW v \in dirty \ Logs PROVE EvenLabel(v)'
  <2>1. EvenLabel(v)
    BY <1>4 DEF Described
  <2> QED
    BY <1>2, <1>4, <2>1, EvenKept
<1> QED
  BY <1>3, <1>4 DEF Described

\* What the labels said of the last synced txg they say of the next one, of the
\* vdevs that are not dirty.
LEMMA CleanVdev ==
  ASSUME TypeOK, Described, NEW v \in Tops \ (Logs \cup stale \cup dirty)
  PROVE  \E w \in LabelPlaces :
           /\ TopOf[w[1]] = v /\ w[2] % 2 = 1
           /\ labels[w].config = config[v] /\ labels[w].txg \in 1..txg
<1>1. OddLabel(v) /\ config[v] = ubsync.config[v]
  BY DEF Described
<1>2. PICK w \in LabelPlaces :
        /\ TopOf[w[1]] = v /\ w[2] % 2 = 1
        /\ labels[w].config = ubsync.config[v] /\ labels[w].txg \in 1..ubsync.txg
  BY <1>1 DEF OddLabel
<1>3. labels[w].txg \in 1..txg
  BY <1>2, Numbers, LabelTypes
<1> QED
  BY <1>1, <1>2, <1>3

LEMMA DescribedInit == Init => Described
<1> SUFFICES ASSUME Init PROVE Described
  OBVIOUS
<1>1. ubsync.config = config /\ ubsync.txg = TxgInit - 1 /\ pc = "idle"
  BY DEF Init, Uberblock
<1>2. ASSUME NEW v \in Tops PROVE OddLabel(v)
  <2>1. PICK f \in Leaves : TopOf[f] = v
    BY VdevsAssumption
  <2>2. <<f, 1>> \in LabelPlaces
    BY SizesAssumption DEF LabelPlaces, Labels
  <2>3. labels[<<f, 1>>] = Label(TxgInit - 1, config[v])
    BY <2>1, <2>2 DEF Init
  <2>4. TxgInit - 1 \in 1..(TxgInit - 1)
    BY TxgInitAssumption
  <2> QED
    BY <1>1, <2>1, <2>2, <2>3, <2>4 DEF OddLabel, Label
<1> QED
  BY <1>1, <1>2 DEF Described

LEMMA DescribedNext ==
  TypeOK /\ Ring /\ Writes /\ Described /\ [Next]_vars => Described'
<1> SUFFICES ASSUME TypeOK, Ring, Writes, Described, [Next]_vars PROVE Described'
  OBVIOUS
<1>1. CASE StartSync
  BY <1>1, SameLabels DEF StartSync, disks
<1>2. CASE FlushData
  BY <1>2, SameLabels DEF FlushData, disks
<1>3. CASE EvenDone
  <2>1. CASE LabelsGood
    <3>1. UNCHANGED <<txg, config, dirty, ubsync, labels, stale>> /\ pc = "even" /\ pc' = "uberblock"
      BY <1>3, <2>1 DEF EvenDone, disks
    <3>2. ASSUME NEW v \in dirty \ Logs PROVE EvenLabel(v)
      BY <2>1, <3>1 DEF LabelsGood, Writes, LabelWrites, EvenLabel
    <3> QED
      BY <3>1, <3>2 DEF Described, OddLabel, EvenLabel, NewLabel
  <2>2. CASE ~LabelsGood
    BY <1>3, <2>2, SameLabels DEF EvenDone, disks
  <2> QED
    BY <2>1, <2>2
<1>4. CASE UberblockDone
  BY <1>4, SameLabels DEF UberblockDone, disks
<1>5. CASE OddDone
  <2>1. CASE LabelsGood
    <3>1. /\ pc = "odd" /\ pc' = "idle" /\ ubsync' = NewUberblock /\ dirty' = {}
          /\ stale' = stale \ dirty /\ UNCHANGED <<config, labels>>
      BY <1>5, <2>1 DEF OddDone, disks
    <3>2. ubsync'.config = config /\ ubsync'.txg = txg
      BY <3>1, Numbers
    <3>3. ASSUME NEW v \in Tops \ (Logs \cup stale') PROVE OddLabel(v)'
      <4>1. CASE v \in dirty
        <5>1. PICK w \in good : TopOf[w[1]] = v
          BY <2>1, <3>3, <4>1 DEF LabelsGood
        <5>2. w \in LabelPlaces /\ w[2] % 2 = 1 /\ labels[w] = NewLabel(w)
          BY <3>1 DEF Writes, LabelWrites
        <5>3. labels[w].config = config[v] /\ labels[w].txg \in 1..txg
          BY <5>1, <5>2, LabelTypes, Numbers
        <5> QED
          BY <3>1, <3>2, <5>1, <5>2, <5>3 DEF OddLabel
      <4>2. CASE v \notin dirty
        BY <3>1, <3>2, <3>3, <4>2, CleanVdev DEF OddLabel
      <4> QED
        BY <4>1, <4>2
    <3> QED
      BY <3>1, <3>2, <3>3 DEF Described
  <2>2. CASE ~LabelsGood
    BY <1>5, <2>2, SameLabels DEF OddDone, disks
  <2> QED
    BY <2>1, <2>2
<1>6. ASSUME NEW w \in pending, Write(w) PROVE Described'
  <2>1. CASE pc = "uberblock"
    BY <1>6, <2>1, SameLabels DEF Write, PutUberblock
  <2>2. CASE pc # "uberblock"
    <3>1. /\ pc \in {"even", "odd"} /\ \A y \in LabelPlaces : y # w => labels'[y] = labels[y]
          /\ UNCHANGED <<txg, config, dirty, ubsync, stale, pc>>
      BY <1>6, <2>2 DEF Write, Writing, PutLabel, TypeOK
    <3> QED
      BY <3>1, LabelWritten
  <2> QED
    BY <2>1, <2>2
<1>7. ASSUME NEW w \in pending, WriteFailed(w) PROVE Described'
  <2>1. CASE labels' = labels
    <3>1. UNCHANGED <<txg, config, dirty, ubsync, labels, stale>> /\ pc' = pc
      BY <1>7, <2>1 DEF WriteFailed
    <3> QED
      BY <3>1, SameLabels
  <2>2. CASE pc # "uberblock" /\ PutLabel(w, NoLabel)
    <3>1. /\ pc \in {"even", "odd"} /\ \A y \in LabelPlaces : y # w => labels'[y] = labels[y]
          /\ UNCHANGED <<txg, config, dirty, ubsync, stale, pc>>
      BY <1>7, <2>2 DEF WriteFailed, Writing, PutLabel, TypeOK
    <3> QED
      BY <3>1, LabelWritten
  <2> QED
    BY <1>7, <2>1, <2>2 DEF WriteFailed, PutUberblock, disks
<1>8. CASE SyncNothing
  BY <1>8 DEF SyncNothing, disks, Described, OddLabel
<1>9. CASE Crash
  <2>1. PICK u \in Best :
          /\ ubsync' = u /\ config' = u.config /\ dirty' = {} /\ pc' = "idle"
          /\ stale' = stale \cup LeftBehind(u) /\ labels' = labels
    BY <1>9 DEF Crash, disks
  <2>2. CASE u = ubsync /\ pc # "odd"
    BY <2>1, <2>2 DEF Described, OddLabel, LeftBehind
  <2>3. CASE u = NewUberblock
    <3>1. u.txg = txg /\ u.config = config /\ u.txg # ubsync.txg /\ ~(u.txg < ubsync.txg)
      BY <2>3, Numbers
    <3>2. ASSUME NEW v \in Tops \ (Logs \cup stale') PROVE OddLabel(v)'
      BY <2>1, <3>1, <3>2, CleanVdev DEF OddLabel, LeftBehind
    <3> QED
      BY <2>1, <3>1, <3>2 DEF Described
  <2>4. CASE u.txg < ubsync.txg
    <3>1. u.txg # ubsync.txg
      BY <2>1, <2>4, BestFound, FoundType, Numbers
    <3>2. Tops \subseteq stale'
      BY <2>1, <2>4, <3>1 DEF LeftBehind
    <3> QED
      BY <2>1, <3>2 DEF Described
  <2> QED
    BY <2>1, <2>2, <2>3, <2>4, BestIs
<1>10. ASSUME NEW S \in SUBSET Tops, ConfigDirty(S) PROVE Described'
  BY <1>10 DEF ConfigDirty, disks, Described, OddLabel
<1>11. CASE UNCHANGED vars
  BY <1>11, SameLabels DEF vars, disks
<1> QED
  BY <1>1, <1>2, <1>3, <1>4, <1>5, <1>6, <1>7, <1>8, <1>9, <1>10, <1>11
  DEF Next, SyncStep, Fail

-----------------------------------------------------------------------------
(* Theorems *)

LEMMA InvInit == Init => IInv
<1> SUFFICES ASSUME Init PROVE IInv
  OBVIOUS
<1>1. Writes
  BY DEF Init, Writes
<1>2. Stable
  <2>1. ubsync.txg = TxgInit - 1 /\ stable = {TxgInit - 1} /\ pc = "idle"
    BY DEF Init, Uberblock
  <2>2. \A p \in VisiblePlaces : ubs[p] = ubsync \/ ubs[p] = NoUberblock
    BY DEF Init, VisiblePlaces
  <2> QED
    BY <2>1, <2>2, NothingType DEF Stable
<1> QED
  BY <1>1, <1>2, TypeInit, RingInit, DescribedInit DEF IInv

LEMMA InvNext == IInv /\ [Next]_vars => IInv'
  BY TypeNext, RingNext, StableNext, WritesNext, DescribedNext DEF IInv

\* The inductive invariant holds in every state.
THEOREM InvCorrect == Spec => []IInv
  BY InvInit, InvNext, PTL DEF Spec

\* Whenever the machine goes down, the pool can be opened, at the last synced txg
\* or at the one in progress, unless idle txgs have turned the ring and the last
\* uberblock is being written over.
THEOREM CommitCorrect == Spec => []CommitSurvives
<1>1. IInv => CommitSurvives
  <2> SUFFICES ASSUME IInv, ~Overwriting
               PROVE  /\ Best # {}
                      /\ \A u \in Best :
                           u = ubsync \/ (u = NewUberblock /\ pc \in {"uberblock", "odd"})
    BY DEF CommitSurvives
  <2>1. Best # {} /\ \A u \in Best : ubsync.txg <= u.txg
    BY BestLast DEF IInv
  <2>2. ASSUME NEW u \in Best
        PROVE  u = ubsync \/ (u = NewUberblock /\ pc \in {"uberblock", "odd"})
    <3>1. ~(u.txg < ubsync.txg)
      BY <2>1, BestFound, FoundType, Numbers DEF IInv
    <3> QED
      BY <3>1, BestIs DEF IInv
  <2> QED
    BY <2>1, <2>2
<1> QED
  BY <1>1, InvCorrect, PTL

\* The data of the txg that a crash leads back to is in stable storage.
THEOREM DataCorrect == Spec => []DataFirst
<1>1. IInv => DataFirst
  BY DEF IInv, DataFirst, Stable, Best, Found
<1> QED
  BY <1>1, InvCorrect, PTL

\* The labels tell the configuration of the txg that a crash leads back to.
THEOREM LabelsCorrect == Spec => []LabelsMatch
<1>1. IInv => LabelsMatch
  <2> SUFFICES ASSUME IInv, NEW u \in Best, u.txg >= ubsync.txg,
                      NEW v \in Tops \ (Logs \cup stale)
               PROVE  \E w \in LabelPlaces :
                        /\ TopOf[w[1]] = v
                        /\ labels[w].config = u.config[v] /\ labels[w].txg \in 1..u.txg
    BY DEF LabelsMatch
  <2> USE DEF IInv
  <2>1. CASE u = ubsync /\ pc # "odd"
    BY <2>1 DEF Described, OddLabel
  <2>2. CASE u = NewUberblock /\ pc \in {"uberblock", "odd"}
    <3>1. u.txg = txg /\ u.config = config
      BY <2>2, Numbers
    <3>2. CASE v \in dirty
      <4>1. PICK w \in LabelPlaces : TopOf[w[1]] = v /\ labels[w] = NewLabel(w)
        BY <2>2, <3>2 DEF Described, EvenLabel
      <4> QED
        BY <3>1, <4>1, LabelTypes, Numbers
    <3>3. CASE v \notin dirty
      BY <3>1, <3>3, CleanVdev
    <3> QED
      BY <3>2, <3>3
  <2>3. ~(u.txg < ubsync.txg)
    BY BestFound, FoundType, Numbers
  <2> QED
    BY <2>1, <2>2, <2>3, BestIs
<1> QED
  BY <1>1, InvCorrect, PTL

\* A step leaves an uberblock at least as new as the best one before it, unless
\* the last one is being written over.
LEMMA StaysFound ==
  ASSUME IInv, [Next]_vars, NEW u \in Best, ~Overwriting
  PROVE  \E p \in VisiblePlaces : ubs'[p].txg \in Nat /\ u.txg <= ubs'[p].txg /\ ubs'[p].txg # 0
<1> USE DEF IInv
<1>0. u \in Found /\ u.txg \in Nat /\ u.txg # 0
  BY BestFound, FoundType
<1>1. PICK q \in VisiblePlaces : ubs[q] = u
  BY <1>0 DEF Found
<1>2. CASE ubs' = ubs
  BY <1>0, <1>1, <1>2
<1>3. ASSUME NEW w \in pending, pc = "uberblock", PutUberblock(w, NewUberblock)
      PROVE  ubs'[q].txg \in Nat /\ u.txg <= ubs'[q].txg /\ ubs'[q].txg # 0
  <2>1. ubs'[q] = ubs[q] \/ ubs'[q] = NewUberblock
    BY <1>3, Numbers DEF PutUberblock, TypeOK
  <2>2. u.txg <= txg
    BY <1>1, OldOrNew
  <2> QED
    BY <1>0, <1>1, <2>1, <2>2, Numbers
<1>4. ASSUME NEW w \in pending, pc = "uberblock", PutUberblock(w, NoUberblock)
      PROVE  \E p \in VisiblePlaces : ubs'[p] = u
  <2>0. w \in LabelPlaces
    BY DEF TypeOK
  <2>1. \A p \in UberblockPlaces : p # Place(w) => ubs'[p] = ubs[p]
    BY <1>4 DEF PutUberblock, TypeOK
  <2>2. CASE u = ubsync
    BY <1>4, <2>0, <2>1, <2>2, KeepsLast, Numbers DEF Overwriting, Turned
  <2>3. CASE u = NewUberblock
    <3>1. <<q[1], q[2]>> \in good
      BY <1>1, <1>4, <2>3, OldOrNew
    <3>2. <<Place(w)[1], Place(w)[2]>> = w /\ w \notin good
      BY <2>0 DEF Place, LabelPlaces, Writes
    <3> QED
      BY <1>1, <2>1, <3>1, <3>2, Numbers
  <2>4. ~(u.txg < ubsync.txg)
    BY <1>0, BestLast, Numbers
  <2> QED
    BY <2>2, <2>3, <2>4, BestIs
<1>5. \/ ubs' = ubs
      \/ \E w \in pending : pc = "uberblock" /\ PutUberblock(w, NewUberblock)
      \/ \E w \in pending : pc = "uberblock" /\ PutUberblock(w, NoUberblock)
  BY DEF Next, SyncStep, Fail, StartSync, FlushData, EvenDone, UberblockDone, OddDone, Write,
         WriteFailed, PutLabel, SyncNothing, Crash, ConfigDirty, vars, disks
<1> QED
  BY <1>0, <1>2, <1>3, <1>4, <1>5

\* The txg that a crash leads back to never goes back, except by a failed write
\* over the last uberblock.
THEOREM NeverBackCorrect == Spec => NeverBack
<1>1. IInv /\ [Next]_vars => [Overwriting \/ \A u \in Best, v \in Best' : u.txg <= v.txg]_vars
  <2> SUFFICES ASSUME IInv, [Next]_vars, ~Overwriting, NEW u \in Best, NEW v \in Best'
               PROVE  u.txg <= v.txg
    OBVIOUS
  <2>1. PICK p \in VisiblePlaces :
          ubs'[p].txg \in Nat /\ u.txg <= ubs'[p].txg /\ ubs'[p].txg # 0
    BY StaysFound
  <2>2. ubs'[p] \in Found'
    BY <2>1 DEF Found, VisiblePlaces
  <2>3. ubs'[p].txg <= v.txg
    BY <2>2 DEF Best
  <2>4. v.txg \in Nat /\ u.txg \in Nat
    <3>1. TypeOK /\ TypeOK'
      BY TypeNext DEF IInv
    <3>2. \A x \in Found' : x.txg \in Nat
      BY <3>1 DEF TypeOK, Found, VisiblePlaces, Uberblocks
    <3> QED
      BY <3>1, <3>2, BestFound, FoundType DEF Best
  <2> QED
    BY <2>1, <2>3, <2>4
<1> QED
  BY <1>1, InvCorrect, PTL DEF Spec, NeverBack
=============================================================================

-------------------------- MODULE ZilReplayProofs --------------------------
(***************************************************************************)
(* Proofs about ZilReplay, for logs of any size.                           *)
(***************************************************************************)
EXTENDS ZilReplay, TLAPS

-----------------------------------------------------------------------------
(* The inductive invariant *)

Ops == {"apply", "drop", "alloc", "free", "own", "disown", "ds",
        "claimEnd", "destroyEnd"}
Headers ==
  [log : {"chain", "fresh", "hole"}, claimTxg : Nat, claimSeq : Nat, replaySeq : Nat]
Replaying == {"next", "assign", "vector", "waitopen", "waitsync"}
Labels ==
  Replaying \cup {"import", "claimed", "start", "keep", "destroy", "destroyed", "mounted"}

Has(o, n, t) == <<<<o, n>>, t>> \in dirtied

\* r was not in the last txg before the first crash, and is replayed by txg t
New(r) == lrTxg[r] >= TxgInit
Done(r, t) == \E u \in Nat : TxgInit <= u /\ u <= t /\ Has("apply", r, u)

\* the txg that the header in memory is about
Upto == IF synced THEN floor + 1 ELSE floor
Ended == pc \in {"destroyed", "mounted"}

TypeInv ==
  /\ dirtied \subseteq (Ops \X Nat) \X Nat
  /\ lrTxg \in [Recs -> Nat] /\ birth \in [Blocks -> Nat] /\ birth[1] < TxgInit
  /\ \A r, s \in Indirect : DataOf[r] = DataOf[s] => lrTxg[r] = lrTxg[s]
  /\ readable \in 0..NBlocks
  /\ open \in Nat /\ floor \in Nat
  /\ zh \in Headers /\ zhDisk \in Headers /\ synced \in BOOLEAN
  /\ zlReplaySeq \in [0..(TXG_SIZE - 1) -> Nat]
  /\ zlDestroyTxg \in Nat /\ zlKeepFirst \in BOOLEAN /\ zlStopReplay \in BOOLEAN
  /\ pc \in Labels /\ until \in Nat /\ cur \in Nat /\ rtxg \in Nat

\* The engine: what is dirtied is in live txgs or durable, and the txg that is
\* being synced does not change any more.
EngineInv ==
  /\ TxgInit - 1 <= floor /\ floor < open /\ open <= floor + 3
  /\ durable = {x \in dirtied : x[2] <= floor}
  /\ \A x \in dirtied : x[2] <= open
  /\ holders = IF pc = "vector" THEN {<<"replay", rtxg>>} ELSE {}
  /\ pc = "vector" => floor < rtxg /\ rtxg <= open
  /\ synced => floor + 1 < open
  /\ pc = "import" =>
       /\ open = floor + 1 /\ ~synced /\ zh = zhDisk /\ zlReplaySeq = NoReplay
       /\ \A x \in dirtied : x[2] <= floor

\* The headers in memory and on disk, and where the mount is.
HeaderInv ==
  /\ zhDisk.log = "chain" =>
       IF zhDisk.claimTxg = 0 THEN floor = TxgInit - 1 /\ zhDisk.replaySeq = 0
       ELSE floor >= TxgInit /\ zhDisk.claimTxg = TxgInit
  /\ zh.log = "chain" => zhDisk.log = "chain" /\ (pc # "import" => zh.claimTxg = TxgInit)
  /\ ~synced => zh.log = zhDisk.log
  /\ pc = "claimed" => until >= TxgInit
  /\ pc \in Replaying \cup {"start", "destroy"} =>
       zh.log = "chain" /\ readable > 0 /\ floor >= TxgInit
  /\ pc = "keep" => Readable = 0
  /\ ~Ended => zlDestroyTxg = TXG_SIZE - 1
  /\ Ended /\ zh.log = "chain" =>
       /\ Upto < zlDestroyTxg /\ zlDestroyTxg <= open
       /\ Has("ds", 0, zlDestroyTxg)

\* Each record is applied once, by the crashed system or by the replay.
AppliesInv ==
  /\ \A r, t \in Nat : Has("apply", r, t) =>
       r \in Recs /\ (IF New(r) THEN TxgInit <= t ELSE t = lrTxg[r])
  /\ \A r \in Recs : ~New(r) => Has("apply", r, lrTxg[r])
  /\ \A r, t, u \in Nat : Has("apply", r, t) /\ Has("apply", r, u) => t = u

\* zh_replay_seq on disk and in memory, and zl_replay_seq of the live txgs, tell
\* what is replayed.
SeqInv ==
  /\ zhDisk.log = "chain" =>
       \A r \in Recs : New(r) => (r <= zhDisk.replaySeq <=> Done(r, floor))
  /\ zh.log = "chain" =>
       \A r \in Recs : New(r) => (r <= zh.replaySeq <=> Done(r, Upto))
  /\ zh.log = "chain" =>
       \A t \in Nat : floor < t /\ t <= open /\ Dirtied(t) /\ t # zlDestroyTxg =>
         \A r \in Recs : New(r) => (r <= zlReplaySeq[Slot(t)] <=> Done(r, t))

\* The loop of the replay: what comes before cur is done, what comes after it is
\* not, unless the header knows.
LoopInv ==
  /\ pc \in {"import", "claimed", "start"} => \A r, t \in Nat : Has("apply", r, t) => t <= floor
  /\ pc \in Replaying \cup {"destroy"} =>
       \A r \in Recs : New(r) =>
         /\ Done(r, open) /\ cur <= r => r <= zh.replaySeq
         /\ r \in ParsedRecs /\ r < cur => Done(r, open)
  /\ pc \in Replaying \ {"next"} =>
       cur \in ParsedRecs /\ New(cur) /\ ~Done(cur, open) /\ ~zlStopReplay
  /\ pc = "destroy" =>
       \A r \in ParsedRecs : New(r) /\ ~zlStopReplay => Done(r, open)

\* What a claimed log may free is allocated, but for the data of the block that the
\* claim ended at.
ClaimedOK(h) ==
  h.log = "chain" /\ h.claimTxg # 0 =>
    /\ 1 <= h.claimSeq /\ h.claimSeq <= NBlocks + 1
    /\ Has("claimEnd", h.claimSeq, TxgInit)
    /\ \A b \in Blocks : b <= h.claimSeq => \E u \in Nat : u <= TxgInit /\ Has("alloc", b, u)
    /\ \A r \in Indirect :
         New(r) /\ BlockOf[r] < h.claimSeq => Has("own", DataOf[r], TxgInit)

\* the claim has ended at the block of a record that refers to data block n
AtEnd(n, t) ==
  \E r \in Indirect : n = DataOf[r] /\ \E u \in Nat : u <= t /\ Has("claimEnd", BlockOf[r], u)

ClaimInv ==
  /\ ClaimedOK(zh) /\ ClaimedOK(zhDisk)
  /\ zh.log # "hole" /\ zh.claimTxg = 0 => zh.claimSeq = 0
  /\ zhDisk.log # "hole" /\ zhDisk.claimTxg = 0 => zhDisk.claimSeq = 0
  /\ \A b \in Blocks : birth[b] < TxgInit => Has("alloc", b, birth[b])
  /\ \A n, t \in Nat : Has("alloc", n, t) => n \in Blocks
  /\ \A n, t \in Nat : Has("own", n, t) =>
       /\ t = TxgInit
       /\ \E r \in Indirect :
            /\ n = DataOf[r] /\ New(r)
            /\ \A c, u \in Nat : Has("claimEnd", c, u) => BlockOf[r] < c
  /\ \A n, t \in Nat : Has("claimEnd", n, t) => t = TxgInit
  /\ \A n, m, t, u \in Nat : Has("claimEnd", n, t) /\ Has("claimEnd", m, u) => n = m
  /\ \A n, t \in Nat : Has("free", n, t) => \E u \in Nat : u <= t /\ Has("alloc", n, u)
  /\ \A n, t \in Nat : Has("disown", n, t) =>
       (\E u \in Nat : u <= t /\ Has("own", n, u)) \/ AtEnd(n, t)

\* The log is given up in one txg, which its header is written in.
Ending == {"free", "disown", "drop", "destroyEnd"}

FreeInv ==
  /\ zh.log = "chain" =>
       \A o \in Ending : \A n, t \in Nat : Has(o, n, t) => Ended /\ t = zlDestroyTxg
  /\ zhDisk.log = "chain" =>
       \A o \in Ending : \A n, t \in Nat : Has(o, n, t) => floor < t
  /\ \A o, p \in {"free", "disown"} : \A n, m, t, u \in Nat :
       Has(o, n, t) /\ Has(p, m, u) => t = u
  /\ \A n, t \in Nat : Has("drop", n, t) => n \in Recs

\* By txg t every record is in the file system or given up.
GoneBy(t) ==
  \A r \in Recs : \E u \in Nat : u <= t /\ (Has("apply", r, u) \/ Has("drop", r, u))

\* Txg t frees what a claim up to block c and a destruction that can read n blocks
\* both find.
FreedBy(c, n, t) ==
  /\ \A b \in Blocks : b <= c /\ b <= n + 1 => Has("free", b, t)
  /\ \A r \in Indirect : New(r) /\ BlockOf[r] <= c /\ BlockOf[r] <= n => Has("disown", DataOf[r], t)

GoneInv ==
  /\ zhDisk.log # "chain" => GoneBy(floor)
  /\ zh.log # "chain" => GoneBy(Upto)
  /\ zh.log = "chain" /\ Ended => GoneBy(zlDestroyTxg)

EndInv ==
  \A c, u, n, t \in Nat :
    Has("claimEnd", c, u) /\ Has("destroyEnd", n, t) => FreedBy(c, n, t)

IInv ==
  /\ TypeInv /\ EngineInv /\ HeaderInv /\ AppliesInv /\ SeqInv /\ LoopInv
  /\ ClaimInv /\ FreeInv /\ GoneInv /\ EndInv

-----------------------------------------------------------------------------
(* Changes *)

\* What a set of changes is made of.
LEMMA MadeHas ==
  ASSUME NEW op, NEW S, NEW t, NEW o, NEW n, NEW u
  PROVE  <<<<o, n>>, u>> \in Made(op, S, t) <=> o = op /\ n \in S /\ u = t
  BY DEF Made

\* A change is its operation, its number and its txg.
LEMMA ChangeHas ==
  ASSUME TypeInv, NEW x \in dirtied
  PROVE  /\ x[1][1] \in Ops /\ x[1][2] \in Nat /\ x[2] \in Nat
         /\ x = <<<<x[1][1], x[1][2]>>, x[2]>>
  BY DEF TypeInv

LEMMA ClaimHas ==
  ASSUME Claim, zh.claimTxg = 0, zh.log # "hole", NEW o, NEW n, NEW t
  PROVE  Has(o, n, t)' <=>
           \/ Has(o, n, t)
           \/ t = open /\ ((o = "alloc" /\ n \in ClaimBlocks(open))
                        \/ (o = "own" /\ n \in DataFrom(open))
                        \/ (o = "ds" /\ n = 0)
                        \/ (o = "claimEnd" /\ n = LastSeen /\ zh.log = "chain"))
  BY MadeHas DEF Claim, Has

LEMMA ReplayedHas ==
  ASSUME Replayed, NEW o, NEW n, NEW t
  PROVE  Has(o, n, t)' <=>
           \/ Has(o, n, t)
           \/ t = rtxg /\ ((o = "apply" /\ n = cur) \/ (o = "ds" /\ n = 0))
  BY MadeHas DEF Replayed, Has

LEMMA DestroyHas ==
  ASSUME Destroy, zh.log # "hole", NEW o, NEW n, NEW t
  PROVE  Has(o, n, t)' <=>
           \/ Has(o, n, t)
           \/ t = open /\ ((o = "ds" /\ n = 0)
                        \/ (o = "drop" /\ n \in GivenUp)
                        \/ (pc # "keep" /\ o = "free" /\ n \in SeenBlocks)
                        \/ (pc # "keep" /\ o = "disown" /\ n \in FreeData)
                        \/ (pc # "keep" /\ o = "destroyEnd" /\ n = Readable))
  BY MadeHas DEF Destroy, Has

\* Steps that leave the log and what is dirtied alone.
Quiet ==
  \/ Mount \/ StartReplay \/ NextRecord \/ Assign \/ AssignError \/ Restart
  \/ ReplayError \/ EndReplay \/ Mounted \/ OpenTxg \/ UNCHANGED vars

LEMMA StepCases ==
  ASSUME [Next]_vars
  PROVE  Quiet \/ Claim \/ Replayed \/ Destroy \/ ZilSync \/ CommitTxg \/ CrashStep
  BY DEF Next, SyncStep, MountStep, Quiet

LEMMA QuietFrame ==
  ASSUME Quiet
  PROVE  /\ UNCHANGED <<floor, dirtied, durable, lrTxg, birth, readable, zh, zhDisk,
                        synced, zlReplaySeq, zlDestroyTxg, zlKeepFirst>>
         /\ open' = open \/ open' = open + 1
  BY DEF Quiet, Mount, StartReplay, NextRecord, Assign, AssignError, Restart, ReplayError,
         EndReplay, Mounted, OpenTxg, vars, svc, log, zilog, loop, Leave,
         Engine!Enter, Engine!OpenNext

\* The header that zil_claim() and zil_sync() write.
LEMMA HeaderFields ==
  ASSUME NEW l, NEW t, NEW s, NEW r
  PROVE  /\ Header(l, t, s, r).log = l /\ Header(l, t, s, r).claimTxg = t
         /\ Header(l, t, s, r).claimSeq = s /\ Header(l, t, s, r).replaySeq = r
         /\ (l \in {"chain", "fresh", "hole"} /\ t \in Nat /\ s \in Nat /\ r \in Nat =>
               Header(l, t, s, r) \in Headers)
  BY DEF Header, Headers

LEMMA ClaimFrame ==
  ASSUME Claim, zh.claimTxg = 0, zh.log # "hole"
  PROVE  /\ zh'.log = zh.log /\ zh'.claimTxg = open /\ zh'.claimSeq = LastSeen
         /\ zh'.replaySeq = zh.replaySeq
         /\ UNCHANGED <<open, floor, holders, durable, lrTxg, birth, readable, zhDisk,
                        synced, zlReplaySeq, zlDestroyTxg, zlKeepFirst, zlStopReplay,
                        cur, rtxg, pass, sunk>>
         /\ pc = "import" /\ pc' = "claimed" /\ until' = open
  BY HeaderFields DEF Claim, log, zilog, loop

LEMMA ReplayedFrame ==
  ASSUME Replayed
  PROVE  /\ UNCHANGED <<open, floor, durable, lrTxg, birth, readable, zh, zhDisk, synced,
                        zlDestroyTxg, zlKeepFirst, zlStopReplay, until, rtxg>>
         /\ pc = "vector" /\ pc' = "next" /\ rtxg = open /\ cur' = cur + 1 /\ holders' = {}
         /\ zlReplaySeq' = [zlReplaySeq EXCEPT ![Slot(rtxg)] = cur]
  BY DEF Replayed, Leave, log

LEMMA DestroyFrame ==
  ASSUME Destroy
  PROVE  /\ UNCHANGED <<open, floor, holders, durable, lrTxg, birth, readable, zh, zhDisk,
                        synced, zlReplaySeq, zlStopReplay, cur, rtxg>>
         /\ pc \in {"keep", "destroy"} /\ pc' = (IF pc = "keep" THEN "mounted" ELSE "destroyed")
         /\ IF zh.log = "hole" THEN UNCHANGED <<dirtied, zlDestroyTxg, zlKeepFirst>>
            ELSE zlDestroyTxg' = open /\ zlKeepFirst' = (pc = "keep")
  BY DEF Destroy, log, loop

LEMMA SlotType == ASSUME NEW t \in Nat PROVE Slot(t) \in 0..(TXG_SIZE - 1)
  BY SMT DEF Slot, TXG_SIZE

LEMMA SlotsDiffer ==
  ASSUME NEW a \in Nat, NEW b \in Nat, a # b, a < b + 4, b < a + 4
  PROVE  Slot(a) # Slot(b)
  BY SMT DEF Slot, TXG_SIZE

LEMMA SyncFrame ==
  ASSUME ZilSync, TypeInv
  PROVE  /\ synced' /\ ~synced /\ floor + 1 < open /\ pc # "import"
         /\ Dirtied(floor + 1) /\ \A h \in holders : h[2] > floor + 1
         /\ UNCHANGED <<open, floor, holders, dirtied, durable, lrTxg, birth, readable, zhDisk,
                        zlDestroyTxg, zlKeepFirst, zlStopReplay, pc, until,
                        cur, rtxg, pass, sunk>>
         /\ IF zlDestroyTxg = floor + 1
            THEN zh'.log # "chain" /\ zh'.claimTxg = 0 /\ zh'.claimSeq = 0 /\ zlReplaySeq' = NoReplay
            ELSE /\ zlReplaySeq' = zlReplaySeq
                 /\ zh'.log = zh.log /\ zh'.claimTxg = zh.claimTxg /\ zh'.claimSeq = zh.claimSeq
                 /\ zh'.replaySeq = zlReplaySeq[Slot(floor + 1)]
<1>1. CASE zlDestroyTxg = floor + 1
  BY <1>1, HeaderFields DEF ZilSync, InSync, Syncing, svc, log, loop
<1>2. CASE zlDestroyTxg # floor + 1
  BY <1>2 DEF ZilSync, InSync, Syncing, SyncedSeq, svc, log, loop, TypeInv, Headers
<1> QED
  BY <1>1, <1>2

LEMMA CommitFrame ==
  ASSUME CommitTxg
  PROVE  /\ floor + 1 < open /\ \A h \in holders : h[2] > floor + 1
         /\ pc # "import" /\ (Dirtied(floor + 1) => synced)
         /\ floor' = floor + 1 /\ durable' = {w \in dirtied : w[2] <= floor + 1}
         /\ zhDisk' = zh /\ synced' = FALSE
         /\ UNCHANGED <<open, holders, dirtied, lrTxg, birth, readable, zh, zlReplaySeq,
                        zlDestroyTxg, zlKeepFirst, zlStopReplay, pc, until,
                        cur, rtxg, pass, sunk>>
  BY DEF CommitTxg, Engine!Commit, Syncing, log, zilog, loop

LEMMA CrashFrame ==
  ASSUME CrashStep
  PROVE  /\ readable' \in 0..NBlocks
         /\ open' = floor + 1 /\ holders' = {} /\ dirtied' = durable
         /\ zh' = zhDisk /\ synced' = FALSE
         /\ zlReplaySeq' = NoReplay /\ zlDestroyTxg' = TXG_SIZE - 1
         /\ zlKeepFirst' = FALSE /\ zlStopReplay' = FALSE
         /\ pc' = "import" /\ until' = 0 /\ cur' = 0 /\ rtxg' = 0
         /\ UNCHANGED <<floor, durable, lrTxg, birth, zhDisk>>
  BY DEF CrashStep, Crash, log

-----------------------------------------------------------------------------
(* Types and the engine *)

\* the records that refer to the data blocks found in the log
LEMMA DataHas ==
  ASSUME NEW t, NEW n
  PROVE  n \in DataFrom(t) <=>
           \E r \in Indirect : n = DataOf[r] /\ r \in ParsedRecs /\ lrTxg[r] >= t
  BY DEF DataFrom

LEMMA DataType == ASSUME NEW t PROVE DataFrom(t) \subseteq Nat
  BY DataHas, IndirectAssumption

LEMMA TypeStep ==
  ASSUME TypeInv, EngineInv, [Next]_vars
  PROVE  TypeInv'
<1>t. TxgInit \in Nat /\ NBlocks \in Nat /\ NRecs \in Nat /\ Recs \subseteq Nat /\ Blocks \subseteq Nat
  BY TxgInitAssumption, SizesAssumption DEF Recs, Blocks
<1>1. CASE Quiet
  <2>1. pc' \in Labels
    BY <1>1 DEF Quiet, Mount, StartReplay, NextRecord, Assign, AssignError, Restart, ReplayError,
         EndReplay, Mounted, OpenTxg, vars, TypeInv, Labels, Replaying
  <2>2. until' \in Nat
    BY <1>1 DEF Quiet, Mount, StartReplay, NextRecord, Assign, AssignError, Restart, ReplayError,
         EndReplay, Mounted, OpenTxg, vars, TypeInv
  <2>4. rtxg' \in Nat
    BY <1>1 DEF Quiet, Mount, StartReplay, NextRecord, Assign, AssignError, Restart, ReplayError,
         EndReplay, Mounted, OpenTxg, vars, loop, TypeInv
  <2>5. zlStopReplay' \in BOOLEAN
    BY <1>1 DEF Quiet, Mount, StartReplay, NextRecord, Assign, AssignError, Restart, ReplayError,
         EndReplay, Mounted, OpenTxg, vars, zilog, TypeInv
  <2>3. cur' \in Nat
    <3>1. \A r \in ToReplay : r \in Nat
      BY <1>t DEF ToReplay, ParsedRecs
    <3>2. cur' \in ToReplay \/ cur' = 1 \/ cur' = cur
      BY <1>1 DEF Quiet, Mount, StartReplay, NextRecord, Assign, AssignError, Restart, ReplayError,
           EndReplay, Mounted, OpenTxg, vars, loop
    <3>3. cur \in Nat
      BY DEF TypeInv
    <3> QED
      BY ONLY <3>1, <3>2, <3>3, 1 \in Nat, Zenon
  <2> QED
    BY <1>1, <2>1, <2>2, <2>3, <2>4, <2>5, QuietFrame DEF TypeInv
<1>2. CASE Claim
  <2>1. CASE zh.claimTxg = 0 /\ zh.log # "hole"
    <3>1. /\ ClaimBlocks(open) \subseteq Nat /\ DataFrom(open) \subseteq Nat
          /\ {b \in {LastSeen} : zh.log = "chain"} \subseteq Nat
      <4>1. ClaimBlocks(open) \subseteq Nat
        BY <1>t DEF ClaimBlocks, SeenBlocks
      <4>2. LastSeen \in Nat
        BY DEF LastSeen, Readable, TypeInv
      <4> QED
        BY <4>1, <4>2, DataType
    <3>2. dirtied' \subseteq (Ops \X Nat) \X Nat
      BY <1>2, <2>1, <3>1 DEF Claim, Made, TypeInv, Ops
    <3>3. zh' \in Headers
      <4>1. LastSeen \in Nat
        BY DEF LastSeen, Readable, TypeInv
      <4>2. zh' = Header(zh.log, open, LastSeen, zh.replaySeq)
        BY <1>2, <2>1 DEF Claim
      <4>3. zh.log \in {"chain", "fresh", "hole"} /\ zh.replaySeq \in Nat /\ open \in Nat
        BY DEF TypeInv, Headers
      <4> QED
        BY <4>1, <4>2, <4>3, HeaderFields
    <3> QED
      BY <1>2, <2>1, <3>2, <3>3, ClaimFrame DEF TypeInv, Labels
  <2>2. CASE ~(zh.claimTxg = 0 /\ zh.log # "hole")
    BY <1>2, <2>2 DEF Claim, TypeInv, Labels, log, zilog, loop
  <2> QED
    BY <2>1, <2>2
<1>3. CASE Replayed
  <2>1. dirtied' \subseteq (Ops \X Nat) \X Nat
    BY <1>3 DEF Replayed, Made, TypeInv, Ops
  <2>2. zlReplaySeq' \in [0..(TXG_SIZE - 1) -> Nat]
    BY <1>3 DEF Replayed, TypeInv
  <2>3. pc' \in Labels
    BY <1>3 DEF Replayed, Labels, Replaying
  <2> QED
    BY <1>3, <2>1, <2>2, <2>3, ReplayedFrame DEF TypeInv
<1>4. CASE Destroy
  <2>1. /\ GivenUp \subseteq Nat /\ SeenBlocks \subseteq Nat /\ FreeData \subseteq Nat
        /\ Readable \in Nat
    <3>1. GivenUp \subseteq Nat /\ SeenBlocks \subseteq Nat
      BY <1>t DEF GivenUp, SeenBlocks
    <3>2. FreeData \subseteq Nat
      BY DataType DEF FreeData
    <3>3. Readable \in Nat
      BY DEF Readable, TypeInv
    <3> QED
      BY <3>1, <3>2, <3>3
  <2>2. dirtied' \subseteq (Ops \X Nat) \X Nat
    BY <1>4, <2>1 DEF Destroy, Made, TypeInv, Ops
  <2>3. zlDestroyTxg' \in Nat /\ zlKeepFirst' \in BOOLEAN /\ pc' \in Labels /\ until' \in Nat
    BY <1>4 DEF Destroy, TypeInv, Labels
  <2> QED
    BY <1>4, <2>2, <2>3 DEF Destroy, TypeInv, log, loop
<1>5. CASE ZilSync
  <2>1. zlReplaySeq' \in [0..(TXG_SIZE - 1) -> Nat]
    BY <1>5 DEF ZilSync, TypeInv, NoReplay, TXG_SIZE
  <2>2. CASE zlDestroyTxg = Syncing
    <3>1. zh' = Header(IF zlKeepFirst THEN "fresh" ELSE "hole", 0, 0, 0)
      BY <1>5, <2>2 DEF ZilSync
    <3>2. zh' \in Headers
      BY <3>1, HeaderFields
    <3> QED
      BY <1>5, <2>1, <3>2, SyncFrame DEF TypeInv
  <2>3. CASE zlDestroyTxg # Syncing
    <3>1. SyncedSeq \in Nat
      <4>1. Slot(floor + 1) \in 0..(TXG_SIZE - 1)
        <5>1. floor + 1 \in Nat
          BY DEF TypeInv
        <5> QED
          BY <5>1, SlotType
      <4> QED
        BY <4>1 DEF SyncedSeq, Syncing, TypeInv
    <3>2. zh' \in Headers
      BY <1>5, <2>3, <3>1 DEF ZilSync, TypeInv, Headers
    <3> QED
      BY <1>5, <2>1, <3>2, SyncFrame DEF TypeInv
  <2> QED
    BY <2>2, <2>3
<1>6. CASE CommitTxg
  BY <1>6, CommitFrame DEF TypeInv
<1>7. CASE CrashStep
  <2>1. zlReplaySeq' \in [0..(TXG_SIZE - 1) -> Nat] /\ zlDestroyTxg' \in Nat
    BY <1>7, CrashFrame DEF NoReplay, TXG_SIZE
  <2>2. dirtied' \subseteq dirtied
    BY <1>7, CrashFrame DEF EngineInv
  <2> QED
    BY <1>7, <2>1, <2>2, <1>t, CrashFrame DEF TypeInv, Labels
<1> QED
  BY <1>1, <1>2, <1>3, <1>4, <1>5, <1>6, <1>7, StepCases

\* Everything is dirtied in the txg that is open.
LEMMA DirtiedOpen ==
  ASSUME TypeInv, EngineInv, Claim \/ Replayed \/ Destroy, NEW x \in dirtied', x \notin dirtied
  PROVE  x[2] = open
<1>1. CASE Claim
  BY <1>1 DEF Claim, Made
<1>2. CASE Replayed
  BY <1>2 DEF Replayed, Made
<1>3. CASE Destroy
  BY <1>3 DEF Destroy, Made
<1> QED
  BY <1>1, <1>2, <1>3

LEMMA EngineStep ==
  ASSUME TypeInv, EngineInv, [Next]_vars
  PROVE  EngineInv'
<1>t. TxgInit \in Nat /\ open \in Nat /\ floor \in Nat /\ \A x \in dirtied : x[2] \in Nat
  BY TxgInitAssumption DEF TypeInv
<1>1. CASE Quiet
  <2>1. open' <= floor' + 3 /\ floor' < open'
    BY <1>1, <1>t DEF EngineInv, Quiet, Mount, StartReplay, NextRecord, Assign, AssignError, Restart, ReplayError,
         EndReplay, Mounted, OpenTxg, vars, svc, log, zilog, loop, 
         Engine!Enter, Engine!OpenNext, Engine!TXG_CONCURRENT_STATES
  <2>2. (holders = IF pc = "vector" THEN {<<"replay", rtxg>>} ELSE {})'
    BY <1>1 DEF EngineInv, Quiet, Mount, StartReplay, NextRecord, Assign, AssignError, Restart, ReplayError,
         EndReplay, Mounted, OpenTxg, vars, svc, log, zilog, loop, Leave,
         Engine!Enter, Engine!OpenNext
  <2>3. (pc = "vector" => floor < rtxg /\ rtxg <= open)'
    BY <1>1, <1>t DEF TypeInv, EngineInv, Quiet, Mount, StartReplay, NextRecord, Assign, AssignError, Restart, ReplayError,
         EndReplay, Mounted, OpenTxg, vars, svc, log, zilog, loop,
         Engine!Enter, Engine!OpenNext
  <2>4. pc' = "import" => pc = "import" /\ open' = open
    BY <1>1 DEF Quiet, Mount, StartReplay, NextRecord, Assign, AssignError, Restart, ReplayError,
         EndReplay, Mounted, OpenTxg, vars, svc, log, zilog, loop
  <2> QED
    BY <1>1, <1>t, <2>1, <2>2, <2>3, <2>4, QuietFrame DEF EngineInv
<1>2. CASE Claim \/ Replayed \/ Destroy
  <2>1. /\ UNCHANGED <<open, floor, durable, synced>> /\ pc' # "import" /\ pc' # "vector" /\ holders' = {}
        /\ dirtied \subseteq dirtied'
    BY <1>2 DEF Claim, Replayed, Destroy, EngineInv, Leave
  <2>2. \A x \in dirtied' : x \in dirtied \/ x[2] = open
    BY <1>2, DirtiedOpen
  <2>3. durable' = {x \in dirtied' : x[2] <= floor'}
    BY <1>t, <2>1, <2>2 DEF EngineInv
  <2> QED
    BY <1>t, <2>1, <2>2, <2>3 DEF EngineInv
<1>5. CASE ZilSync
  BY <1>5, <1>t, SyncFrame DEF EngineInv
<1>6. CASE CommitTxg
  <2>1. pc = "vector" => floor + 1 < rtxg
    BY <1>6, CommitFrame DEF EngineInv
  <2> QED
    BY <1>6, <1>t, <2>1, CommitFrame DEF EngineInv
<1>7. CASE CrashStep
  BY <1>7, <1>t, CrashFrame DEF EngineInv
<1> QED
  BY <1>1, <1>2, <1>5, <1>6, <1>7, StepCases

-----------------------------------------------------------------------------
(* Headers *)

\* Where quiet steps lead.
LEMMA QuietPc ==
  ASSUME Quiet
  PROVE  /\ (pc' = "import") = (pc = "import") /\ Ended' = Ended
         /\ pc' = "claimed" => pc = "claimed" /\ until' = until
         /\ pc' = "start" => pc = "start" \/ (pc = "claimed" /\ Readable # 0 /\ floor >= until)
         /\ pc' \in Replaying \cup {"destroy"} => pc \in Replaying \cup {"start", "destroy"}
         /\ pc' = "keep" => pc = "keep" \/ Readable = 0
<1> USE DEF Ended, Replaying
<1>1. CASE Mount
  BY <1>1 DEF Mount, zil_empty, Synced
<1>2. CASE Quiet /\ ~Mount
  BY <1>2 DEF Quiet, StartReplay, NextRecord, Assign, AssignError, Restart, ReplayError, EndReplay,
       Mounted, OpenTxg, vars
<1> QED
  BY <1>1, <1>2

\* Numbers in a state that the invariant describes.
LEMMA Numbers ==
  ASSUME TypeInv
  PROVE  /\ TxgInit \in Nat /\ TxgInit >= 4 /\ open \in Nat /\ floor \in Nat
         /\ Upto \in Nat /\ zlDestroyTxg \in Nat /\ until \in Nat /\ cur \in Nat /\ rtxg \in Nat
         /\ Readable \in Nat /\ readable \in Nat /\ Readable <= NBlocks
         /\ NBlocks \in Nat /\ NRecs \in Nat /\ Recs \subseteq Nat /\ Blocks \subseteq Nat
         /\ zh.claimTxg \in Nat /\ zh.claimSeq \in Nat /\ zh.replaySeq \in Nat
         /\ zhDisk.claimTxg \in Nat /\ zhDisk.claimSeq \in Nat /\ zhDisk.replaySeq \in Nat
         /\ \A r \in Recs : lrTxg[r] \in Nat /\ BlockOf[r] \in Nat /\ BlockOf[r] <= NBlocks
                            /\ 1 <= BlockOf[r]
         /\ \A b \in Blocks : birth[b] \in Nat
<1>1. /\ TxgInit \in Nat /\ TxgInit >= 4 /\ open \in Nat /\ floor \in Nat
      /\ Upto \in Nat /\ zlDestroyTxg \in Nat /\ until \in Nat /\ cur \in Nat /\ rtxg \in Nat
  BY TxgInitAssumption DEF TypeInv, Upto
<1>2. /\ NBlocks \in Nat /\ NRecs \in Nat /\ Recs \subseteq Nat /\ Blocks \subseteq Nat
      /\ Readable \in Nat /\ readable \in Nat /\ Readable <= NBlocks
  BY SizesAssumption DEF Recs, Blocks, TypeInv, Readable
<1>3. /\ zh.claimTxg \in Nat /\ zh.claimSeq \in Nat /\ zh.replaySeq \in Nat
      /\ zhDisk.claimTxg \in Nat /\ zhDisk.claimSeq \in Nat /\ zhDisk.replaySeq \in Nat
  BY DEF TypeInv, Headers
<1>4. \A r \in Recs : BlockOf[r] \in Nat /\ BlockOf[r] <= NBlocks /\ 1 <= BlockOf[r]
  BY <1>2, BlockOfAssumption
<1>5. /\ \A r \in Recs : lrTxg[r] \in Nat
      /\ \A b \in Blocks : birth[b] \in Nat
  BY DEF TypeInv
<1> QED
  BY <1>1, <1>2, <1>3, <1>4, <1>5

LEMMA HeaderStep ==
  ASSUME TypeInv, EngineInv, HeaderInv, [Next]_vars
  PROVE  HeaderInv'
<1>1. CASE Quiet
  <2>1. /\ Upto' = Upto /\ Readable' = Readable
        /\ \A o, n, t : Has(o, n, t)' <=> Has(o, n, t)
    BY <1>1, QuietFrame DEF Upto, Readable, Has
  <2>2. (pc \in Replaying \cup {"start", "destroy"} =>
          zh.log = "chain" /\ readable > 0 /\ floor >= TxgInit)'
    BY <1>1, <2>1, QuietFrame, QuietPc, Numbers DEF HeaderInv, Readable
  <2>3. (Ended /\ zh.log = "chain" =>
          /\ Upto < zlDestroyTxg /\ zlDestroyTxg <= open /\ Has("ds", 0, zlDestroyTxg))'
    <3>1. open' \in Nat /\ open <= open'
      BY <1>1, QuietFrame, Numbers
    <3> SUFFICES ASSUME Ended', zh'.log = "chain"
                 PROVE  (Upto < zlDestroyTxg /\ zlDestroyTxg <= open /\ Has("ds", 0, zlDestroyTxg))'
      OBVIOUS
    <3>2. Ended /\ zh.log = "chain" /\ zlDestroyTxg' = zlDestroyTxg /\ dirtied' = dirtied
      BY <1>1, QuietFrame, QuietPc
    <3>3. Upto < zlDestroyTxg /\ zlDestroyTxg <= open /\ Has("ds", 0, zlDestroyTxg)
      BY <3>2 DEF HeaderInv
    <3> QED
      BY <2>1, <3>1, <3>2, <3>3, Numbers DEF Has
  <2> QED
    BY <1>1, <2>1, <2>2, <2>3, QuietFrame, QuietPc DEF HeaderInv
<1>2. CASE Claim
  <2>1. CASE zh.claimTxg = 0 /\ zh.log # "hole"
    BY <1>2, <2>1, ClaimFrame, Numbers DEF HeaderInv, EngineInv, Ended, Replaying
  <2>2. CASE ~(zh.claimTxg = 0 /\ zh.log # "hole")
    BY <1>2, <2>2, Numbers DEF Claim, HeaderInv, EngineInv, Ended, Replaying, zilog
  <2> QED
    BY <2>1, <2>2
<1>3. CASE Replayed
  BY <1>3, ReplayedFrame DEF HeaderInv, Ended, Replaying
<1>4. CASE Destroy
  <2>1. Ended'
    BY <1>4, DestroyFrame DEF Ended
  <2>2. zh.log = "chain" => zlDestroyTxg' = open /\ Has("ds", 0, open)'
    BY <1>4, DestroyFrame, DestroyHas
  <2>3. Upto' = Upto /\ Upto < open
    BY <1>4, DestroyFrame, Numbers DEF Upto, EngineInv
  <2>4. (Ended /\ zh.log = "chain" =>
          /\ Upto < zlDestroyTxg /\ zlDestroyTxg <= open /\ Has("ds", 0, zlDestroyTxg))'
    BY <1>4, <2>2, <2>3, DestroyFrame, Numbers DEF Has
  <2> QED
    BY <1>4, <2>1, <2>4, DestroyFrame DEF HeaderInv, Replaying
<1>5. CASE ZilSync
  <2>1. \A o, n, t : Has(o, n, t)' <=> Has(o, n, t)
    BY <1>5, SyncFrame DEF Has
  <2>2. CASE zlDestroyTxg = floor + 1
    <3>1. Ended /\ Ended'
      BY <1>5, <2>2, SyncFrame, Numbers DEF HeaderInv, EngineInv, Ended, TXG_SIZE
    <3> QED
      BY <1>5, <2>2, <3>1, SyncFrame DEF HeaderInv, Ended, Replaying
  <2>3. CASE zlDestroyTxg # floor + 1
    <3>1. Upto' = floor + 1 /\ Upto = floor /\ Readable' = Readable /\ Ended' = Ended
      BY <1>5, <2>3, SyncFrame DEF Upto, Readable, Ended
    <3>2. (Ended /\ zh.log = "chain" =>
            /\ Upto < zlDestroyTxg /\ zlDestroyTxg <= open /\ Has("ds", 0, zlDestroyTxg))'
      BY <1>5, <2>1, <2>3, <3>1, SyncFrame, Numbers DEF HeaderInv
    <3> QED
      BY <1>5, <2>3, <3>1, <3>2, SyncFrame DEF HeaderInv
  <2> QED
    BY <2>2, <2>3
<1>6. CASE CommitTxg
  <2>1. Readable' = Readable /\ Ended' = Ended /\ Upto' = floor + 1
    BY <1>6, CommitFrame DEF Upto, Readable, Ended
  <2>2. Has("ds", 0, floor + 1) => synced
    BY <1>6, CommitFrame DEF Has, Dirtied
  <2>3. (Ended /\ zh.log = "chain" =>
          /\ Upto < zlDestroyTxg /\ zlDestroyTxg <= open /\ Has("ds", 0, zlDestroyTxg))'
    BY <1>6, <2>1, <2>2, CommitFrame, Numbers DEF HeaderInv, Upto, Has
  <2> QED
    BY <1>6, <2>1, <2>3, CommitFrame, Numbers DEF HeaderInv, EngineInv
<1>7. CASE CrashStep
  BY <1>7, CrashFrame DEF HeaderInv, Ended, Replaying
<1> QED
  BY <1>1, <1>2, <1>3, <1>4, <1>5, <1>6, <1>7, StepCases

-----------------------------------------------------------------------------
(* What is applied *)

LEMMA CrashHas ==
  ASSUME TypeInv, EngineInv, CrashStep, NEW o, NEW n, NEW t
  PROVE  Has(o, n, t)' <=> Has(o, n, t) /\ t <= floor
  BY CrashFrame DEF Has, EngineInv

LEMMA SameHas ==
  ASSUME Quiet \/ ZilSync \/ CommitTxg \/ (Claim /\ ~(zh.claimTxg = 0 /\ zh.log # "hole"))
           \/ (Destroy /\ zh.log = "hole"),
         TypeInv, NEW o, NEW n, NEW t
  PROVE  Has(o, n, t)' <=> Has(o, n, t)
  BY QuietFrame, SyncFrame, CommitFrame, DestroyFrame DEF Has, Claim

LEMMA LogFixed ==
  ASSUME TypeInv, [Next]_vars
  PROVE  lrTxg' = lrTxg /\ birth' = birth /\ (\A r : New(r)' <=> New(r))
<1>1. lrTxg' = lrTxg /\ birth' = birth
  BY StepCases, QuietFrame, ReplayedFrame, DestroyFrame, SyncFrame, CommitFrame, CrashFrame
     DEF Claim, log
<1> QED
  BY <1>1 DEF New

\* Only the replay applies records.
LEMMA SameApplies ==
  ASSUME TypeInv, [Next]_vars, ~Replayed, ~CrashStep, NEW n, NEW t
  PROVE  Has("apply", n, t)' <=> Has("apply", n, t)
<1>1. CASE Claim /\ zh.claimTxg = 0 /\ zh.log # "hole"
  BY <1>1, ClaimHas
<1>2. CASE Destroy /\ zh.log # "hole"
  BY <1>2, DestroyHas
<1> QED
  BY <1>1, <1>2, StepCases, SameHas

LEMMA HasType ==
  ASSUME TypeInv, NEW o, NEW n, NEW t, Has(o, n, t)
  PROVE  o \in Ops /\ n \in Nat /\ t \in Nat
  BY DEF TypeInv, Has

\* What is done in a txg is done in an open or an older txg.
LEMMA HasOpen ==
  ASSUME TypeInv, EngineInv, NEW o, NEW n, NEW t, Has(o, n, t)
  PROVE  t <= open
  BY DEF EngineInv, Has

LEMMA AppliesStep ==
  ASSUME TypeInv, EngineInv, HeaderInv, AppliesInv, LoopInv, [Next]_vars
  PROVE  AppliesInv'
<1>0. lrTxg' = lrTxg /\ \A r : New(r)' <=> New(r)
  BY LogFixed
<1>1. CASE Replayed
  <2>1. cur \in Recs /\ New(cur) /\ ~Done(cur, open)
    BY <1>1, ReplayedFrame DEF LoopInv, Replaying, ParsedRecs
  <2>2. \A t \in Nat : ~Has("apply", cur, t)
    BY <2>1, HasOpen, Numbers DEF Done, AppliesInv
  <2>3. TxgInit <= rtxg
    BY <1>1, ReplayedFrame, Numbers DEF EngineInv
  <2>4. \A n, t : Has("apply", n, t)' <=> Has("apply", n, t) \/ (t = rtxg /\ n = cur)
    BY <1>1, ReplayedHas
  <2> QED
    BY <1>0, <2>1, <2>2, <2>3, <2>4 DEF AppliesInv
<1>2. CASE CrashStep
  <2>1. \A n, t : Has("apply", n, t)' <=> Has("apply", n, t) /\ t <= floor
    BY <1>2, CrashHas
  <2>2. \A r \in Recs : ~New(r) => lrTxg[r] <= floor
    BY Numbers DEF New, EngineInv
  <2> QED
    BY <1>0, <2>1, <2>2 DEF AppliesInv
<1>3. CASE ~Replayed /\ ~CrashStep
  <2>1. \A n, t : Has("apply", n, t)' <=> Has("apply", n, t)
    BY <1>3, SameApplies
  <2> QED
    BY <1>0, <2>1 DEF AppliesInv
<1> QED
  BY <1>1, <1>2, <1>3

-----------------------------------------------------------------------------
(* What the headers and zl_replay_seq tell *)

LEMMA DoneMono ==
  ASSUME NEW r, NEW t \in Nat, NEW u \in Nat, t <= u, Done(r, t)
  PROVE  Done(r, u)
  BY DEF Done

LEMMA SameDone ==
  ASSUME TypeInv, [Next]_vars, ~Replayed, ~CrashStep, NEW r, NEW t
  PROVE  Done(r, t)' <=> Done(r, t)
  BY SameApplies DEF Done

\* the blocks that are parsed are a prefix of the log, and so are the records
LEMMA ParsedPrefix ==
  ASSUME TypeInv, NEW r \in Recs, NEW s \in ParsedRecs, r < s
  PROVE  r \in ParsedRecs
<1>1. s \in Recs /\ BlockOf[s] \in ReadBlocks
  BY DEF ParsedRecs
<1>2. BlockOf[r] <= BlockOf[s]
  BY <1>1, BlockOfAssumption
<1>3. BlockOf[r] \in Blocks /\ BlockOf[r] <= Readable /\ InClaim(BlockOf[r])
  BY <1>1, <1>2, Numbers DEF ReadBlocks, InClaim, Blocks
<1> QED
  BY <1>3 DEF ParsedRecs, ReadBlocks

LEMMA UptoBelow ==
  ASSUME TypeInv, EngineInv
  PROVE  floor <= Upto /\ Upto < open
  BY Numbers DEF EngineInv, Upto

LEMMA SeqStep ==
  ASSUME TypeInv, EngineInv, HeaderInv, AppliesInv, SeqInv, LoopInv, [Next]_vars
  PROVE  SeqInv'
<1>0. \A r : New(r)' <=> New(r)
  BY LogFixed
<1>1. CASE Quiet
  <2>1. \A r, t : Done(r, t)' <=> Done(r, t)
    BY <1>1, QuietFrame DEF Done, Has
  <2>2. Upto' = Upto /\ \A t : Dirtied(t)' <=> Dirtied(t)
    BY <1>1, QuietFrame DEF Upto, Dirtied
  <2>3. \A t \in Nat : Dirtied(t) => t <= open
    BY DEF Dirtied, EngineInv
  <2> QED
    BY <1>0, <1>1, <2>1, <2>2, <2>3, QuietFrame DEF SeqInv
<1>2. CASE Claim
  <2>1. \A r, t : Done(r, t)' <=> Done(r, t)
    BY <1>2, SameDone DEF Claim, Replayed, CrashStep, Crash
  <2>2. CASE zh.claimTxg = 0 /\ zh.log # "hole"
    <3>1. /\ zhDisk' = zhDisk /\ floor' = floor /\ Upto' = Upto /\ zh'.log = zh.log
          /\ zh'.replaySeq = zh.replaySeq /\ open' = open /\ zlReplaySeq' = zlReplaySeq
      BY <1>2, <2>2, ClaimFrame DEF Upto
    <3>2. open = floor + 1 /\ zh = zhDisk /\ zlReplaySeq = NoReplay
          /\ \A x \in dirtied : x[2] <= floor
      BY <1>2, <2>2, ClaimFrame DEF EngineInv
    <3>3. zh.log = "chain" => \A r \in Recs : New(r) => ~(r <= zlReplaySeq[Slot(open)])
      BY <3>2, SlotType, Numbers DEF NoReplay, Recs
    <3>4. zh.log = "chain" => \A r \in Recs : New(r) => ~Done(r, open)
      <4>1. zh.log = "chain" => zhDisk.replaySeq = 0
        BY <2>2, <3>2 DEF HeaderInv
      <4>2. zh.log = "chain" => \A r \in Recs : New(r) => ~Done(r, floor)
        BY <3>2, <4>1, Numbers DEF SeqInv, Recs
      <4>3. \A r : Done(r, open) => Done(r, floor)
        BY <3>2 DEF Done, Has
      <4> QED
        BY <4>2, <4>3
    <3>5. (zh.log = "chain" =>
            \A t \in Nat : floor < t /\ t <= open /\ Dirtied(t) /\ t # zlDestroyTxg =>
              \A r \in Recs : New(r) => (r <= zlReplaySeq[Slot(t)] <=> Done(r, t)))'
      <4>1. \A t \in Nat : floor < t /\ t <= open => t = open
        BY <3>2, Numbers
      <4> QED
        BY <1>0, <2>1, <3>1, <3>3, <3>4, <4>1
    <3> QED
      BY <1>0, <2>1, <3>1, <3>5 DEF SeqInv
  <2>3. CASE ~(zh.claimTxg = 0 /\ zh.log # "hole")
    <3>1. UNCHANGED <<zh, dirtied, open, floor, zhDisk, synced, zlReplaySeq, zlDestroyTxg>>
      BY <1>2, <2>3 DEF Claim, zilog
    <3> QED
      BY <1>0, <2>1, <3>1 DEF SeqInv, Upto, Dirtied
  <2> QED
    BY <2>2, <2>3
<1>3. CASE Replayed
  <2>1. /\ cur \in ParsedRecs /\ cur \in Recs /\ New(cur) /\ ~Done(cur, open)
        /\ zh.log = "chain" /\ rtxg = open /\ TxgInit <= open
    BY <1>3, ReplayedFrame, Numbers DEF LoopInv, HeaderInv, EngineInv, Replaying, ParsedRecs
  <2>2. \A n, t : Has("apply", n, t)' <=> Has("apply", n, t) \/ (t = open /\ n = cur)
    BY <1>3, <2>1, ReplayedHas
  <2>3. \A r : \A t \in Nat : t < open => (Done(r, t)' <=> Done(r, t))
    BY <2>2, Numbers DEF Done
  <2>4. \A r \in Recs : Done(r, open)' <=> Done(r, open) \/ r = cur
    BY <1>3, <2>1, <2>2, Numbers, ReplayedFrame DEF Done
  <2>5. \A r \in Recs : New(r) => (r <= cur <=> Done(r, open)')
    <3> SUFFICES ASSUME NEW r \in Recs, New(r) PROVE r <= cur <=> Done(r, open)'
      OBVIOUS
    <3>1. CASE r < cur
      <4>1. r \in ParsedRecs
        BY <2>1, <3>1, ParsedPrefix
      <4> QED
        BY <1>3, <2>4, <3>1, <4>1, ReplayedFrame, Numbers DEF LoopInv, Replaying
    <3>2. CASE r > cur
      <4> SUFFICES ASSUME Done(r, open) PROVE FALSE
        BY <2>4, <3>2, Numbers
      <4>1. r <= zh.replaySeq
        BY <1>3, <3>2, ReplayedFrame, Numbers DEF LoopInv, Replaying
      <4>2. cur <= zh.replaySeq
        BY <3>2, <4>1, Numbers
      <4>3. Done(cur, Upto)
        BY <2>1, <4>2 DEF SeqInv
      <4> QED
        BY <2>1, <4>3, DoneMono, UptoBelow, Numbers
    <3> QED
      BY <2>4, <3>1, <3>2, Numbers
  <2>6. \A t : t # open => (Dirtied(t)' <=> Dirtied(t))
    BY <1>3, <2>1 DEF Replayed, Dirtied, Made
  <2>7. \A t \in Nat : floor < t /\ t < open => zlReplaySeq'[Slot(t)] = zlReplaySeq[Slot(t)]
    <3> SUFFICES ASSUME NEW t \in Nat, floor < t, t < open
                 PROVE  zlReplaySeq'[Slot(t)] = zlReplaySeq[Slot(t)]
      OBVIOUS
    <3>1. Slot(t) # Slot(open)
      BY SlotsDiffer, Numbers DEF EngineInv
    <3> QED
      BY <1>3, <2>1, <3>1, SlotType, Numbers, ReplayedFrame DEF TypeInv
  <2>8. zlReplaySeq'[Slot(open)] = cur
    BY <1>3, <2>1, SlotType, Numbers, ReplayedFrame DEF TypeInv
  <2>9. /\ UNCHANGED <<zh, zhDisk, floor, open, zlDestroyTxg, synced>> /\ Upto' = Upto
        /\ floor < open /\ Upto < open
    BY <1>3, ReplayedFrame, UptoBelow, Numbers DEF Upto
  <2>10. (\A t \in Nat : floor < t /\ t <= open /\ Dirtied(t) /\ t # zlDestroyTxg =>
            \A r \in Recs : New(r) => (r <= zlReplaySeq[Slot(t)] <=> Done(r, t)))'
    <3> SUFFICES ASSUME NEW t \in Nat, floor < t, t <= open, Dirtied(t)', t # zlDestroyTxg,
                        NEW r \in Recs, New(r)
                 PROVE  r <= zlReplaySeq'[Slot(t)] <=> Done(r, t)'
      BY <1>0, <2>9
    <3>1. CASE t = open
      BY <2>5, <2>8, <2>9, <3>1 DEF Done
    <3>2. CASE t < open
      BY <2>1, <2>3, <2>6, <2>7, <3>2 DEF SeqInv
    <3> QED
      BY <3>1, <3>2, Numbers
  <2> QED
    BY <1>0, <2>3, <2>9, <2>10, Numbers DEF SeqInv
<1>4. CASE Destroy
  <2>1. \A r, t : Done(r, t)' <=> Done(r, t)
    BY <1>4, SameDone DEF Destroy, Replayed, CrashStep, Crash
  <2>2. UNCHANGED <<zh, zhDisk, floor, open, synced, zlReplaySeq>> /\ Upto' = Upto
    BY <1>4, DestroyFrame DEF Upto
  <2>3. zh.log = "chain" => zlDestroyTxg' = open /\ zlDestroyTxg = TXG_SIZE - 1
    BY <1>4, DestroyFrame DEF HeaderInv, Ended
  <2>4. \A t : t # open => (Dirtied(t)' <=> Dirtied(t))
    BY <1>4 DEF Destroy, Dirtied, Made
  <2>5. (zh.log = "chain" =>
          \A t \in Nat : floor < t /\ t <= open /\ Dirtied(t) /\ t # zlDestroyTxg =>
            \A r \in Recs : New(r) => (r <= zlReplaySeq[Slot(t)] <=> Done(r, t)))'
    <3> SUFFICES ASSUME zh.log = "chain", NEW t \in Nat, floor < t, t <= open, Dirtied(t)', t # open,
                        NEW r \in Recs, New(r)
                 PROVE  r <= zlReplaySeq[Slot(t)] <=> Done(r, t)
      BY <1>0, <2>1, <2>2, <2>3
    <3>1. t # zlDestroyTxg
      BY <2>3, Numbers DEF TXG_SIZE, EngineInv
    <3> QED
      BY <2>4, <3>1 DEF SeqInv
  <2> QED
    BY <1>0, <2>1, <2>2, <2>5 DEF SeqInv
<1>5. CASE ZilSync
  <2>1. \A r, t : Done(r, t)' <=> Done(r, t)
    BY <1>5, SyncFrame DEF Done, Has
  <2>2. CASE zlDestroyTxg = floor + 1
    BY <1>0, <1>5, <2>1, <2>2, SyncFrame DEF SeqInv
  <2>3. CASE zlDestroyTxg # floor + 1
    <3>1. /\ zh'.log = zh.log /\ zh'.replaySeq = zlReplaySeq[Slot(floor + 1)]
          /\ UNCHANGED <<floor, open, zlReplaySeq, zlDestroyTxg, zhDisk>> /\ Upto' = floor + 1
          /\ Dirtied(floor + 1) /\ floor + 1 <= open /\ floor + 1 \in Nat /\ floor < floor + 1
      BY <1>5, <2>3, SyncFrame, Numbers DEF Upto
    <3>2. zh.log = "chain" =>
            \A r \in Recs : New(r) => (r <= zlReplaySeq[Slot(floor + 1)] <=> Done(r, floor + 1))
      BY <2>3, <3>1 DEF SeqInv
    <3>3. \A t : Dirtied(t)' <=> Dirtied(t)
      BY <1>5, SyncFrame DEF Dirtied
    <3> QED
      BY <1>0, <2>1, <3>1, <3>2, <3>3 DEF SeqInv
  <2> QED
    BY <2>2, <2>3
<1>6. CASE CommitTxg
  <2>1. /\ \A r, t : Done(r, t)' <=> Done(r, t)
        /\ \A t : Dirtied(t)' <=> Dirtied(t)
    BY <1>6, CommitFrame DEF Done, Has, Dirtied
  <2>2. /\ UNCHANGED <<open, zh, zlReplaySeq, zlDestroyTxg>> /\ zhDisk' = zh
        /\ floor' = floor + 1 /\ Upto' = floor + 1 /\ (Dirtied(floor + 1) => synced)
    BY <1>6, CommitFrame DEF Upto
  <2>3. \A r : Done(r, floor + 1) <=> Done(r, Upto)
    <3>1. CASE synced
      BY <3>1 DEF Upto
    <3>2. CASE ~synced
      <4>1. \A r : ~Has("apply", r, floor + 1)
        BY <2>2, <3>2 DEF Dirtied, Has
      <4> QED
        BY <3>2, <4>1, Numbers DEF Upto, Done
    <3> QED
      BY <3>1, <3>2
  <2>4. zh.log = "chain" => \A r \in Recs : New(r) => (r <= zh.replaySeq <=> Done(r, floor + 1))
    BY <2>3 DEF SeqInv
  <2>5. \A t \in Nat : floor + 1 < t => floor < t
    BY Numbers
  <2> QED
    BY <1>0, <2>1, <2>2, <2>4, <2>5 DEF SeqInv
<1>7. CASE CrashStep
  <2>1. \A r : Done(r, floor)' <=> Done(r, floor)
    <3>1. \A n, t : Has("apply", n, t)' <=> Has("apply", n, t) /\ t <= floor
      BY <1>7, CrashHas
    <3> QED
      BY <1>7, <3>1, CrashFrame DEF Done
  <2>2. Upto' = floor /\ zh' = zhDisk /\ zhDisk' = zhDisk /\ floor' = floor /\ open' = floor + 1
    BY <1>7, CrashFrame DEF Upto
  <2>3. ~Dirtied(floor + 1)'
    BY <1>7, CrashFrame, Numbers DEF Dirtied, EngineInv
  <2>4. \A t \in Nat : floor < t /\ t <= floor + 1 => t = floor + 1
    BY Numbers
  <2> QED
    BY <1>0, <2>1, <2>2, <2>3, <2>4 DEF SeqInv
<1> QED
  BY <1>1, <1>2, <1>3, <1>4, <1>5, <1>6, <1>7, StepCases

-----------------------------------------------------------------------------
(* The loop of the replay *)

LEMMA SameParsed ==
  ASSUME zh'.log = zh.log, zh'.claimSeq = zh.claimSeq, readable' = readable
  PROVE  ParsedRecs' = ParsedRecs
  BY DEF ParsedRecs, ReadBlocks, InClaim, Readable

\* nothing is done in a txg that is not open yet
LEMMA DoneOpen ==
  ASSUME TypeInv, EngineInv, NEW r, NEW t \in Nat, Done(r, t)
  PROVE  Done(r, open)
  BY HasOpen DEF Done

\* what the header in memory says of a new record
LEMMA HeaderDone ==
  ASSUME TypeInv, EngineInv, SeqInv, zh.log = "chain", NEW r \in Recs, New(r)
  PROVE  r <= zh.replaySeq <=> Done(r, Upto)
  BY DEF SeqInv

\* A parsed record that is not replayed any more is done.
LEMMA SkippedDone ==
  ASSUME TypeInv, EngineInv, HeaderInv, SeqInv, pc = "next", ~zlStopReplay,
         NEW r \in ParsedRecs, New(r), cur <= r, r \notin ToReplay
  PROVE  Done(r, open)
<1>1. r \in Recs /\ zh.log = "chain" /\ zh.claimTxg = TxgInit
  BY DEF ParsedRecs, HeaderInv, Replaying
<1>2. ~Committed(r)
  BY <1>1, Numbers DEF New, Committed
<1>3. r <= zh.replaySeq
  BY <1>1, <1>2, Numbers DEF ToReplay, ReplayedBefore
<1> QED
  BY <1>1, <1>3, HeaderDone, DoneOpen, Numbers

LEMMA LoopStep ==
  ASSUME TypeInv, EngineInv, HeaderInv, SeqInv, LoopInv, [Next]_vars, SeqInv', TypeInv', EngineInv'
  PROVE  LoopInv'
<1>0. \A r : New(r)' <=> New(r)
  BY LogFixed
<1> USE DEF Replaying
<1>1. CASE Quiet
  <2>1. /\ ParsedRecs' = ParsedRecs /\ zh' = zh /\ floor' = floor /\ open' \in Nat
        /\ \A r, t : Has("apply", r, t)' <=> Has("apply", r, t)
        /\ \A r, t : Done(r, t)' <=> Done(r, t)
    BY <1>1, QuietFrame, SameParsed, Numbers DEF Done, Has
  <2>2. \A r : Done(r, open)' <=> Done(r, open)
    <3>1. \A r : Done(r, open) => Done(r, open')
      BY <1>1, <2>1, QuietFrame, DoneMono, Numbers
    <3>2. \A r : Done(r, open') => Done(r, open)
      BY <2>1, DoneOpen
    <3>3. \A r : Done(r, open)' <=> Done(r, open')
      BY <2>1 DEF Done
    <3> QED
      BY <3>1, <3>2, <3>3
  <2>3. CASE Mount
    BY <2>1, <2>3 DEF Mount, LoopInv
  <2>4. CASE StartReplay
    <3>1. pc' = "next" /\ cur' = 1 /\ zh.log = "chain"
      BY <2>4 DEF StartReplay, HeaderInv
    <3>2. \A r \in Recs : New(r) /\ Done(r, open) => r <= zh.replaySeq
      <4> SUFFICES ASSUME NEW r \in Recs, New(r), Done(r, open) PROVE r <= zh.replaySeq
        OBVIOUS
      <4>1. Done(r, floor)
        BY <2>4, Numbers DEF Done, LoopInv, StartReplay
      <4> QED
        BY <3>1, <4>1, HeaderDone, DoneMono, UptoBelow, Numbers
    <3>3. \A r \in Recs : ~(r < 1)
      BY Numbers DEF Recs
    <3> QED
      BY <1>0, <2>1, <2>2, <3>1, <3>2, <3>3 DEF LoopInv
  <2>5. CASE NextRecord
    <3>1. /\ pc = "next" /\ pc' = "assign" /\ cur' \in ToReplay /\ zlStopReplay' = zlStopReplay
          /\ \A s \in ToReplay : cur' <= s
      BY <2>5 DEF NextRecord, zilog
    <3>2. /\ cur' \in ParsedRecs /\ cur' \in Recs /\ cur' \in Nat /\ cur <= cur' /\ ~zlStopReplay
          /\ ~Committed(cur') /\ ~(cur' <= zh.replaySeq)
      BY <3>1, Numbers DEF ToReplay, ParsedRecs, ReplayedBefore
    <3>3. New(cur')
      BY <3>1, <3>2, Numbers DEF New, Committed, HeaderInv
    <3>4. ~Done(cur', open)
      BY <3>1, <3>2, <3>3 DEF LoopInv
    <3>5. \A r \in Recs : New(r) /\ Done(r, open) /\ cur' <= r => r <= zh.replaySeq
      BY <3>1, <3>2, Numbers DEF LoopInv
    <3>6. \A r \in ParsedRecs : New(r) /\ r < cur' => Done(r, open)
      <4> SUFFICES ASSUME NEW r \in ParsedRecs, New(r), r < cur' PROVE Done(r, open)
        OBVIOUS
      <4>1. r \in Recs /\ r \in Nat
        BY Numbers DEF ParsedRecs
      <4>2. CASE r < cur
        BY <3>1, <4>1, <4>2 DEF LoopInv
      <4>3. CASE cur <= r
        <5>1. r \notin ToReplay
          BY <3>1, <3>2, <4>1
        <5> QED
          BY <3>1, <3>2, <4>3, <5>1, SkippedDone
      <4> QED
        BY <4>1, <4>2, <4>3, Numbers
    <3>7. (\A r \in Recs : New(r) =>
             /\ Done(r, open) /\ cur <= r => r <= zh.replaySeq
             /\ r \in ParsedRecs /\ r < cur => Done(r, open))'
      BY <1>0, <2>1, <2>2, <3>5, <3>6
    <3>8. (cur \in ParsedRecs /\ New(cur) /\ ~Done(cur, open) /\ ~zlStopReplay)'
      <4>1. New(cur)'
        BY <3>3, LogFixed DEF New
      <4>2. ~Done(cur, open)'
        BY <2>1, <2>2, <3>4 DEF Done
      <4> QED
        BY <2>1, <3>1, <3>2, <4>1, <4>2
    <3> QED
      BY <3>1, <3>7, <3>8 DEF LoopInv
  <2>6. CASE Assign \/ AssignError \/ Restart \/ ReplayError
    <3>1. /\ cur' = cur /\ pc \in Replaying \ {"next"} /\ pc' \in Replaying
          /\ (pc' = "next" \/ zlStopReplay' = zlStopReplay)
      BY <2>6 DEF Assign, AssignError, Restart, ReplayError, zilog, loop
    <3>2. New(cur)' <=> New(cur)
      BY <3>1, LogFixed DEF New
    <3>3. Done(cur, open)' <=> Done(cur, open)
      BY <2>2, <3>1 DEF Done
    <3> QED
      BY <1>0, <2>1, <2>2, <3>1, <3>2, <3>3 DEF LoopInv
  <2>7. CASE EndReplay
    <3>1. pc = "next" /\ ToReplay = {} /\ pc' = "destroy" /\ cur' = cur /\ zlStopReplay' = zlStopReplay
      BY <2>7 DEF EndReplay, zilog, loop
    <3>2. \A r \in ParsedRecs : New(r) /\ ~zlStopReplay => Done(r, open)
      <4> SUFFICES ASSUME NEW r \in ParsedRecs, New(r), ~zlStopReplay PROVE Done(r, open)
        OBVIOUS
      <4>1. r \in Recs /\ r \in Nat
        BY Numbers DEF ParsedRecs
      <4>2. CASE r < cur
        BY <3>1, <4>1, <4>2 DEF LoopInv
      <4>3. CASE cur <= r
        BY <3>1, <4>3, SkippedDone
      <4> QED
        BY <4>1, <4>2, <4>3, Numbers
    <3> QED
      BY <1>0, <2>1, <2>2, <3>1, <3>2 DEF LoopInv
  <2>8. CASE Mounted
    BY <2>8 DEF Mounted, LoopInv
  <2>9. CASE OpenTxg \/ UNCHANGED vars
    <3>1. pc' = pc /\ cur' = cur /\ zlStopReplay' = zlStopReplay
      BY <2>9 DEF OpenTxg, vars, loop, zilog
    <3>2. New(cur)' <=> New(cur)
      BY <3>1, LogFixed DEF New
    <3>3. Done(cur, open)' <=> Done(cur, open)
      BY <2>2, <3>1 DEF Done
    <3> QED
      BY <1>0, <2>1, <2>2, <3>1, <3>2, <3>3 DEF LoopInv
  <2> QED
    BY <1>1, <2>3, <2>4, <2>5, <2>6, <2>7, <2>8, <2>9 DEF Quiet
<1>2. CASE Claim
  <2>1. pc = "import" /\ pc' = "claimed" /\ floor' = floor
    BY <1>2 DEF Claim
  <2>2. \A r, t : Has("apply", r, t)' <=> Has("apply", r, t)
    BY <1>2, SameApplies DEF Claim, Replayed, CrashStep, Crash
  <2> QED
    BY <2>1, <2>2 DEF LoopInv
<1>3. CASE Replayed
  <2>1. /\ cur \in ParsedRecs /\ cur \in Recs /\ New(cur) /\ ~Done(cur, open)
        /\ rtxg = open /\ TxgInit <= open
    BY <1>3, ReplayedFrame, Numbers DEF LoopInv, HeaderInv, EngineInv, ParsedRecs
  <2>2. \A n, t : Has("apply", n, t)' <=> Has("apply", n, t) \/ (t = open /\ n = cur)
    BY <1>3, <2>1, ReplayedHas
  <2>3. \A r \in Recs : Done(r, open)' <=> Done(r, open) \/ r = cur
    BY <1>3, <2>1, <2>2, Numbers, ReplayedFrame DEF Done
  <2>4. ParsedRecs' = ParsedRecs /\ zh' = zh /\ pc' = "next" /\ pc = "vector" /\ cur' = cur + 1
    BY <1>3, ReplayedFrame, SameParsed
  <2>5. (\A r \in Recs : New(r) =>
           /\ Done(r, open) /\ cur <= r => r <= zh.replaySeq
           /\ r \in ParsedRecs /\ r < cur => Done(r, open))'
    <3> SUFFICES ASSUME NEW r \in Recs, New(r)
                 PROVE  /\ Done(r, open)' /\ cur + 1 <= r => r <= zh.replaySeq
                        /\ r \in ParsedRecs /\ r < cur + 1 => Done(r, open)'
      BY <1>0, <2>4
    <3>1. cur + 1 <= r => cur <= r /\ r # cur
      BY Numbers
    <3>2. r < cur + 1 => r < cur \/ r = cur
      BY Numbers
    <3> QED
      BY <2>3, <2>4, <3>1, <3>2 DEF LoopInv
  <2> QED
    BY <2>4, <2>5 DEF LoopInv
<1>4. CASE Destroy
  BY <1>4, DestroyFrame DEF LoopInv
<1>5. CASE ZilSync
  <2>1. /\ \A r, t : Has("apply", r, t)' <=> Has("apply", r, t)
        /\ \A r, t : Done(r, t)' <=> Done(r, t)
        /\ UNCHANGED <<floor, open, pc, cur, zlStopReplay, lrTxg>>
    BY <1>5, SyncFrame DEF Done, Has
  <2>2. CASE pc \in Replaying \cup {"destroy"}
    <3>1. zlDestroyTxg # floor + 1 /\ zh.log = "chain"
      BY <2>2, Numbers DEF HeaderInv, Ended, TXG_SIZE, EngineInv
    <3>2. zh'.log = zh.log /\ zh'.claimSeq = zh.claimSeq /\ ParsedRecs' = ParsedRecs
      BY <1>5, <3>1, SyncFrame, SameParsed
    <3>3. \A r \in Recs : New(r) /\ r <= zh.replaySeq => r <= zh'.replaySeq
      <4> SUFFICES ASSUME NEW r \in Recs, New(r), r <= zh.replaySeq PROVE r <= zh'.replaySeq
        OBVIOUS
      <4>1. Done(r, Upto) /\ Upto = floor /\ Upto' = floor + 1
        BY <1>5, <3>1, SyncFrame, HeaderDone DEF Upto
      <4>2. Done(r, floor + 1)
        BY <4>1, DoneMono, Numbers
      <4>3. Done(r, Upto)'
        BY <2>1, <4>1, <4>2 DEF Done
      <4> QED
        BY <1>0, <3>1, <3>2, <4>3 DEF SeqInv
    <3>4. \A r : Done(r, open)' <=> Done(r, open)
      BY <2>1 DEF Done
    <3>5. (New(cur)' <=> New(cur)) /\ (Done(cur, open)' <=> Done(cur, open))
      BY <2>1 DEF New, Done
    <3> QED
      BY <1>0, <2>1, <2>2, <3>2, <3>3, <3>4, <3>5 DEF LoopInv
  <2>3. CASE pc \notin Replaying \cup {"destroy"}
    BY <2>1, <2>3 DEF LoopInv
  <2> QED
    BY <2>2, <2>3
<1>6. CASE CommitTxg
  <2>1. /\ \A r, t : Has("apply", r, t)' <=> Has("apply", r, t)
        /\ \A r : Done(r, open)' <=> Done(r, open)
        /\ UNCHANGED <<open, pc, cur, zlStopReplay, zh>> /\ ParsedRecs' = ParsedRecs
        /\ floor' = floor + 1
    BY <1>6, CommitFrame, SameParsed DEF Done, Has
  <2>2. (New(cur)' <=> New(cur)) /\ (Done(cur, open)' <=> Done(cur, open))
    BY <1>6, CommitFrame DEF New, Done, Has
  <2>3. \A t \in Nat : t <= floor => t <= floor + 1
    BY Numbers
  <2> QED
    BY <1>0, <2>1, <2>2, <2>3 DEF LoopInv
<1>7. CASE CrashStep
  <2>1. \A n, t : Has("apply", n, t)' <=> Has("apply", n, t) /\ t <= floor
    BY <1>7, CrashHas
  <2> QED
    BY <1>7, <2>1, CrashFrame DEF LoopInv
<1> QED
  BY <1>1, <1>2, <1>3, <1>4, <1>5, <1>6, <1>7, StepCases

-----------------------------------------------------------------------------
(* What is claimed and freed *)

\* What is done stays done, but for a crash.
LEMMA HasGrows ==
  ASSUME TypeInv, [Next]_vars, ~CrashStep, NEW o, NEW n, NEW t, Has(o, n, t)
  PROVE  Has(o, n, t)'
<1>1. CASE Claim /\ zh.claimTxg = 0 /\ zh.log # "hole"
  BY <1>1, ClaimHas
<1>2. CASE Destroy /\ zh.log # "hole"
  BY <1>2, DestroyHas
<1>3. CASE Replayed
  BY <1>3, ReplayedHas
<1> QED
  BY <1>1, <1>2, <1>3, StepCases, SameHas

\* What the destruction frees is in the claimed part of the log.
LEMMA FreesClaimed ==
  ASSUME TypeInv, EngineInv, HeaderInv, ClaimInv, pc = "destroy"
  PROVE  /\ TxgInit <= open
         /\ \A b \in SeenBlocks : \E u \in Nat : u <= TxgInit /\ Has("alloc", b, u)
         /\ \A n \in FreeData : Has("own", n, TxgInit) \/ AtEnd(n, TxgInit)
<1>1. zh.log = "chain" /\ zh.claimTxg = TxgInit /\ TxgInit # 0 /\ zh.claimSeq # 0
  BY Numbers DEF HeaderInv, ClaimInv, ClaimedOK
<1>2. TxgInit <= open
  BY Numbers DEF EngineInv
<1>3. \A b \in SeenBlocks : b \in Blocks /\ b <= zh.claimSeq
  BY <1>1 DEF SeenBlocks, InClaim
<1>4. \A b \in SeenBlocks : \E u \in Nat : u <= TxgInit /\ Has("alloc", b, u)
  BY <1>1, <1>3 DEF ClaimInv, ClaimedOK
<1>5. ASSUME NEW n \in FreeData
      PROVE  Has("own", n, TxgInit) \/ AtEnd(n, TxgInit)
  <2>1. n \in DataFrom(TxgInit)
    BY <1>1, <1>5 DEF FreeData
  <2>2. PICK r \in Indirect : n = DataOf[r] /\ r \in ParsedRecs /\ lrTxg[r] >= TxgInit
    BY <2>1, DataHas
  <2>3. New(r) /\ r \in Recs /\ BlockOf[r] <= zh.claimSeq
    BY <1>1, <2>2 DEF New, ParsedRecs, ReadBlocks, InClaim
  <2>4. CASE BlockOf[r] < zh.claimSeq
    BY <1>1, <2>2, <2>3, <2>4 DEF ClaimInv, ClaimedOK
  <2>5. CASE BlockOf[r] = zh.claimSeq
    <3>1. Has("claimEnd", BlockOf[r], TxgInit) /\ TxgInit \in Nat /\ TxgInit <= TxgInit
      BY <1>1, <2>5, Numbers DEF ClaimInv, ClaimedOK
    <3> QED
      BY <2>2, <3>1 DEF AtEnd
  <2> QED
    BY <2>3, <2>4, <2>5, Numbers
<1> QED
  BY <1>2, <1>4, <1>5

LEMMA ClaimStep ==
  ASSUME TypeInv, EngineInv, HeaderInv, ClaimInv, [Next]_vars
  PROVE  ClaimInv'
<1>0. lrTxg' = lrTxg /\ birth' = birth /\ \A r : New(r)' <=> New(r)
  BY LogFixed
<1>1. CASE Quiet \/ ZilSync \/ CommitTxg \/ (Claim /\ ~(zh.claimTxg = 0 /\ zh.log # "hole"))
  <2>1. readable' = readable /\ \A o, n, t : Has(o, n, t)' <=> Has(o, n, t)
    BY <1>1, SameHas, QuietFrame, SyncFrame, CommitFrame DEF Claim
  <2>2. ClaimedOK(zh)' /\ (zh.log # "hole" /\ zh.claimTxg = 0 => zh.claimSeq = 0)'
    <3>1. CASE ZilSync /\ zlDestroyTxg = floor + 1
      BY <3>1, SyncFrame DEF ClaimedOK
    <3>2. CASE ~(ZilSync /\ zlDestroyTxg = floor + 1)
      <4>1. zh'.log = zh.log /\ zh'.claimTxg = zh.claimTxg /\ zh'.claimSeq = zh.claimSeq
        BY <1>1, <3>2, QuietFrame, SyncFrame, CommitFrame DEF Claim
      <4> QED
        BY <1>0, <2>1, <4>1 DEF ClaimedOK, ClaimInv
    <3> QED
      BY <3>1, <3>2
  <2>4. \A n, t : AtEnd(n, t)' <=> AtEnd(n, t)
    BY <2>1 DEF AtEnd
  <2>3. ClaimedOK(zhDisk)' /\ (zhDisk.log # "hole" /\ zhDisk.claimTxg = 0 => zhDisk.claimSeq = 0)'
    <3>1. zhDisk' = zhDisk \/ zhDisk' = zh
      BY <1>1, QuietFrame, SyncFrame, CommitFrame DEF Claim
    <3> QED
      BY <1>0, <2>1, <3>1 DEF ClaimedOK, ClaimInv
  <2> QED
    BY <1>0, <2>1, <2>2, <2>3, <2>4 DEF ClaimInv
<1>2. CASE Claim /\ zh.claimTxg = 0 /\ zh.log # "hole"
  <2>1. \A o, n, t : Has(o, n, t)' <=>
           \/ Has(o, n, t)
           \/ t = open /\ ((o = "alloc" /\ n \in ClaimBlocks(open))
                        \/ (o = "own" /\ n \in DataFrom(open))
                        \/ (o = "ds" /\ n = 0)
                        \/ (o = "claimEnd" /\ n = LastSeen /\ zh.log = "chain"))
    BY <1>2, ClaimHas
  <2>2. /\ UNCHANGED <<open, floor, readable, zhDisk>>
        /\ zh'.log = zh.log /\ zh'.claimTxg = open /\ zh'.claimSeq = Readable + 1 /\ open # 0
    BY <1>2, ClaimFrame, Numbers DEF LastSeen, EngineInv
  <2>3. ClaimedOK(zh)'
    <3> SUFFICES ASSUME zh.log = "chain"
                 PROVE  ClaimedOK(zh)'
      BY <2>2 DEF ClaimedOK
    <3>1. open = TxgInit /\ Readable = readable /\ zh.claimSeq = 0
      BY <1>2, ClaimFrame, Numbers DEF EngineInv, HeaderInv, Readable, ClaimInv
    <3>2. /\ 1 <= Readable + 1 /\ Readable + 1 <= NBlocks + 1
          /\ \A n, t : n = Readable + 1 /\ t = TxgInit => Has("claimEnd", n, t)'
      BY <2>1, <3>1, Numbers DEF LastSeen
    <3>3. \A b \in Blocks : b <= Readable + 1 => \E u \in Nat : u <= TxgInit /\ Has("alloc", b, u)'
      <4> SUFFICES ASSUME NEW b \in Blocks, b <= Readable + 1
                   PROVE  \E u \in Nat : u <= TxgInit /\ Has("alloc", b, u)'
        OBVIOUS
      <4>1. CASE birth[b] < TxgInit
        BY <2>1, <4>1, Numbers DEF ClaimInv
      <4>2. CASE birth[b] >= TxgInit
        <5>1. b \in ClaimBlocks(open)
          BY <3>1, <4>2 DEF ClaimBlocks, SeenBlocks, InClaim
        <5> QED
          BY <2>1, <3>1, <5>1, Numbers
      <4> QED
        BY <4>1, <4>2, Numbers
    <3>4. \A r \in Indirect :
            New(r) /\ BlockOf[r] < Readable + 1 => Has("own", DataOf[r], TxgInit)'
      <4> SUFFICES ASSUME NEW r \in Indirect, New(r), BlockOf[r] < Readable + 1
                   PROVE  Has("own", DataOf[r], TxgInit)'
        OBVIOUS
      <4>1. r \in Recs
        BY IndirectAssumption
      <4>2. BlockOf[r] \in ReadBlocks
        BY <3>1, <4>1, Numbers DEF ReadBlocks, InClaim, Blocks
      <4>3. DataOf[r] \in DataFrom(open)
        BY <3>1, <4>1, <4>2, DataHas DEF ParsedRecs, New
      <4> QED
        BY <2>1, <3>1, <4>3
    <3> QED
      <4>1. (zh.claimSeq)' = Readable + 1
        BY <2>2
      <4>2. Has("claimEnd", zh.claimSeq, TxgInit)'
        BY <3>2, <4>1
      <4> QED
        BY <1>0, <2>2, <3>2, <3>3, <3>4, <4>1, <4>2 DEF ClaimedOK
  <2>4. ClaimedOK(zhDisk)'
    BY <1>0, <2>1, <2>2 DEF ClaimInv, ClaimedOK
  <2>5. (\A n, t \in Nat : Has("alloc", n, t) => n \in Blocks)'
    BY <2>1 DEF ClaimInv, ClaimBlocks, SeenBlocks
  <2>6. /\ (\A n, t \in Nat : Has("own", n, t) =>
             /\ t = TxgInit
             /\ \E r \in Indirect :
                  /\ n = DataOf[r] /\ New(r)
                  /\ \A c, u \in Nat : Has("claimEnd", c, u) => BlockOf[r] < c)'
        /\ (\A n, t \in Nat : Has("claimEnd", n, t) => t = TxgInit)'
        /\ (\A n, m, t, u \in Nat : Has("claimEnd", n, t) /\ Has("claimEnd", m, u) => n = m)'
    <3>1. CASE zh.log = "chain"
      <4>1. open = TxgInit /\ \A x \in dirtied : x[2] <= floor
        BY <1>2, <3>1, ClaimFrame, Numbers DEF EngineInv, HeaderInv
      <4>2. floor < TxgInit /\ floor \in Nat
        BY <1>2, <4>1, ClaimFrame, Numbers DEF EngineInv
      <4>3. \A n, t \in Nat : ~Has("own", n, t) /\ ~Has("claimEnd", n, t)
        <5>1. \A o, n, t : Has(o, n, t) => t <= floor
          BY <4>1 DEF Has
        <5> QED
          BY <4>2, <5>1, Numbers DEF ClaimInv
      <4>4. \A n, t \in Nat : /\ Has("own", n, t)' <=> t = TxgInit /\ n \in DataFrom(open)
                              /\ Has("claimEnd", n, t)' <=> t = TxgInit /\ n = LastSeen
        BY <2>1, <3>1, <4>1, <4>3
      <4>5. \A n \in DataFrom(open) : \E r \in Indirect :
              n = DataOf[r] /\ New(r) /\ BlockOf[r] < LastSeen
        <5> SUFFICES ASSUME NEW n \in DataFrom(open)
                     PROVE  \E r \in Indirect : n = DataOf[r] /\ New(r) /\ BlockOf[r] < LastSeen
          OBVIOUS
        <5>1. PICK r \in Indirect : n = DataOf[r] /\ r \in ParsedRecs /\ lrTxg[r] >= open
          BY DataHas
        <5>2. r \in Recs /\ BlockOf[r] <= Readable
          BY <5>1 DEF ParsedRecs, ReadBlocks
        <5> QED
          BY <4>1, <5>1, <5>2, Numbers DEF New, LastSeen
      <4>6. \A n, t \in Nat : Has("own", n, t)' =>
              \E r \in Indirect :
                /\ n = DataOf[r] /\ New(r)'
                /\ \A c, u \in Nat : Has("claimEnd", c, u)' => BlockOf[r] < c
        <5> SUFFICES ASSUME NEW n \in Nat, NEW t \in Nat, Has("own", n, t)'
                     PROVE  \E r \in Indirect :
                              /\ n = DataOf[r] /\ New(r)'
                              /\ \A c, u \in Nat : Has("claimEnd", c, u)' => BlockOf[r] < c
          OBVIOUS
        <5>1. PICK r \in Indirect : n = DataOf[r] /\ New(r) /\ BlockOf[r] < LastSeen
          BY <4>4, <4>5
        <5>2. \A c, u \in Nat : Has("claimEnd", c, u)' => BlockOf[r] < c
          BY <4>4, <5>1
        <5> QED
          BY <1>0, <5>1, <5>2
      <4>7. \A n, t \in Nat : Has("own", n, t)' \/ Has("claimEnd", n, t)' => t = TxgInit
        BY <4>4
      <4>8. \A n, m, t, u \in Nat : Has("claimEnd", n, t)' /\ Has("claimEnd", m, u)' => n = m
        BY <4>4
      <4>9. (\A n, t \in Nat : Has("own", n, t) =>
               /\ t = TxgInit
               /\ \E r \in Indirect :
                    /\ n = DataOf[r] /\ New(r)
                    /\ \A c, u \in Nat : Has("claimEnd", c, u) => BlockOf[r] < c)'
        BY ONLY <4>6, <4>7, Zenon
      <4> QED
        BY ONLY <4>7, <4>8, <4>9, Zenon
    <3>2. CASE zh.log # "chain"
      <4>1. Readable = 0
        BY <3>2 DEF Readable
      <4>2. DataFrom(open) = {}
        BY <4>1, Numbers DEF DataFrom, ParsedRecs, ReadBlocks
      <4>3. \A n, t : /\ Has("own", n, t)' <=> Has("own", n, t)
                      /\ Has("claimEnd", n, t)' <=> Has("claimEnd", n, t)
        BY <2>1, <3>2, <4>2
      <4>4. /\ \A n, t \in Nat : Has("own", n, t) =>
                 /\ t = TxgInit
                 /\ \E r \in Indirect :
                      /\ n = DataOf[r] /\ New(r)
                      /\ \A c, u \in Nat : Has("claimEnd", c, u) => BlockOf[r] < c
            /\ \A n, t \in Nat : Has("claimEnd", n, t) => t = TxgInit
            /\ \A n, m, t, u \in Nat : Has("claimEnd", n, t) /\ Has("claimEnd", m, u) => n = m
        BY DEF ClaimInv
      <4> QED
        BY ONLY <1>0, <4>3, <4>4, Zenon
    <3> QED
      BY <3>1, <3>2
  <2>7. \A n, t : AtEnd(n, t) => AtEnd(n, t)'
    BY <2>1 DEF AtEnd
  <2> QED
    BY <1>0, <2>1, <2>2, <2>3, <2>4, <2>5, <2>6, <2>7 DEF ClaimInv
<1>3. CASE Replayed \/ Destroy
  <2>1. UNCHANGED <<readable, zh, zhDisk>>
    BY <1>3, ReplayedFrame, DestroyFrame
  <2>2. \A o, n, t : Has(o, n, t) => Has(o, n, t)'
    BY <1>3, HasGrows DEF Replayed, Destroy, CrashStep, Crash
  <2>3. \A n, t : /\ Has("alloc", n, t)' => Has("alloc", n, t)
                  /\ Has("own", n, t)' => Has("own", n, t)
                  /\ Has("claimEnd", n, t)' => Has("claimEnd", n, t)
    BY <1>3, ReplayedHas, DestroyHas, SameHas
  <2>4. (\A n, t \in Nat : Has("free", n, t) => \E u \in Nat : u <= t /\ Has("alloc", n, u))'
    <3> SUFFICES ASSUME NEW n \in Nat, NEW t \in Nat, Has("free", n, t)'
                 PROVE  \E u \in Nat : u <= t /\ Has("alloc", n, u)
      BY <2>2
    <3>1. CASE Has("free", n, t)
      BY <3>1 DEF ClaimInv
    <3>2. CASE ~Has("free", n, t)
      <4>1. pc = "destroy" /\ t = open /\ n \in SeenBlocks
        BY <1>3, <3>2, ReplayedHas, DestroyHas, SameHas, DestroyFrame
      <4> QED
        BY <4>1, FreesClaimed, Numbers
    <3> QED
      BY <3>1, <3>2
  <2>7. \A n, t : AtEnd(n, t) => AtEnd(n, t)'
    BY <2>2 DEF AtEnd
  <2>5. (\A n, t \in Nat : Has("disown", n, t) =>
           (\E u \in Nat : u <= t /\ Has("own", n, u)) \/ AtEnd(n, t))'
    <3> SUFFICES ASSUME NEW n \in Nat, NEW t \in Nat, Has("disown", n, t)'
                 PROVE  (\E u \in Nat : u <= t /\ Has("own", n, u)) \/ AtEnd(n, t)
      BY <2>2, <2>7
    <3>1. CASE Has("disown", n, t)
      BY <3>1 DEF ClaimInv
    <3>2. CASE ~Has("disown", n, t)
      <4>1. pc = "destroy" /\ t = open /\ n \in FreeData
        BY <1>3, <3>2, ReplayedHas, DestroyHas, SameHas, DestroyFrame
      <4>2. TxgInit <= t /\ (Has("own", n, TxgInit) \/ AtEnd(n, TxgInit))
        BY <4>1, FreesClaimed
      <4>3. AtEnd(n, TxgInit) => AtEnd(n, t)
        BY <4>2, Numbers DEF AtEnd
      <4> QED
        BY <4>2, <4>3, Numbers
    <3> QED
      BY <3>1, <3>2
  <2>6. ClaimedOK(zh)' /\ ClaimedOK(zhDisk)'
    BY <1>0, <2>1, <2>2 DEF ClaimInv, ClaimedOK
  <2> QED
    BY <1>0, <2>1, <2>2, <2>3, <2>4, <2>5, <2>6, <2>7 DEF ClaimInv
<1>4. CASE CrashStep
  <2>1. \A o, n, t : Has(o, n, t)' <=> Has(o, n, t) /\ t <= floor
    BY <1>4, CrashHas
  <2>2. zh' = zhDisk /\ zhDisk' = zhDisk
    BY <1>4, CrashFrame
  <2>3. ClaimedOK(zhDisk)'
    <3> SUFFICES ASSUME zhDisk.log = "chain", zhDisk.claimTxg # 0
                 PROVE  ClaimedOK(zhDisk)'
      BY <2>2 DEF ClaimedOK
    <3>1. TxgInit <= floor
      BY Numbers DEF HeaderInv
    <3>2. Has("claimEnd", zhDisk.claimSeq, TxgInit)'
      <4>1. Has("claimEnd", zhDisk.claimSeq, TxgInit)
        BY DEF ClaimInv, ClaimedOK
      <4>2. Has("claimEnd", zhDisk.claimSeq, TxgInit)' <=> <<<<"claimEnd", zhDisk.claimSeq>>, TxgInit>> \in dirtied'
        BY <2>2 DEF Has
      <4> QED
        BY <2>1, <3>1, <4>1, <4>2 DEF Has
    <3>3. \A b \in Blocks : b <= zhDisk.claimSeq => \E u \in Nat : u <= TxgInit /\ Has("alloc", b, u)'
      BY <2>1, <3>1, Numbers DEF ClaimInv, ClaimedOK
    <3>4. \A r \in Indirect : New(r) /\ BlockOf[r] < zhDisk.claimSeq =>
            Has("own", DataOf[r], TxgInit)'
      BY <2>1, <3>1, Numbers DEF ClaimInv, ClaimedOK
    <3> QED
      BY <1>0, <2>2, <3>2, <3>3, <3>4 DEF ClaimInv, ClaimedOK
  <2>4. ClaimedOK(zh)'
    BY <2>2, <2>3 DEF ClaimedOK
  <2>5. \A b \in Blocks : birth[b] < TxgInit => birth[b] <= floor
    BY Numbers DEF EngineInv
  <2>6. \A t, u \in Nat : u <= t /\ t <= floor => u <= floor
    BY Numbers
  <2>7. \A n, t \in Nat : AtEnd(n, t) /\ t <= floor => AtEnd(n, t)'
    BY <2>1, <2>6 DEF AtEnd
  <2> QED
    BY <1>0, <2>1, <2>2, <2>3, <2>4, <2>5, <2>6, <2>7 DEF ClaimInv
<1> QED
  BY <1>1, <1>2, <1>3, <1>4, StepCases

LEMMA FreeStep ==
  ASSUME TypeInv, EngineInv, HeaderInv, FreeInv, [Next]_vars, HeaderInv'
  PROVE  FreeInv'
<1>1. CASE Quiet
  <2>1. \A o, n, t : Has(o, n, t)' <=> Has(o, n, t)
    BY <1>1, SameHas
  <2> QED
    BY <1>1, <2>1, QuietFrame, QuietPc DEF FreeInv
<1>2. CASE Claim \/ Replayed
  <2>1. \A n, t : \A o \in Ending : Has(o, n, t)' <=> Has(o, n, t)
    BY <1>2, ClaimHas, ReplayedHas, SameHas DEF Ending
  <2>2. ~Ended
    BY <1>2 DEF Claim, Replayed, Ended
  <2>3. UNCHANGED <<floor, zhDisk>> /\ zh'.log = zh.log
    <3>1. CASE Claim /\ zh.claimTxg = 0 /\ zh.log # "hole"
      BY <3>1, ClaimFrame
    <3> QED
      BY <1>2, <3>1, ReplayedFrame DEF Claim
  <2> QED
    BY <2>1, <2>2, <2>3 DEF FreeInv, Ending
<1>3. CASE Destroy
  <2>1. ~Ended /\ Ended' /\ UNCHANGED <<floor, zh, zhDisk>>
    BY <1>3, DestroyFrame DEF Ended
  <2>2. CASE zh.log = "chain"
    <3>1. \A n, t : \A o \in Ending : Has(o, n, t)' => t = open
      <4>1. \A n, t : \A o \in Ending : ~Has(o, n, t)
        BY <2>1, <2>2, HasType DEF FreeInv
      <4> QED
        BY <1>3, <2>2, <4>1, DestroyHas DEF Ending
    <3>2. zlDestroyTxg' = open /\ floor < open
      BY <1>3, <2>2, DestroyFrame DEF EngineInv
    <3>3. (\A n, t \in Nat : Has("drop", n, t) => n \in Recs)'
      BY <1>3, <2>2, DestroyHas DEF FreeInv, GivenUp
    <3> QED
      BY <2>1, <3>1, <3>2, <3>3 DEF FreeInv, Ending
  <2>3. CASE zh.log # "chain"
    <3>1. pc = "keep" /\ GivenUp = {}
      BY <1>3, <2>3, DestroyFrame DEF HeaderInv, GivenUp
    <3>2. \A n, t : \A o \in Ending : Has(o, n, t)' <=> Has(o, n, t)
      BY <1>3, <3>1, DestroyHas, SameHas DEF Ending
    <3> QED
      BY <2>1, <2>3, <3>2 DEF FreeInv, Ending
  <2> QED
    BY <2>2, <2>3
<1>4. CASE ZilSync
  <2>1. \A o, n, t : Has(o, n, t)' <=> Has(o, n, t)
    BY <1>4, SameHas
  <2>2. zh'.log = "chain" => zh.log = "chain"
    BY <1>4, SyncFrame
  <2>3. UNCHANGED <<floor, zhDisk, zlDestroyTxg>> /\ Ended' = Ended
    BY <1>4, SyncFrame DEF Ended
  <2> QED
    BY <2>1, <2>2, <2>3 DEF FreeInv
<1>5. CASE CommitTxg
  <2>1. \A o, n, t : Has(o, n, t)' <=> Has(o, n, t)
    BY <1>5, SameHas
  <2>2. /\ UNCHANGED <<zh, zlDestroyTxg>> /\ zhDisk' = zh /\ floor' = floor + 1
        /\ Upto' = floor + 1 /\ Ended' = Ended
    BY <1>5, CommitFrame DEF Ended, Upto
  <2>3. zh.log = "chain" /\ Ended => floor + 1 < zlDestroyTxg
    BY <2>2 DEF HeaderInv
  <2> QED
    BY <2>1, <2>2, <2>3 DEF FreeInv
<1>6. CASE CrashStep
  <2>1. \A o, n, t : Has(o, n, t)' <=> Has(o, n, t) /\ t <= floor
    BY <1>6, CrashHas
  <2>2. zh' = zhDisk /\ zhDisk' = zhDisk /\ floor' = floor
    BY <1>6, CrashFrame
  <2>3. zhDisk.log = "chain" =>
          \A o \in Ending : \A n, t \in Nat : ~Has(o, n, t)'
    <3>1. \A t \in Nat : ~(floor < t /\ t <= floor)
      BY Numbers
    <3> QED
      BY <2>1, <3>1 DEF FreeInv
  <2> QED
    BY <2>1, <2>2, <2>3 DEF FreeInv
<1> QED
  BY <1>1, <1>2, <1>3, <1>4, <1>5, <1>6, StepCases

-----------------------------------------------------------------------------
(* When the log is gone *)

LEMMA GoneGrows ==
  ASSUME TypeInv, [Next]_vars, ~CrashStep, NEW t \in Nat, NEW u \in Nat, t <= u, GoneBy(t)
  PROVE  GoneBy(u)'
<1>2. \A o, n, v : Has(o, n, v) => Has(o, n, v)'
  BY HasGrows
<1>3. \A v \in Nat : v <= t => v <= u
  OBVIOUS
<1> QED
  BY <1>2, <1>3 DEF GoneBy

\* The txg that destroys the log leaves no record behind.
LEMMA DestroyGone ==
  ASSUME TypeInv, EngineInv, HeaderInv, AppliesInv, LoopInv, ClaimInv, Destroy,
         zh.log = "chain"
  PROVE  GoneBy(open)'
<1>1. \A o, n, t : Has(o, n, t)' <=>
           \/ Has(o, n, t)
           \/ t = open /\ ((o = "ds" /\ n = 0)
                        \/ (o = "drop" /\ n \in GivenUp)
                        \/ (pc # "keep" /\ o = "free" /\ n \in SeenBlocks)
                        \/ (pc # "keep" /\ o = "disown" /\ n \in FreeData)
                        \/ (pc # "keep" /\ o = "destroyEnd" /\ n = Readable))
  BY DestroyHas
<1>2. open' = open /\ pc \in {"keep", "destroy"}
  BY DestroyFrame
<1>3. \A r \in Recs : \E u \in Nat : u <= open /\ (Has("apply", r, u)' \/ Has("drop", r, u)')
  <2> SUFFICES ASSUME NEW r \in Recs, r \notin GivenUp
               PROVE  \E u \in Nat : u <= open /\ Has("apply", r, u)
    BY <1>1, Numbers
  <2>1. CASE ~New(r)
    BY <2>1, HasOpen, Numbers DEF AppliesInv
  <2>2. CASE New(r)
    <3>1. r \in ParsedRecs /\ (zlStopReplay => r < cur)
      BY Numbers DEF GivenUp
    <3>2. pc = "destroy"
      BY <1>2, <3>1, Numbers DEF HeaderInv, ParsedRecs, ReadBlocks
    <3>3. Done(r, open)
      BY <2>2, <3>1, <3>2 DEF LoopInv
    <3> QED
      BY <3>3 DEF Done
  <2> QED
    BY <2>1, <2>2
<1> QED
  BY <1>2, <1>3, Numbers DEF GoneBy

LEMMA GoneStep ==
  ASSUME TypeInv, EngineInv, HeaderInv, AppliesInv, LoopInv, ClaimInv, GoneInv, [Next]_vars
  PROVE  GoneInv'
<1>1. CASE (Quiet \/ Claim \/ Replayed) /\ ~CrashStep
  <2>1. ~CrashStep
    BY <1>1
  <2>2. /\ zh'.log = zh.log /\ UNCHANGED <<floor, zhDisk, zlDestroyTxg, synced>> /\ Upto' = Upto
        /\ Ended' => Ended
    <3>1. CASE Claim /\ zh.claimTxg = 0 /\ zh.log # "hole"
      BY <3>1, ClaimFrame DEF Upto, Ended
    <3>2. CASE ~(Claim /\ zh.claimTxg = 0 /\ zh.log # "hole")
      BY <1>1, <3>2, QuietFrame, QuietPc, ReplayedFrame DEF Claim, Upto, Ended, zilog
    <3> QED
      BY <3>1, <3>2
  <2> QED
    BY <2>1, <2>2, GoneGrows, Numbers DEF GoneInv
<1>2. CASE Destroy
  <2>1. ~CrashStep
    BY <1>2 DEF Destroy, CrashStep, Crash
  <2>2. UNCHANGED <<zh, zhDisk, floor, synced, open>> /\ Upto' = Upto
        /\ (zh.log = "chain" => zlDestroyTxg' = open)
    BY <1>2, DestroyFrame DEF Upto
  <2> QED
    BY <1>2, <2>1, <2>2, GoneGrows, DestroyGone, Numbers DEF GoneInv
<1>3. CASE ZilSync
  <2>1. ~CrashStep
    BY <1>3 DEF ZilSync, CrashStep, Crash
  <2>2. UNCHANGED <<zhDisk, floor, zlDestroyTxg>> /\ Upto' = floor + 1 /\ Upto = floor
        /\ Ended' = Ended /\ floor + 1 \in Nat /\ floor <= floor + 1
    BY <1>3, SyncFrame, Numbers DEF Upto, Ended
  <2>3. zh'.log # "chain" => GoneBy(floor + 1)'
    <3>1. CASE zh.log # "chain"
      BY <2>1, <2>2, <3>1, GoneGrows, Numbers DEF GoneInv
    <3>2. CASE zh.log = "chain" /\ zh'.log # "chain"
      <4>1. zlDestroyTxg = floor + 1 /\ Ended
        BY <1>3, <3>2, SyncFrame, Numbers DEF HeaderInv, EngineInv, TXG_SIZE
      <4> QED
        BY <2>1, <2>2, <3>2, <4>1, GoneGrows, Numbers DEF GoneInv
    <3> QED
      BY <3>1, <3>2
  <2>4. zh'.log = "chain" => zh.log = "chain"
    BY <1>3, SyncFrame
  <2> QED
    BY <2>1, <2>2, <2>3, <2>4, GoneGrows, Numbers DEF GoneInv
<1>4. CASE CommitTxg
  <2>1. ~CrashStep
    BY <1>4 DEF CommitTxg, CrashStep, Crash, Engine!Commit
  <2>2. UNCHANGED <<zh, zlDestroyTxg>> /\ zhDisk' = zh /\ floor' = floor + 1 /\ Upto' = floor + 1
        /\ Ended' = Ended /\ floor + 1 \in Nat /\ Upto <= floor + 1
    BY <1>4, CommitFrame, Numbers DEF Upto, Ended
  <2> QED
    BY <2>1, <2>2, GoneGrows, Numbers DEF GoneInv
<1>5. CASE CrashStep
  <2>1. \A o, n, t : Has(o, n, t)' <=> Has(o, n, t) /\ t <= floor
    BY <1>5, CrashHas
  <2>2. zh' = zhDisk /\ zhDisk' = zhDisk /\ floor' = floor /\ Upto' = floor /\ ~Ended'
    BY <1>5, CrashFrame DEF Upto, Ended
  <2>3. GoneBy(floor) => GoneBy(floor)'
    BY <2>1, <2>2 DEF GoneBy
  <2> QED
    BY <2>2, <2>3 DEF GoneInv, GoneBy
<1> QED
  BY <1>1, <1>2, <1>3, <1>4, <1>5, StepCases

LEMMA EndStep ==
  ASSUME TypeInv, EngineInv, HeaderInv, ClaimInv, FreeInv, EndInv, [Next]_vars
  PROVE  EndInv'
<1> SUFFICES ASSUME NEW c \in Nat, NEW u \in Nat, NEW n \in Nat, NEW t \in Nat,
                    Has("claimEnd", c, u)', Has("destroyEnd", n, t)'
             PROVE  FreedBy(c, n, t)'
  BY DEF EndInv
<1>0. \A r : New(r)' <=> New(r)
  BY LogFixed
<1>1. CASE Has("claimEnd", c, u) /\ Has("destroyEnd", n, t)
  <2>1. FreedBy(c, n, t)
    BY <1>1 DEF EndInv
  <2>2. \A o, m : Has(o, m, t) => Has(o, m, t)'
    <3>1. CASE CrashStep
      BY <3>1, CrashHas
    <3>2. CASE ~CrashStep
      BY <3>2, HasGrows
    <3> QED
      BY <3>1, <3>2
  <2> QED
    BY <1>0, <2>1, <2>2 DEF FreedBy
<1>2. CASE ~Has("claimEnd", c, u)
  <2>1. Claim /\ zh.claimTxg = 0 /\ zh.log = "chain"
    BY <1>2, StepCases, SameHas, ClaimHas, ReplayedHas, DestroyHas, CrashHas
  <2>2. Has("destroyEnd", n, t) /\ ~Ended
    BY <2>1, ClaimHas DEF Claim, Ended
  <2> QED
    BY <2>1, <2>2 DEF FreeInv, Ending
<1>3. CASE ~Has("destroyEnd", n, t)
  <2>1. Destroy /\ pc = "destroy" /\ zh.log # "hole" /\ t = open /\ n = Readable
    BY <1>3, StepCases, SameHas, ClaimHas, ReplayedHas, DestroyHas, CrashHas, DestroyFrame
  <2>2. zh.log = "chain" /\ zh.claimTxg = TxgInit /\ TxgInit # 0
    BY <2>1, Numbers DEF HeaderInv
  <2>3. Has("claimEnd", c, u) /\ Has("claimEnd", zh.claimSeq, TxgInit)
    BY <2>1, <2>2, DestroyHas DEF ClaimInv, ClaimedOK
  <2>4. c = zh.claimSeq
    BY <2>3, Numbers DEF ClaimInv
  <2>5. \A b \in Blocks : b <= c /\ b <= n + 1 => Has("free", b, t)'
    BY <2>1, <2>4, DestroyHas DEF SeenBlocks, InClaim
  <2>6. \A r \in Indirect :
          New(r) /\ BlockOf[r] <= c /\ BlockOf[r] <= n => Has("disown", DataOf[r], t)'
    <3> SUFFICES ASSUME NEW r \in Indirect, New(r), BlockOf[r] <= c, BlockOf[r] <= n
                 PROVE  Has("disown", DataOf[r], t)'
      OBVIOUS
    <3>1. r \in Recs
      BY IndirectAssumption
    <3>2. BlockOf[r] \in ReadBlocks
      BY <2>1, <2>4, <3>1, Numbers DEF ReadBlocks, InClaim, Blocks
    <3>3. DataOf[r] \in DataFrom(TxgInit)
      BY <3>1, <3>2, DataHas DEF ParsedRecs, New
    <3> QED
      BY <2>1, <2>2, <3>3, DestroyHas DEF FreeData
  <2> QED
    BY <1>0, <2>5, <2>6 DEF FreedBy
<1> QED
  BY <1>1, <1>2, <1>3

-----------------------------------------------------------------------------
(* The invariant holds *)

LEMMA InitHas ==
  ASSUME Init, NEW o, NEW n, NEW t
  PROVE  Has(o, n, t) <=>
           \/ o = "apply" /\ n \in Recs /\ lrTxg[n] < TxgInit /\ t = lrTxg[n]
           \/ o = "alloc" /\ n \in Blocks /\ birth[n] < TxgInit /\ t = birth[n]
<1> DEFINE A == UNION {Made("apply", {r}, lrTxg[r]) : r \in {s \in Recs : lrTxg[s] < TxgInit}}
           B == UNION {Made("alloc", {b}, birth[b]) : b \in {c \in Blocks : birth[c] < TxgInit}}
<1>1. <<<<o, n>>, t>> \in A <=> o = "apply" /\ n \in Recs /\ lrTxg[n] < TxgInit /\ t = lrTxg[n]
  BY DEF Made
<1>2. <<<<o, n>>, t>> \in B <=> o = "alloc" /\ n \in Blocks /\ birth[n] < TxgInit /\ t = birth[n]
  BY DEF Made
<1>3. dirtied = A \cup B
  BY DEF Init
<1> HIDE DEF A, B
<1> QED
  BY <1>1, <1>2, <1>3 DEF Has

LEMMA InitInv ==
  ASSUME Init
  PROVE  IInv
<1>t. /\ TxgInit \in Nat /\ TxgInit >= 4 /\ NBlocks \in Nat /\ NRecs \in Nat
      /\ Recs \subseteq Nat /\ Blocks \subseteq Nat /\ OldTxgs \subseteq Nat
  BY TxgInitAssumption, SizesAssumption, OldTxgsAssumption DEF Recs, Blocks
<1>d. \A x \in dirtied : x \in (Ops \X Nat) \X Nat /\ x[2] < TxgInit
  <2> DEFINE A == UNION {Made("apply", {r}, lrTxg[r]) : r \in {s \in Recs : lrTxg[s] < TxgInit}}
             B == UNION {Made("alloc", {b}, birth[b]) : b \in {c \in Blocks : birth[c] < TxgInit}}
  <2>1. \A r \in Recs : lrTxg[r] \in Nat
    BY <1>t DEF Init
  <2>2. \A b \in Blocks : birth[b] \in Nat
    BY <1>t DEF Init
  <2>3. ASSUME NEW r \in Recs, lrTxg[r] < TxgInit, NEW x \in Made("apply", {r}, lrTxg[r])
        PROVE  x \in (Ops \X Nat) \X Nat /\ x[2] < TxgInit
    <3>1. x = <<<<"apply", r>>, lrTxg[r]>>
      BY <2>3 DEF Made
    <3> QED
      BY <1>t, <2>1, <2>3, <3>1 DEF Ops
  <2>4. ASSUME NEW b \in Blocks, birth[b] < TxgInit, NEW x \in Made("alloc", {b}, birth[b])
        PROVE  x \in (Ops \X Nat) \X Nat /\ x[2] < TxgInit
    <3>1. x = <<<<"alloc", b>>, birth[b]>>
      BY <2>4 DEF Made
    <3> QED
      BY <1>t, <2>2, <2>4, <3>1 DEF Ops
  <2>5. dirtied = A \cup B
    BY DEF Init
  <2>6. \A x \in A : \E r \in Recs : lrTxg[r] < TxgInit /\ x \in Made("apply", {r}, lrTxg[r])
    OBVIOUS
  <2>7. \A x \in B : \E b \in Blocks : birth[b] < TxgInit /\ x \in Made("alloc", {b}, birth[b])
    OBVIOUS
  <2> HIDE DEF A, B
  <2> QED
    BY <2>3, <2>4, <2>5, <2>6, <2>7
<1>i. /\ open = TxgInit /\ floor = TxgInit - 1 /\ holders = {} /\ durable = dirtied
      /\ readable \in 0..NBlocks /\ birth[1] < TxgInit /\ synced = FALSE
      /\ zlReplaySeq = NoReplay /\ zlDestroyTxg = 3 /\ zlKeepFirst = FALSE /\ zlStopReplay = FALSE
      /\ pc = "import" /\ until = 0 /\ cur = 0 /\ rtxg = 0
  BY DEF Init, TXG_SIZE
<1>f. floor \in Nat /\ \A x \in dirtied : x[2] <= floor /\ x[2] <= open
  BY <1>t, <1>d, <1>i
<1>z. /\ zh = Header("chain", 0, 0, 0) /\ zhDisk = zh
      /\ zh.log = "chain" /\ zh.claimTxg = 0 /\ zh.claimSeq = 0 /\ zh.replaySeq = 0 /\ zh \in Headers
  <2>1. zh = Header("chain", 0, 0, 0) /\ zhDisk = zh
    BY DEF Init
  <2> QED
    BY <2>1, HeaderFields
<1>1. TypeInv
  <2>1. zlReplaySeq \in [0..(TXG_SIZE - 1) -> Nat]
    BY DEF Init, NoReplay, TXG_SIZE
  <2>2. lrTxg \in [Recs -> Nat] /\ birth \in [Blocks -> Nat]
    BY <1>t DEF Init
  <2>3. \A r, s \in Indirect : DataOf[r] = DataOf[s] => lrTxg[r] = lrTxg[s]
    BY DEF Init
  <2> QED
    BY <1>t, <1>d, <1>f, <1>i, <1>z, <2>1, <2>2, <2>3 DEF TypeInv, Labels
<1>2. EngineInv
  BY <1>t, <1>f, <1>i, <1>z DEF EngineInv
<1>3. HeaderInv
  BY <1>t, <1>z DEF Init, HeaderInv, Replaying, Ended
<1>4. AppliesInv
  BY <1>t, <1>1, InitHas, Numbers DEF AppliesInv, New
<1>5. SeqInv
  <2>1. \A r \in Recs : \A t : New(r) => ~(r <= zh.replaySeq) /\ ~Done(r, t)
    BY <1>z, <1>t, <1>1, Numbers, InitHas DEF Recs, New, Done
  <2>2. \A t \in Nat : Dirtied(t) => ~(floor < t)
    BY <1>f DEF Dirtied
  <2> QED
    BY <1>z, <2>1, <2>2 DEF SeqInv
<1>6. LoopInv
  <2>1. pc = "import"
    BY DEF Init
  <2>2. \A r, t \in Nat : Has("apply", r, t) => t <= floor
    BY <1>f DEF Has
  <2> QED
    BY <2>1, <2>2 DEF LoopInv, Replaying
<1>7. ClaimInv
  BY <1>z, InitHas DEF ClaimInv, ClaimedOK
<1>8. FreeInv /\ EndInv
  BY InitHas DEF FreeInv, Ending, EndInv
<1>9. GoneInv
  BY <1>z DEF GoneInv, Ended, Init
<1> QED
  BY <1>1, <1>2, <1>3, <1>4, <1>5, <1>6, <1>7, <1>8, <1>9 DEF IInv

LEMMA StepInv ==
  ASSUME IInv, [Next]_vars
  PROVE  IInv'
<1>1. TypeInv' /\ EngineInv'
  BY TypeStep, EngineStep DEF IInv
<1>2. HeaderInv' /\ AppliesInv' /\ SeqInv'
  BY HeaderStep, AppliesStep, SeqStep DEF IInv
<1>3. LoopInv'
  BY <1>1, <1>2, LoopStep DEF IInv
<1>4. ClaimInv' /\ FreeInv' /\ GoneInv' /\ EndInv'
  BY <1>2, ClaimStep, FreeStep, GoneStep, EndStep DEF IInv
<1> QED
  BY <1>1, <1>2, <1>3, <1>4 DEF IInv

\* The invariant: after any number of crashes, in every state of the import, the
\* replay, the destruction and the syncing of the log.
THEOREM Invariant == Spec => []IInv
<1>1. Init => IInv
  BY InitInv
<1>2. IInv /\ [Next]_vars => IInv'
  BY StepInv
<1> QED
  BY <1>1, <1>2, PTL DEF Spec

-----------------------------------------------------------------------------
(* The properties *)

LEMMA KeptHas ==
  ASSUME TypeInv, EngineInv, NEW op, NEW n
  PROVE  n \in Kept(op) <=> \E t \in Nat : t <= floor /\ Has(op, n, t)
<1>1. ASSUME n \in Kept(op) PROVE \E t \in Nat : t <= floor /\ Has(op, n, t)
  <2>1. PICK x \in durable : x[1][1] = op /\ n = x[1][2]
    BY <1>1 DEF Kept
  <2>2. x \in dirtied /\ x[2] <= floor
    BY <2>1 DEF EngineInv
  <2> QED
    BY <2>1, <2>2, ChangeHas DEF Has
<1>2. ASSUME NEW t \in Nat, t <= floor, Has(op, n, t) PROVE n \in Kept(op)
  <2>1. <<<<op, n>>, t>> \in durable
    BY <1>2 DEF EngineInv, Has
  <2> QED
    BY <2>1 DEF Kept
<1> QED
  BY <1>1, <1>2

\* Two changes of one kind are two facts about one thing.
LEMMA PairHas ==
  ASSUME TypeInv, NEW x \in dirtied
  PROVE  Has(x[1][1], x[1][2], x[2]) /\ x[1] = <<x[1][1], x[1][2]>> /\ x[1][2] \in Nat /\ x[2] \in Nat
<1>1. x = <<<<x[1][1], x[1][2]>>, x[2]>> /\ x[1][2] \in Nat /\ x[2] \in Nat
  BY ChangeHas
<1>2. x[1] = <<x[1][1], x[1][2]>>
  BY DEF TypeInv
<1> QED
  BY <1>1, <1>2 DEF Has

\* zil_replay_log_record() and the crashes around it never apply a record twice,
\* whatever the log, the records and the number of crashes.
THEOREM ReplaysOnce == Spec => []AppliedOnce
<1>1. IInv => AppliedOnce
  <2> SUFFICES ASSUME IInv, NEW x \in dirtied, NEW y \in dirtied, x[1] = y[1], x[1][1] = "apply"
               PROVE  x[2] = y[2]
    BY DEF AppliedOnce
  <2>1. Has("apply", x[1][2], x[2]) /\ Has("apply", x[1][2], y[2])
        /\ x[1][2] \in Nat /\ x[2] \in Nat /\ y[2] \in Nat
    BY PairHas DEF IInv
  <2> QED
    BY <2>1 DEF IInv, AppliesInv
<1> QED
  BY <1>1, Invariant, PTL

\* The header on disk tells exactly which records of the log are in the file
\* system: zil_sync() writes zh_replay_seq with the txg that holds the changes.
THEOREM HeaderExact == Spec => []HeaderAgrees
<1>1. IInv => HeaderAgrees
  <2> SUFFICES ASSUME IInv, zhDisk.log = "chain", NEW r \in Recs
               PROVE  r \in Kept("apply") <=>
                        (lrTxg[r] < TxgInit \/ (zhDisk.claimTxg # 0 /\ r <= zhDisk.replaySeq))
    BY DEF HeaderAgrees
  <2>1. r \in Kept("apply") <=> \E t \in Nat : t <= floor /\ Has("apply", r, t)
    BY KeptHas DEF IInv
  <2>2. r \in Nat /\ r > 0 /\ lrTxg[r] \in Nat /\ TxgInit \in Nat /\ floor \in Nat /\ TxgInit - 1 <= floor
    BY Numbers DEF IInv, Recs, EngineInv
  <2>3. CASE ~New(r)
    <3>1. Has("apply", r, lrTxg[r]) /\ lrTxg[r] < TxgInit
      BY <2>2, <2>3 DEF IInv, AppliesInv, New
    <3> QED
      BY <2>1, <2>2, <3>1
  <2>4. CASE New(r)
    <3>1. r \in Kept("apply") <=> Done(r, floor)
      BY <2>1, <2>2, <2>4 DEF IInv, AppliesInv, Done
    <3>2. Done(r, floor) <=> r <= zhDisk.replaySeq
      BY <2>4 DEF IInv, SeqInv
    <3>3. zhDisk.claimTxg = 0 => ~(r <= zhDisk.replaySeq)
      BY <2>2 DEF IInv, HeaderInv
    <3> QED
      BY <2>2, <2>4, <3>1, <3>2, <3>3 DEF New
  <2> QED
    BY <2>3, <2>4
<1> QED
  BY <1>1, Invariant, PTL

\* A log that is gone from the disk took no record with it that was not given up.
THEOREM KeepsAll == Spec => []NothingLost
<1>1. IInv => NothingLost
  <2> SUFFICES ASSUME IInv, zhDisk.log # "chain"
               PROVE  Recs = Kept("apply") \cup Kept("drop")
    BY DEF NothingLost
  <2>1. \A o, n : n \in Kept(o) <=> \E t \in Nat : t <= floor /\ Has(o, n, t)
    BY KeptHas DEF IInv
  <2>2. \A o, n, t : Has(o, n, t) => n \in Nat
    BY HasType DEF IInv
  <2>3. GoneBy(floor)
    BY DEF IInv, GoneInv
  <2>4. \A r \in Recs : r \in Kept("apply") \/ r \in Kept("drop")
    BY <2>1, <2>3 DEF GoneBy
  <2>5. \A n : n \in Kept("apply") \/ n \in Kept("drop") => n \in Recs
    BY <2>1, <2>2 DEF IInv, AppliesInv, FreeInv
  <2> QED
    BY <2>4, <2>5
<1> QED
  BY <1>1, Invariant, PTL

\* zil_destroy() frees what was allocated for the log, and frees it once, also
\* when a crash undoes the destruction and it is done again, and when devices fail
\* and come back.  Only data of the block at zh_claim_seq may not have been claimed.
THEOREM FreesOnce == Spec => []FreesOwn
<1>1. IInv => FreesOwn
  <2> SUFFICES ASSUME IInv, NEW x \in dirtied
               PROVE  /\ x[1][1] = "free" => \E y \in dirtied : y[1] = <<"alloc", x[1][2]>> /\ y[2] <= x[2]
                      /\ x[1][1] = "disown" =>
                           \E y \in dirtied :
                             \/ y[1] = <<"own", x[1][2]>> /\ y[2] <= x[2]
                             \/ \E r \in Indirect :
                                  DataOf[r] = x[1][2] /\ y[1] = <<"claimEnd", BlockOf[r]>>
                      /\ \A y \in dirtied : x[1] = y[1] /\ x[1][1] \in {"free", "disown"} => x = y
    BY DEF FreesOwn
  <2>1. /\ Has(x[1][1], x[1][2], x[2]) /\ x[1][2] \in Nat /\ x[2] \in Nat
    BY PairHas DEF IInv
  <2>2. ASSUME x[1][1] = "free" PROVE \E y \in dirtied : y[1] = <<"alloc", x[1][2]>> /\ y[2] <= x[2]
    <3>1. PICK u \in Nat : u <= x[2] /\ Has("alloc", x[1][2], u)
      BY <2>1, <2>2 DEF IInv, ClaimInv
    <3> QED
      BY <3>1 DEF Has
  <2>3. ASSUME x[1][1] = "disown"
        PROVE  \E y \in dirtied :
                 \/ y[1] = <<"own", x[1][2]>> /\ y[2] <= x[2]
                 \/ \E r \in Indirect : DataOf[r] = x[1][2] /\ y[1] = <<"claimEnd", BlockOf[r]>>
    <3>1. (\E u \in Nat : u <= x[2] /\ Has("own", x[1][2], u)) \/ AtEnd(x[1][2], x[2])
      BY <2>1, <2>3 DEF IInv, ClaimInv
    <3>2. CASE \E u \in Nat : u <= x[2] /\ Has("own", x[1][2], u)
      BY <3>2 DEF Has
    <3>3. CASE AtEnd(x[1][2], x[2])
      BY <3>3 DEF AtEnd, Has
    <3> QED
      BY <3>1, <3>2, <3>3
  <2>4. ASSUME NEW y \in dirtied, x[1] = y[1], x[1][1] \in {"free", "disown"} PROVE x = y
    <3>1. Has(y[1][1], y[1][2], y[2]) /\ y[1][2] \in Nat /\ y[2] \in Nat
      BY PairHas DEF IInv
    <3>2. x[2] = y[2]
      BY <2>1, <2>4, <3>1 DEF IInv, FreeInv
    <3> QED
      BY <2>4, <3>2, ChangeHas DEF IInv
  <2> QED
    BY <2>2, <2>3, <2>4
<1> QED
  BY <1>1, Invariant, PTL

\* A destroyed log leaves nothing allocated that the claim and the destruction both
\* found, whatever devices failed or came back in between.
THEOREM FreesAll == Spec => []NoLeak
<1>1. IInv => NoLeak
  <2> SUFFICES ASSUME IInv, NEW c \in Kept("claimEnd"), NEW n \in Kept("destroyEnd")
               PROVE  /\ \A b \in Kept("alloc") : b <= c /\ b <= n + 1 => b \in Kept("free")
                      /\ \A r \in Indirect :
                           DataOf[r] \in Kept("own") /\ BlockOf[r] <= n => DataOf[r] \in Kept("disown")
    BY DEF NoLeak
  <2>1. \A o, m : m \in Kept(o) <=> \E t \in Nat : t <= floor /\ Has(o, m, t)
    BY KeptHas DEF IInv
  <2>2. PICK u \in Nat : u <= floor /\ Has("claimEnd", c, u)
    BY <2>1
  <2>3. PICK t \in Nat : t <= floor /\ Has("destroyEnd", n, t)
    BY <2>1
  <2>4. c \in Nat /\ n \in Nat
    BY <2>2, <2>3, HasType DEF IInv
  <2>5. FreedBy(c, n, t)
    BY <2>2, <2>3, <2>4 DEF IInv, EndInv
  <2>6. ASSUME NEW b \in Kept("alloc"), b <= c, b <= n + 1
        PROVE  b \in Kept("free")
    <3>1. PICK v \in Nat : v <= floor /\ Has("alloc", b, v)
      BY <2>1, <2>6
    <3>2. b \in Blocks
      BY <3>1, HasType DEF IInv, ClaimInv
    <3> QED
      BY <2>1, <2>3, <2>5, <2>6, <3>2 DEF FreedBy
  <2>7. ASSUME NEW r \in Indirect, DataOf[r] \in Kept("own"), BlockOf[r] <= n
        PROVE  DataOf[r] \in Kept("disown")
    <3>1. PICK v \in Nat : v <= floor /\ Has("own", DataOf[r], v)
      BY <2>1, <2>7
    <3>2. DataOf[r] \in Nat
      BY IndirectAssumption
    <3>3. PICK s \in Indirect : DataOf[r] = DataOf[s] /\ New(s) /\ BlockOf[s] < c
      BY <2>2, <2>4, <3>1, <3>2 DEF IInv, ClaimInv
    <3>4. New(r)
      BY <3>3 DEF IInv, TypeInv, New
    <3>5. BlockOf[r] \in Nat /\ BlockOf[s] \in Nat
      BY Numbers, IndirectAssumption DEF IInv
    <3>6. CASE BlockOf[s] <= n
      <4>1. BlockOf[s] <= c
        BY <2>4, <3>3, <3>5
      <4>2. Has("disown", DataOf[s], t)
        BY <2>5, <3>3, <3>6, <4>1 DEF FreedBy
      <4> QED
        BY <2>1, <2>3, <3>3, <4>2
    <3>7. CASE n < BlockOf[s]
      <4>1. BlockOf[r] <= c
        BY <2>4, <2>7, <3>3, <3>5, <3>7
      <4>2. Has("disown", DataOf[r], t)
        BY <2>5, <2>7, <3>4, <4>1 DEF FreedBy
      <4> QED
        BY <2>1, <2>3, <4>2
    <3> QED
      BY <2>4, <3>5, <3>6, <3>7
  <2> QED
    BY <2>6, <2>7
<1> QED
  BY <1>1, Invariant, PTL
=============================================================================

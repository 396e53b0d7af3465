----------------------------- MODULE ZilReplay -----------------------------
(***************************************************************************)
(* Recovery of the intent log (uts/common/fs/zfs/zil.c): after a crash the *)
(* import of the pool claims the blocks of the log (zil_claim()), the      *)
(* mount replays its records (zil_replay()) and destroys it                *)
(* (zil_destroy()), and zil_sync() writes the header with each txg.  The   *)
(* machine may crash again at any point.  Txgs behave as TxgService says.  *)
(*                                                                         *)
(* The log is that of one dataset, as the first crash left it: blocks      *)
(* 1..NBlocks are written, block NBlocks + 1 is the one allocated in       *)
(* advance, and the records are numbered in the order of the log, which is *)
(* their lrc_seq.  What is done to the pool is a set of <<change, txg>>: a *)
(* change <<op, n>> applies or drops record n, allocates or frees log      *)
(* block n, or claims ("own") or frees ("disown") data block n.  Two more  *)
(* are history: the claim ended at block n, and the log was destroyed when *)
(* n of its blocks could be read.                                          *)
(***************************************************************************)
EXTENDS Integers

CONSTANTS NBlocks, NRecs,
          BlockOf,              \* the log block of each record
          Indirect, DataOf,     \* records whose data is in a block of its own,
                                \* and that block
          TxgInit,              \* the first txg after the first crash
          OldTxgs               \* txgs that records and blocks may be of

Blocks == 1..(NBlocks + 1)
Recs == 1..NRecs

\* a log without blocks has nothing to recover
ASSUME SizesAssumption == NBlocks \in Nat \ {0} /\ NRecs \in Nat
ASSUME BlockOfAssumption ==
  /\ BlockOf \in [Recs -> 1..NBlocks]
  /\ \A r, s \in Recs : r < s => BlockOf[r] <= BlockOf[s]
ASSUME IndirectAssumption == Indirect \subseteq Recs /\ DataOf \in [Indirect -> Nat]
ASSUME TxgInitAssumption == TxgInit \in Nat /\ TxgInit >= 4    \* TXG_INITIAL
ASSUME OldTxgsAssumption == OldTxgs \subseteq Nat

VARIABLES
  open, floor, holders, dirtied, durable,   \* the txg engine
  lrTxg, birth,         \* lrc_txg of the records, blk_birth of the blocks
  readable,             \* how many blocks at the head of the log can be read
  zh, zhDisk,           \* the header in memory, and in the last synced txg
  synced,               \* the dataset is done in the txg being synced
  zlReplaySeq,          \* zl_replay_seq
  zlDestroyTxg, zlKeepFirst, zlStopReplay,
  pc,                   \* import and mount
  until,                \* the txg waited for
  cur, rtxg, pass, sunk     \* zil_replay_log_record(): record, txg of its tx

svc == <<open, floor, holders, dirtied, durable>>
log == <<lrTxg, birth>>
zilog == <<zlReplaySeq, zlDestroyTxg, zlKeepFirst, zlStopReplay>>
loop == <<cur, rtxg, pass, sunk>>
vars == <<svc, log, readable, zh, zhDisk, synced, zilog, pc, until, loop>>

Engine == INSTANCE TxgService
            WITH Clients <- {"replay"}, Objs <- {"apply"} \X Recs

TXG_SIZE == 4
Slot(t) == t % TXG_SIZE
NoReplay == [s \in 0..(TXG_SIZE - 1) |-> 0]

\* a header; log is the old chain, a new one without blocks written, or a hole
Header(l, t, s, r) == [log |-> l, claimTxg |-> t, claimSeq |-> s, replaySeq |-> r]

\* the changes that a set of numbers stands for, all made in txg t
Made(op, S, t) == {<<<<op, n>>, t>> : n \in S}
Dirtied(t) == \E x \in dirtied : x[2] = t

Init ==
  /\ lrTxg \in [Recs -> OldTxgs]
  /\ \A r, s \in Indirect : DataOf[r] = DataOf[s] => lrTxg[r] = lrTxg[s]
  /\ birth \in [Blocks -> OldTxgs]
  /\ birth[1] < TxgInit
  /\ \A b, c \in Blocks : b < c => birth[b] <= birth[c]
  /\ open = TxgInit /\ floor = TxgInit - 1 /\ holders = {}
  /\ dirtied =
       (UNION {Made("apply", {r}, lrTxg[r]) : r \in {s \in Recs : lrTxg[s] < TxgInit}})
         \cup (UNION {Made("alloc", {b}, birth[b]) : b \in {c \in Blocks : birth[c] < TxgInit}})
  /\ durable = dirtied
  /\ readable \in 0..NBlocks
  /\ zh = Header("chain", 0, 0, 0) /\ zhDisk = zh /\ synced = FALSE
  /\ zlReplaySeq = NoReplay /\ zlDestroyTxg = TXG_SIZE - 1 /\ zlKeepFirst = FALSE
  /\ zlStopReplay = FALSE
  /\ pc = "import" /\ until = 0
  /\ cur = 0 /\ rtxg = 0 /\ pass = 0 /\ sunk = FALSE

-----------------------------------------------------------------------------
(* zil_parse(): it reads the chain from zh_log up to the first block that   *)
(* cannot be read or, in a claimed log, up to block zh_claim_seq.           *)

Readable == IF zh.log = "chain" THEN readable ELSE 0

InClaim(b) == zh.claimSeq = 0 \/ b <= zh.claimSeq

\* the blocks whose records are parsed, and those parse_blk_func() is called
\* for: the unreadable block at the end is one of them
ReadBlocks == {b \in Blocks : b <= Readable /\ InClaim(b)}
ValidBlocks == ReadBlocks                                     \* mutant
SeenBlocks == {b \in Blocks : b <= Readable + 1 /\ InClaim(b)}
ParsedRecs == {r \in Recs : BlockOf[r] \in ReadBlocks}

\* what zil_parse() returns
LastSeen == Readable + 1

\* zil_claim_log_block() and _record(): what is newer than the last synced txg
\* is allocated again, a data block of several records once (zil_dva_tree_add())
ClaimBlocks(t) == {b \in SeenBlocks : birth[b] >= t}
DataFrom(t) == {DataOf[r] : r \in {s \in ParsedRecs \cap Indirect : lrTxg[s] >= t}}

\* zil_claim(), called by spa_load() for the first txg, before the pool syncs;
\* then wait until the claims are synced
Claim ==
  /\ pc = "import"
  /\ IF zh.claimTxg = 0 /\ zh.log # "hole"
     THEN /\ zh' = Header(zh.log, open, LastSeen, zh.replaySeq)
          /\ dirtied' = dirtied \cup Made("alloc", ClaimBlocks(open), open)
               \cup Made("own", DataFrom(open), open) \cup Made("ds", {0}, open)
               \cup Made("claimEnd", {b \in {LastSeen} : zh.log = "chain"}, open)
     ELSE UNCHANGED <<zh, dirtied>>
  /\ pc' = "claimed" /\ until' = open
  /\ UNCHANGED <<open, floor, holders, durable, log, readable, zhDisk, synced,
                 zilog, loop>>

\* txg_wait_synced() returns
Synced == floor >= until

\* zil_replay(): an empty log is destroyed, but its first block is kept; before
\* the others are replayed all that was done so far is synced
zil_empty == Readable = 0

Mount ==
  /\ pc = "claimed" /\ Synced
  /\ pc' = IF zil_empty THEN "keep" ELSE "start"
  /\ until' = IF zil_empty THEN zlDestroyTxg ELSE open
  /\ UNCHANGED <<svc, log, readable, zh, zhDisk, synced, zilog, loop>>

StartReplay ==
  /\ pc = "start" /\ Synced
  /\ pc' = "next" /\ cur' = 1 /\ zlStopReplay' = FALSE
  /\ UNCHANGED <<svc, log, readable, zh, zhDisk, synced, zlReplaySeq, zlDestroyTxg,
                 zlKeepFirst, until, rtxg, pass, sunk>>

-----------------------------------------------------------------------------
(* zil_replay_log_record() *)

\* already committed, and already replayed before another crash
CommittedOff(r) == lrTxg[r] <= zh.claimTxg                    \* mutant
Committed(r) == lrTxg[r] < zh.claimTxg
NotYet(r) == FALSE                                            \* mutant
ReplayedBefore(r) == r <= zh.replaySeq

ToReplay ==
  {r \in ParsedRecs :
     r >= cur /\ ~zlStopReplay /\ ~Committed(r) /\ ~ReplayedBefore(r)}

NextRecord ==
  /\ pc = "next"
  /\ \E r \in ToReplay : (\A s \in ToReplay : r <= s) /\ cur' = r
  /\ pass' = 1 /\ sunk' = FALSE
  /\ pc' = "assign"
  /\ UNCHANGED <<svc, log, readable, zh, zhDisk, synced, zilog, until, rtxg>>

\* dmu_tx_assign(TXG_WAIT), once the wait of the last pass is over
Assign ==
  /\ \/ pc = "assign"
     \/ pc = "waitopen" /\ open >= until
     \/ pc = "waitsync" /\ Synced
  /\ Engine!Enter("replay")
  /\ rtxg' = open /\ pc' = "vector"
  /\ UNCHANGED <<log, readable, zh, zhDisk, synced, zilog, until, cur, pass,
                 sunk>>

\* dmu_tx_commit() of replay_tx
Stay == UNCHANGED holders                                     \* mutant
Leave == holders' = {}

\* The replay vector made its changes, in the txg of replay_tx: it was told to
\* assign its tx to that txg, and on the first pass to the one before.
Replayed ==
  /\ pc = "vector" /\ pass # 1 /\ open = rtxg
  /\ dirtied' = dirtied \cup Made("apply", {cur}, rtxg) \cup Made("ds", {0}, rtxg)
  /\ zlReplaySeq' = [zlReplaySeq EXCEPT ![Slot(rtxg)] = cur]
  /\ Leave
  /\ pc' = "next" /\ cur' = cur + 1
  /\ UNCHANGED <<open, floor, durable, log, readable, zh, zhDisk, synced,
                 zlDestroyTxg, zlKeepFirst, zlStopReplay, until, rtxg, pass, sunk>>

\* ERESTART: at once after the first pass, in the next txg after the others
Restart ==
  /\ pc = "vector" /\ (pass = 1 \/ open # rtxg)
  /\ Leave
  /\ pc' = IF pass = 1 THEN "assign" ELSE "waitopen"
  /\ pass' = 2 /\ until' = rtxg + 1
  /\ UNCHANGED <<open, floor, dirtied, durable, log, readable, zh, zhDisk,
                 synced, zilog, cur, rtxg, sunk>>

\* dmu_tx_assign() fails: the rest of the log is given up at once
AssignError ==
  /\ \/ pc = "assign"
     \/ pc = "waitopen" /\ open >= until
     \/ pc = "waitsync" /\ Synced
  /\ pc' = "next" /\ zlStopReplay' = TRUE
  /\ UNCHANGED <<svc, log, readable, zh, zhDisk, synced, zlReplaySeq, zlDestroyTxg,
                 zlKeepFirst, until, loop>>

\* another error: once more after a sync, then the rest of the log is given up
ReplayError ==
  /\ pc = "vector"
  /\ Leave
  /\ IF sunk
     THEN pc' = "next" /\ zlStopReplay' = TRUE /\ UNCHANGED <<until, pass, sunk>>
     ELSE /\ pc' = "waitsync" /\ until' = open /\ pass' = 2 /\ sunk' = TRUE
          /\ UNCHANGED zlStopReplay
  /\ UNCHANGED <<open, floor, dirtied, durable, log, readable, zh, zhDisk, synced,
                 zlReplaySeq, zlDestroyTxg, zlKeepFirst, cur, rtxg>>

EndReplay ==
  /\ pc = "next" /\ ToReplay = {}
  /\ pc' = "destroy" /\ until' = zlDestroyTxg
  /\ UNCHANGED <<svc, log, readable, zh, zhDisk, synced, zilog, loop>>

-----------------------------------------------------------------------------
(* zil_destroy() in open context, after the wait for a destroy before it *)

\* zil_free_log_record(): data of the file system is not freed with the log
FreeAllData == DataFrom(0)                                    \* mutant
FreeData == IF zh.claimTxg # 0 THEN DataFrom(zh.claimTxg) ELSE {}

\* the records that are given up for good, as unreadable or after an error
GivenUp ==
  {r \in Recs : zh.log = "chain" /\ (r \notin ParsedRecs \/ (zlStopReplay /\ r >= cur))}

Destroy ==
  /\ pc \in {"keep", "destroy"} /\ Synced
  /\ IF zh.log = "hole"
     THEN UNCHANGED <<dirtied, zlDestroyTxg, zlKeepFirst>>
     ELSE /\ zlDestroyTxg' = open /\ zlKeepFirst' = (pc = "keep")
          /\ dirtied' = dirtied \cup Made("ds", {0}, open)
               \cup Made("drop", GivenUp, open) \cup
               IF pc = "keep" THEN {}
               ELSE Made("free", SeenBlocks, open) \cup Made("disown", FreeData, open)
                      \cup Made("destroyEnd", {Readable}, open)
  /\ pc' = IF pc = "keep" THEN "mounted" ELSE "destroyed"
  /\ until' = zlDestroyTxg'
  /\ UNCHANGED <<open, floor, holders, durable, log, readable, zh, zhDisk, synced,
                 zlReplaySeq, zlStopReplay, loop>>

Mounted ==
  /\ pc = "destroyed" /\ Synced
  /\ pc' = "mounted"
  /\ UNCHANGED <<svc, log, readable, zh, zhDisk, synced, zilog, until, loop>>

-----------------------------------------------------------------------------
(* Syncing context *)

Syncing == floor + 1
InSync == Syncing < open /\ \A h \in holders : h[2] > Syncing

\* the sequence number that goes to disk with the txg
LatestSeq ==                                                  \* mutant
  CHOOSE n \in 0..NRecs :
    /\ \E s \in DOMAIN zlReplaySeq : n = zlReplaySeq[s]
    /\ \A s \in DOMAIN zlReplaySeq : n >= zlReplaySeq[s]
SyncedSeq == zlReplaySeq[Slot(Syncing)]

\* zil_sync(), called by dmu_objset_sync() when the dataset is dirty
ZilSync ==
  /\ InSync /\ pc # "import" /\ ~synced /\ Dirtied(Syncing)
  /\ synced' = TRUE
  /\ IF zlDestroyTxg = Syncing
     THEN /\ zh' = Header(IF zlKeepFirst THEN "fresh" ELSE "hole", 0, 0, 0)
          /\ zlReplaySeq' = NoReplay
     ELSE /\ zh' = [zh EXCEPT !.replaySeq = SyncedSeq]
          /\ UNCHANGED zlReplaySeq
  /\ UNCHANGED <<svc, log, readable, zhDisk, zlDestroyTxg, zlKeepFirst, zlStopReplay,
                 pc, until, loop>>

OpenTxg ==
  /\ pc # "import"
  /\ Engine!OpenNext
  /\ UNCHANGED <<log, readable, zh, zhDisk, synced, zilog, pc, until, loop>>

CommitTxg ==
  /\ pc # "import" /\ (Dirtied(Syncing) => synced)
  /\ Engine!Commit
  /\ zhDisk' = zh /\ synced' = FALSE
  /\ UNCHANGED <<log, readable, zh, zilog, pc, until, loop>>

\* The machine goes down; n blocks of the log can be read when it is up again.
\* The next txg is the one after the last synced txg (spa_first_txg).
Crash(n) ==
  /\ open' = floor + 1 /\ holders' = {} /\ dirtied' = durable
  /\ zh' = zhDisk /\ synced' = FALSE
  /\ zlReplaySeq' = NoReplay /\ zlDestroyTxg' = TXG_SIZE - 1 /\ zlKeepFirst' = FALSE
  /\ zlStopReplay' = FALSE
  /\ pc' = "import" /\ until' = 0
  /\ cur' = 0 /\ rtxg' = 0 /\ pass' = 0 /\ sunk' = FALSE
  /\ readable' = n
  /\ UNCHANGED <<floor, durable, log, zhDisk>>

\* zfs_unlinked_drain(), which comes before zil_replay() in the mount of a file
\* system: it frees files that were unlinked while open
Drain ==
  /\ pc = "claimed" /\ Synced
  /\ dirtied' = dirtied \cup Made("ds", {0}, open)
  /\ UNCHANGED <<open, floor, holders, durable, log, readable, zh, zhDisk, synced,
                 zilog, pc, until, loop>>

SyncStep == ZilSync \/ CommitTxg

MountStep ==
  \/ Claim \/ Mount \/ StartReplay \/ NextRecord \/ Assign \/ Replayed \/ Restart
  \/ EndReplay \/ Destroy \/ Mounted

\* devices that failed may come back
CrashStep == \E n \in 0..NBlocks : Crash(n)

Next == OpenTxg \/ SyncStep \/ MountStep \/ AssignError \/ ReplayError \/ CrashStep

Spec == Init /\ [][Next]_vars

-----------------------------------------------------------------------------
(* Properties *)

\* No record takes effect twice: neither one that was committed before the first
\* crash nor one that was replayed before another crash.
AppliedOnce ==
  \A x, y \in dirtied : x[1] = y[1] /\ x[1][1] = "apply" => x[2] = y[2]

\* Whatever the last synced txg is, its header tells which records are in it:
\* "We must now do two things atomically: replay this log record, and update
\* the log header" (zil_replay_log_record()).
Kept(op) == {x[1][2] : x \in {y \in durable : y[1][1] = op}}

HeaderAgrees ==
  zhDisk.log = "chain" =>
    \A r \in Recs :
      r \in Kept("apply") <=>
        (lrTxg[r] < TxgInit \/ (zhDisk.claimTxg # 0 /\ r <= zhDisk.replaySeq))

\* When the log is gone from the disk, its records are in the file system or
\* were given up as unreadable or after an error.
NothingLost == zhDisk.log # "chain" => Recs = Kept("apply") \cup Kept("drop")

\* What the log frees was allocated for it, and once: blocks of the log, and
\* data blocks that no file refers to.  The block at zh_claim_seq is excepted: the
\* claim ended there because it could not be read, so its data was not claimed,
\* but if its device comes back, its data is freed.
FreesOwn ==
  \A x \in dirtied :
    /\ x[1][1] = "free" => \E y \in dirtied : y[1] = <<"alloc", x[1][2]>> /\ y[2] <= x[2]
    /\ x[1][1] = "disown" =>
         \E y \in dirtied :
           \/ y[1] = <<"own", x[1][2]>> /\ y[2] <= x[2]
           \/ \E r \in Indirect : DataOf[r] = x[1][2] /\ y[1] = <<"claimEnd", BlockOf[r]>>
    /\ \A y \in dirtied : x[1] = y[1] /\ x[1][1] \in {"free", "disown"} => x = y

\* A destroyed log leaves nothing allocated of the blocks that could be found both
\* by the claim and by the destroy: when all could be read, nothing at all.
NoLeak ==
  \A c \in Kept("claimEnd"), n \in Kept("destroyEnd") :
    /\ \A b \in Kept("alloc") : b <= c /\ b <= n + 1 => b \in Kept("free")
    /\ \A r \in Indirect :
         DataOf[r] \in Kept("own") /\ BlockOf[r] <= n => DataOf[r] \in Kept("disown")
=============================================================================

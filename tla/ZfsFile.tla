------------------------------ MODULE ZfsFile ------------------------------
(***************************************************************************)
(* The callers of the range locks of one file that read and change its     *)
(* size and its block size (zfs_vnops.c and zfs_znode.c):                  *)
(*  - zfs_write() locks what it writes, or the end of the file if it       *)
(*    appends; if it got the whole file it grows the block size and        *)
(*    reduces its lock; then it moves the end of the file, chunk by chunk, *)
(*    or gives up at any time;                                             *)
(*  - zfs_extend() and zfs_trunc() lock the whole file and set its size;   *)
(*  - zfs_read(), zfs_get_data() and zfs_free_range() only lock.           *)
(*                                                                         *)
(* Offsets and sizes count sectors of SPA_MINBLOCKSIZE, to which           *)
(* dmu_object_set_blocksize() rounds a block size up.  The record size of  *)
(* the file system may change at any time (blksz_changed_cb()): zfs_write()*)
(* uses a copy from the beginning of the call, zfs_range_lock() and        *)
(* zfs_extend() read it where they use it.                                 *)
(***************************************************************************)
EXTENDS RangeLock

CONSTANTS MaxOffset,            \* MAXOFFSET_T, half of UINT64_MAX
          Limit                 \* uio_llimit of each thread, or MAXOFFSET_T

ASSUME OffsetAssumption == MaxOffset \in Nat /\ MaxOffset + MaxOffset < Infinity
ASSUME LimitAssumption == Limit \in [Threads -> 0..MaxOffset]
ASSUME BlkszAssumption == IsP2(SPA_MAXBLOCKSIZE)

VARIABLES stage,        \* how far each writer is: "new", "grown", "written"
          appenders,    \* the threads that called for an append
          multi         \* the file may have blocks beyond the first (dn_maxblkid)

mine == <<stage, appenders, multi>>
fvars == <<vars, mine>>
locks == <<tree, removed, pc, req, rl, on>>

SetStage(t, l) == stage' = [stage EXCEPT ![t] = l]
MIN(a, b) == IF a < b THEN a ELSE b
MAX(a, b) == IF a > b THEN a ELSE b

WholeFile(t) == req[t].len = Infinity
OverLocked(t) == rl[t].end = Infinity /\ ~WholeFile(t)

\* a file as earlier calls, with any record sizes, have left it
FileInit ==
  /\ size \in 0..MaxOffset /\ blksz \in 1..SPA_MAXBLOCKSIZE
  /\ multi \in BOOLEAN /\ (size > blksz => multi)
  /\ Init
  /\ stage = [t \in Threads |-> "new"]
  /\ appenders = {}

Call(t) ==
  /\ \/ \E off \in 0..MaxOffset, len \in 1..MaxOffset, ty \in {"reader", "writer", "append"} :
          (ty = "append" => off = 0) /\ ZfsRangeLock(t, off, len, ty)
     \/ ZfsRangeLock(t, 0, Infinity, "writer")
  /\ appenders' = appenders \cup {s \in {t} : req'[s].type = "append"}
  /\ UNCHANGED <<stage, multi>>

Lock(t) == LockStep(t) /\ UNCHANGED mine
Broadcast(t) == WakeStep(t) /\ UNCHANGED mine

\* a writer that has grown the block size first reduces its lock
Unlock(t) ==
  /\ ~(stage[t] = "grown" /\ OverLocked(t))
  /\ UnlockStep(t)
  /\ SetStage(t, "new") /\ appenders' = appenders \ {t} /\ UNCHANGED multi

\* zfs_grow_blocksize(): more than one block cannot change its size; blocks that a
\* truncation has left behind make dnode_set_blksz() fail with ENOTSUP
Grown(s) ==
  IF s <= blksz \/ (blksz # 0 /\ size > blksz) THEN {blksz}
  ELSE {s} \cup {b \in {blksz} : multi}

\* the size asked for; max and again are reads of z_max_blksz, or of its copy
NewBlksz(e, max, again) == MIN(e, IF blksz > max THEN SPA_MAXBLOCKSIZE ELSE again)

\* zfs_write(): where it writes and how much, and the end of the file after that
Woff(t) == IF req[t].type = "append" THEN size ELSE req[t].off
Resid(t) == MIN(req[t].len, Limit[t] - Woff(t))
WriteEnd(t) == MAX(size, Woff(t) + Resid(t))

GrowBlksz(t) ==
  /\ pc[t] = "held" /\ OverLocked(t) /\ stage[t] = "new"
  /\ req[t].type # "reader" /\ Woff(t) < Limit[t]
  /\ \E copy \in RecordSizes : blksz' \in Grown(NewBlksz(WriteEnd(t), copy, copy))
  /\ multi' = (multi /\ blksz' = blksz)
  /\ SetStage(t, "grown")
  /\ UNCHANGED <<locks, size, appenders>>

ReduceLock(t) ==
  /\ stage[t] = "grown" /\ OverLocked(t)
  /\ Reduce(t, [off |-> Woff(t), end |-> Woff(t) + Resid(t)])
  /\ UNCHANGED mine

\* a chunk, and the update of zp_size
Write(t) ==
  /\ pc[t] = "held" /\ req[t].type # "reader" /\ rl[t].end # Infinity
  /\ \E x \in (rl[t].off + 1)..MIN(rl[t].end, Limit[t]) : size' = MAX(size, x)
  /\ multi' = (multi \/ size' > blksz)
  /\ SetStage(t, "written")
  /\ UNCHANGED <<locks, blksz, appenders>>

\* what zfs_extend() and zfs_trunc() have in common
SetSize(t) ==
  /\ pc[t] = "held" /\ WholeFile(t) /\ stage[t] = "new"
  /\ SetStage(t, "written")
  /\ UNCHANGED <<locks, appenders>>

Extend(t) ==
  /\ SetSize(t)
  /\ size' \in (size + 1)..MaxOffset
  /\ \E max, then, again \in RecordSizes :
       blksz' \in IF size' > blksz /\ Growable(max)
                  THEN Grown(NewBlksz(size', then, again)) ELSE {blksz}
  /\ multi' = ((multi /\ blksz' = blksz) \/ size' > blksz')

Trunc(t) == SetSize(t) /\ size' \in 0..(size - 1) /\ UNCHANGED <<blksz, multi>>

FileStep(t) == GrowBlksz(t) \/ ReduceLock(t) \/ Write(t) \/ Extend(t) \/ Trunc(t)

FileNext ==
  \E t \in Threads : Call(t) \/ Lock(t) \/ Broadcast(t) \/ Unlock(t) \/ FileStep(t)

FileSpec == FileInit /\ [][FileNext]_fvars

-----------------------------------------------------------------------------
\* An append that has not written yet is at the end of the file, or the file has
\* been extended from behind its range: it never overwrites what another
\* append has written while this one waited.
AppendsAtEnd ==
  \A t \in appenders :
    /\ Holds(t) /\ stage[t] # "written" /\ ~OverLocked(t)
    => size = rl[t].off \/ size >= rl[t].end

\* The block size changes, and the file shrinks, only under a lock on the whole
\* file while nobody else has a lock ("this function assumes that the znode is
\* write locked", zfs_grow_blocksize()), and the block size only while there is
\* one block.
ChangedAlone ==
  blksz' # blksz \/ size' < size =>
    /\ blksz' # blksz => size <= blksz
    /\ \E t \in Threads : /\ Holds(t) /\ rl[t] = [off |-> 0, end |-> Infinity]
                          /\ \A s \in Threads \ {t} : ~Holds(s)

\* A write that gives a file its second block leaves it with blocks of a power of
\* two, although the range was chosen before the lock was granted, with another
\* record size than the blocks, and while others write.  Not so zfs_extend(),
\* which reads a record size that changes more than once.
SecondBlock ==
  ~multi /\ multi' => IsP2(blksz') \/ \E t \in Threads : Holds(t) /\ WholeFile(t)

\* Both hold of every step of the callers.
BlocksConsistent == [][ChangedAlone /\ SecondBlock]_fvars
=============================================================================

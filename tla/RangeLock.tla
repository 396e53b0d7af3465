----------------------------- MODULE RangeLock -----------------------------
(***************************************************************************)
(* The range locks of a file (uts/common/fs/zfs/zfs_rlock.c).              *)
(*                                                                         *)
(* The locked ranges are nodes of a tree, ordered by offset.  A node is    *)
(* the lock of one thread, or a proxy with a reference count that stands   *)
(* for several readers: a reader that overlaps others splits their nodes   *)
(* so that each piece has its own count.  Whoever has to wait sleeps on a  *)
(* condition variable inside a node that is in the way.                    *)
(*                                                                         *)
(* Every function runs under z_range_lock until it returns or sleeps, so   *)
(* it is one step, except that zfs_range_reduce() and the release of a     *)
(* write lock wake the sleepers after they have dropped z_range_lock.      *)
(*                                                                         *)
(* Infinity is UINT64_MAX.  The size of the file and its block size are    *)
(* read here and changed by the callers; Spec lets them change at will.    *)
(***************************************************************************)
EXTENDS Integers, FiniteSets

CONSTANTS Threads, Infinity,
          SPA_MAXBLOCKSIZE

Proxy == "proxy"
None == -1

ASSUME InfinityAssumption == Infinity \in Nat \ {0}
ASSUME MaxBlockAssumption == SPA_MAXBLOCKSIZE \in Nat
ASSUME ThreadsAssumption ==
  IsFiniteSet(Threads) /\ \A t \in Threads : t \notin Int /\ t # Proxy

VARIABLES
  tree,                 \* z_range_avl
  removed,              \* write locks out of the tree, with their sleepers
  pc, req,              \* each thread: position, range and type it asks for
  rl,                   \* the range that it got
  on,                   \* the node on which it sleeps
  size, blksz           \* zp_size, z_blksz

file == <<size, blksz>>
vars == <<tree, removed, pc, req, rl, on, size, blksz>>

\* A node covers the offsets from off to end - 1.  Its identity is the
\* thread, or the offset of a proxy: a node with sleepers is never split.
Node(lo, hi, c, ty, who) ==
  [off |-> lo, end |-> hi, cnt |-> c, type |-> ty, id |-> who,
   write_wanted |-> FALSE, read_wanted |-> FALSE]

Key(n) == IF n.id = Proxy THEN n.off ELSE n.id

Goto(t, l) == pc' = [pc EXCEPT ![t] = l]

\* the node of T with the lowest and with the highest offset
First(T) == CHOOSE n \in T : \A m \in T : n.off <= m.off
Last(T) == CHOOSE n \in T : \A m \in T : n.off >= m.off

\* cv_broadcast() on both condition variables of n, if somebody wanted it
Woken(n) ==
  {s \in Threads : /\ on[s] = Key(n)
                   /\ IF req[s].type = "reader" THEN n.read_wanted
                                                ELSE n.write_wanted}
Wake(S) == on' = [s \in Threads |-> IF s \in S THEN None ELSE on[s]]

NoReq == [off |-> 0, len |-> 0, type |-> "reader"]
NoRange == [off |-> 0, end |-> 0]

Init ==
  /\ tree = {} /\ removed = {}
  /\ pc = [t \in Threads |-> "idle"]
  /\ req = [t \in Threads |-> NoReq]
  /\ rl = [t \in Threads |-> NoRange]
  /\ on = [t \in Threads |-> None]
  /\ size \in Nat /\ blksz \in Nat

\* zfs_range_lock() is called
ZfsRangeLock(t, off, len, ty) ==
  /\ pc[t] = "idle"
  /\ req' = [req EXCEPT ![t] = [off |-> off, len |-> len, type |-> ty]]
  /\ Goto(t, "locking")
  /\ UNCHANGED <<tree, removed, rl, on, file>>

Runs(t) == pc[t] = "locking" /\ on[t] = None

-----------------------------------------------------------------------------
(* zfs_range_lock_writer() *)

IsP2(n) == \E k \in 0..n : n = 2^k

\* z_max_blksz: blksz_changed_cb() stores these values, at any time and without a
\* lock, so every read of it can find any of them
RecordSizes == {n \in 1..SPA_MAXBLOCKSIZE : IsP2(n)}

Growable(max) == ~IsP2(blksz) \/ blksz < max

\* an append starts at the end of the file, as it is now
WriterOff(t) == IF req[t].type = "append" THEN size ELSE req[t].off
WriterEnd(t) == WriterOff(t) + req[t].len

\* the whole file, if its block size has to grow
EndSize(t) == IF size > WriterEnd(t) THEN size ELSE WriterEnd(t)
AsAsked(t, max) == FALSE                                      \* mutant
OverLocks(t, max) == EndSize(t) > blksz /\ Growable(max)

WriterRange(t, max) ==
  IF OverLocks(t, max) THEN [off |-> 0, end |-> Infinity]
  ELSE [off |-> WriterOff(t), end |-> WriterEnd(t)]

\* the node in the way of a writer: at its offset, else the next one, else
\* the one before
NotBefore(r) == {n \in tree : r.off <= n.off /\ n.off < r.end} \* mutant
InWriterWay(r) ==
  LET after == {n \in tree : n.off > r.off}
      before == {n \in tree : n.off < r.off}
  IN  {n \in tree : n.off = r.off}
      \cup {n \in after : n = First(after) /\ n.off < r.end}
      \cup {n \in before : n = Last(before) /\ n.end > r.off}

WriterBlocker(r) ==
  LET notBefore == {n \in InWriterWay(r) : n.off >= r.off}
  IN  IF notBefore # {} THEN First(notBefore) ELSE Last(InWriterWay(r))

\* after the wait the request is "reset to original"
KeepsRange(t) ==                                              \* mutant
  [req[t] EXCEPT !.off = WriterOff(t), !.type = "writer"]
Reset(t) == req[t]

WriterWait(t) ==
  /\ Runs(t) /\ req[t].type # "reader"
  /\ \E max \in RecordSizes :
       LET r == WriterRange(t, max)
           n == WriterBlocker(r)
       IN  /\ InWriterWay(r) # {}
           /\ tree' = (tree \ {n}) \cup {[n EXCEPT !.write_wanted = TRUE]}
           /\ on' = [on EXCEPT ![t] = Key(n)]
  /\ req' = [req EXCEPT ![t] = Reset(t)]
  /\ UNCHANGED <<removed, pc, rl, file>>

WriterLock(t) ==
  /\ Runs(t) /\ req[t].type # "reader"
  /\ \E max \in RecordSizes :
       LET r == WriterRange(t, max)
       IN  /\ InWriterWay(r) = {}
           /\ tree' = tree \cup {Node(r.off, r.end, 1, "writer", t)}
           /\ rl' = [rl EXCEPT ![t] = r]
  /\ Goto(t, "held")
  /\ UNCHANGED <<removed, req, on, file>>

-----------------------------------------------------------------------------
(* zfs_range_lock_reader() *)

\* the node at or before the offset, if it overlaps, and the ones that follow
Overlapped(r) ==
  LET upTo == {n \in tree : n.off <= r.off}
  IN  {n \in upTo : n = Last(upTo) /\ r.off < n.end}
      \cup {n \in tree : r.off < n.off /\ n.off < r.end}

\* a write lock, or a node that a writer waits for
WritersOnly(r) == {n \in Overlapped(r) : n.type = "writer"}   \* mutant
InReaderWay(r) ==
  {n \in Overlapped(r) : n.type = "writer" \/ n.write_wanted}

ReaderRange(t) == [off |-> req[t].off, end |-> req[t].off + req[t].len]

ReaderWait(t) ==
  /\ Runs(t) /\ req[t].type = "reader"
  /\ InReaderWay(ReaderRange(t)) # {}
  /\ LET n == First(InReaderWay(ReaderRange(t)))
     IN  /\ tree' = (tree \ {n}) \cup {[n EXCEPT !.read_wanted = TRUE]}
         /\ on' = [on EXCEPT ![t] = Key(n)]
  /\ UNCHANGED <<removed, pc, req, rl, file>>

\* zfs_range_proxify(): the proxy that replaces the lock of a reader
Proxify(n) == IF n.id = Proxy THEN n ELSE Node(n.off, n.end, 1, "reader", Proxy)

\* zfs_range_split(): the count is that of both pieces
RearOnce(n, x) == Node(x, n.end, 1, "reader", Proxy)          \* mutant
Rear(n, x) == Node(x, n.end, n.cnt, "reader", Proxy)
Split(n, x) == {[Proxify(n) EXCEPT !.end = x], Rear(n, x)}

SplitAt(T, x) ==
  UNION {IF n.off < x /\ x < n.end THEN Split(n, x) ELSE {n} : n \in T}

\* zfs_range_new_proxy() for the gaps in r between, before and after the nodes
Gaps(r, N) ==
  {g \in ({r.off} \cup {n.end : n \in N}) \X ({r.end} \cup {n.off : n \in N}) :
     g[1] < g[2] /\ \A n \in N : n.end <= g[1] \/ g[2] <= n.off}

\* zfs_range_add_reader()
AddReader(t, r) ==
  LET T == SplitAt(SplitAt(tree, r.off), r.end)
      N == {n \in T : r.off <= n.off /\ n.off < r.end}
  IN  IF N = {}
      THEN tree \cup {Node(r.off, r.end, 1, "reader", t)}
      ELSE (T \ N)
           \cup {[Proxify(n) EXCEPT !.cnt = @ + 1] : n \in N}
           \cup {Node(g[1], g[2], 1, "reader", Proxy) : g \in Gaps(r, N)}

ReaderLock(t) ==
  /\ Runs(t) /\ req[t].type = "reader"
  /\ InReaderWay(ReaderRange(t)) = {}
  /\ tree' = AddReader(t, ReaderRange(t))
  /\ rl' = [rl EXCEPT ![t] = ReaderRange(t)]
  /\ Goto(t, "held")
  /\ UNCHANGED <<removed, req, on, file>>

-----------------------------------------------------------------------------
(* zfs_range_unlock() and zfs_range_reduce() *)

\* kmem_free() of the lock
Free(t) ==
  /\ req' = [req EXCEPT ![t] = NoReq]
  /\ rl' = [rl EXCEPT ![t] = NoRange]
  /\ Goto(t, "idle")

\* the nodes that stand for the lock of a reader: its own, or its proxies
Pieces(t) ==
  IF \E n \in tree : n.id = t THEN {n \in tree : n.id = t}
  ELSE {n \in tree : rl[t].off <= n.off /\ n.off < rl[t].end}

LastHold(n) == n.cnt = 1

UnlockReader(t) ==
  /\ pc[t] = "held" /\ req[t].type = "reader"
  /\ LET gone == {n \in Pieces(t) : LastHold(n)}
     IN  /\ tree' = (tree \ Pieces(t))
                    \cup {[n EXCEPT !.cnt = @ - 1] : n \in Pieces(t) \ gone}
         /\ Wake(UNION {Woken(n) : n \in gone})
  /\ Free(t)
  /\ UNCHANGED <<removed, file>>

UnlockWriter(t) ==
  /\ pc[t] = "held" /\ req[t].type # "reader"
  /\ \E n \in tree : n.id = t /\ tree' = tree \ {n} /\ removed' = removed \cup {n}
  /\ Goto(t, "unlocked")
  /\ UNCHANGED <<req, rl, on, file>>

\* the broadcasts, without z_range_lock
UnlockWake(t) ==
  /\ pc[t] = "unlocked"
  /\ \E n \in removed : n.id = t /\ Wake(Woken(n)) /\ removed' = removed \ {n}
  /\ Free(t)
  /\ UNCHANGED <<tree, file>>

\* from the whole file to the range r, after the block size has grown; the
\* callers reduce only write locks, as the ASSERTs say
Reduce(t, r) ==
  /\ pc[t] = "held" /\ req[t].type # "reader"
  /\ rl[t] = [off |-> 0, end |-> Infinity]
  /\ \E n \in tree :
       /\ n.id = t
       /\ tree' = (tree \ {n}) \cup {[n EXCEPT !.off = r.off, !.end = r.end]}
  /\ rl' = [rl EXCEPT ![t] = r]
  /\ Goto(t, "reduced")
  /\ UNCHANGED <<removed, req, on, file>>

ReduceWake(t) ==
  /\ pc[t] = "reduced"
  /\ \E n \in tree : n.id = t /\ Wake(Woken(n))
  /\ Goto(t, "held")
  /\ UNCHANGED <<tree, removed, req, rl, file>>

-----------------------------------------------------------------------------
\* The steps of a thread inside one of the functions.
LockStep(t) == WriterWait(t) \/ WriterLock(t) \/ ReaderWait(t) \/ ReaderLock(t)
WakeStep(t) == UnlockWake(t) \/ ReduceWake(t)
UnlockStep(t) == UnlockReader(t) \/ UnlockWriter(t)

\* What the callers do: they ask for ranges, reduce them and change the file.
CallerStep(t) ==
  \/ \E off, len \in Nat, ty \in {"reader", "writer", "append"} :
       0 < len /\ off + len <= Infinity /\ ZfsRangeLock(t, off, len, ty)
  \/ \E lo, hi \in Nat :
       lo < hi /\ hi <= Infinity /\ Reduce(t, [off |-> lo, end |-> hi])

FileChanges ==
  /\ size' \in Nat /\ blksz' \in Nat
  /\ UNCHANGED <<tree, removed, pc, req, rl, on>>

Next ==
  \/ \E t \in Threads : LockStep(t) \/ WakeStep(t) \/ UnlockStep(t) \/ CallerStep(t)
  \/ FileChanges

Spec == Init /\ [][Next]_vars

-----------------------------------------------------------------------------
(* Properties *)

Holds(t) == pc[t] \in {"held", "reduced"}
Holders(x) == {t \in Threads : Holds(t) /\ rl[t].off <= x /\ x < rl[t].end}
Covering(x) == {n \in tree : n.off <= x /\ x < n.end}

\* A write lock excludes every other lock on its range, although readers split
\* nodes, appends choose their range late and growing writers lock everything.
Exclusion ==
  \A t, s \in Threads :
    /\ t # s /\ Holds(t) /\ Holds(s)
    /\ rl[t].off < rl[s].end /\ rl[s].off < rl[t].end
    => req[t].type = "reader" /\ req[s].type = "reader"

\* The nodes do not overlap, and the count of a node is the number of threads
\* that hold a lock on any of its offsets, however the readers came and went.
\* They tile every lock: zfs_range_unlock_reader() finds a node at its offset,
\* and its length is used up at the end of a node.
CountsExact ==
  /\ \A x \in 0..(Infinity - 1) :
       IF Holders(x) = {} THEN Covering(x) = {}
       ELSE \E n \in tree : Covering(x) = {n} /\ n.cnt = Cardinality(Holders(x))
  /\ \A t \in Threads : Holds(t) =>
       (\E n \in tree : n.off = rl[t].off) /\ (\E n \in tree : n.end = rl[t].end)

\* A sleeper can be found by who wakes it: the node on which it sleeps exists,
\* its flag is set, and it keeps its identity (the ASSERTs in
\* zfs_range_proxify() and zfs_range_split()).
SleepersFindable ==
  \A s \in Threads : on[s] # None =>
    \E n \in tree \cup removed : s \in Woken(n)

=============================================================================

-------------------------- MODULE RangeLockProofs --------------------------
(***************************************************************************)
(* Proofs about RangeLock, for any number of threads and ranges of any     *)
(* length, and about the callers in ZfsFile, for files and blocks of any   *)
(* size.                                                                   *)
(***************************************************************************)
EXTENDS ZfsFile, FiniteSetTheorems, WellFoundedInduction, TLAPS

-----------------------------------------------------------------------------
(* The inductive invariant *)

Labels == {"idle", "locking", "held", "reduced", "unlocked"}
Types == {"reader", "writer", "append"}
Nodes ==
  [off : Nat, end : Nat, cnt : Nat, type : {"reader", "writer"}, id : Threads \cup {Proxy},
   write_wanted : BOOLEAN, read_wanted : BOOLEAN]
Ranges == [off : Nat, end : Nat]

Apart(a, b) == a.end <= b.off \/ b.end <= a.off
Inside(x, a) == a.off <= x /\ x < a.end

\* the threads that hold a lock on the whole of n
HoldersOf(n) ==
  {t \in Threads : Holds(t) /\ rl[t].off <= n.off /\ n.end <= rl[t].end}

\* Every lock covers the whole of a node or nothing of it, and the node counts
\* them.  The node of one thread has the range of its lock; a reader that waits
\* for the lock of readers waits behind a writer.
NodeInv(n) ==
  /\ n \in Nodes /\ n.off < n.end
  /\ \A t \in Threads : Holds(t) => t \in HoldersOf(n) \/ Apart(rl[t], n)
  /\ n.cnt = Cardinality(HoldersOf(n)) /\ n.cnt > 0
  /\ n.id \in Threads =>
       /\ n.off = rl[n.id].off /\ n.end = rl[n.id].end /\ HoldersOf(n) = {n.id}
       /\ n.type = "reader" <=> req[n.id].type = "reader"
  /\ n.id = Proxy => n.type = "reader"
  /\ n.type = "reader" /\ n.read_wanted => n.write_wanted

\* The nodes of T tile the locks.
TreeInv(T) ==
  /\ \A n \in T : NodeInv(n)
  /\ \A n, m \in T : n = m \/ Apart(n, m)
  /\ \A t \in Threads : Holds(t) =>
       \A x \in Nat : Inside(x, rl[t]) => \E n \in T : Inside(x, n)
  /\ \A t \in Threads : Holds(t) /\ req[t].type # "reader" => \E n \in T : n.id = t
  /\ \E b \in Nat : \A n \in T : n.off <= b

ThreadInv ==
  /\ pc \in [Threads -> Labels] /\ req \in [Threads -> [off : Nat, len : Nat, type : Types]]
  /\ rl \in [Threads -> Ranges] /\ on \in [Threads -> Threads \cup Nat \cup {None}]
  /\ size \in Nat /\ blksz \in Nat
  /\ \A t \in Threads : pc[t] # "idle" => req[t].len > 0
  /\ \A t \in Threads : Holds(t) => rl[t].off < rl[t].end
  /\ \A t \in Threads : on[t] # None => pc[t] = "locking"

RemovedInv ==
  /\ \A n \in removed : n \in Nodes /\ n.id \in Threads /\ pc[n.id] = "unlocked"
  /\ \A n, m \in removed : n.id = m.id => n = m

IInv == ThreadInv /\ TreeInv(tree) /\ RemovedInv /\ SleepersFindable

-----------------------------------------------------------------------------
(* Numbers, first and last nodes *)

\* A set of numbers that is not empty has a least element.
LEMMA Least ==
  ASSUME NEW S \in SUBSET Nat, S # {}
  PROVE  \E x \in S : \A y \in S : x <= y
<1>1. \E x \in S : \A y \in S : ~(<<y, x>> \in OpToRel(<, Nat))
  BY WFMin, NatLessThanWellFounded
<1>2. \A x, y \in S : ~(<<y, x>> \in OpToRel(<, Nat)) => x <= y
  BY DEF OpToRel
<1> QED
  BY <1>1, <1>2

\* A set of numbers that is bounded has a greatest one.
LEMMA Greatest ==
  ASSUME NEW S \in SUBSET Nat, S # {}, NEW b \in Nat, \A y \in S : y <= b
  PROVE  \E x \in S : \A y \in S : y <= x
<1> DEFINE B == {c \in Nat : \A y \in S : y <= c}
<1>1. PICK c \in B : \A d \in B : c <= d
  <2>1. B \in SUBSET Nat /\ B # {}
    OBVIOUS
  <2> HIDE DEF B
  <2> QED
    BY <2>1, Least
<1>2. c \in Nat /\ \A y \in S : y <= c
  BY <1>1
<1>3. CASE c \in S
  BY <1>2, <1>3
<1>4. CASE c \notin S
  <2>1. \A y \in S : y <= c - 1 /\ y \in Nat
    BY <1>2, <1>4
  <2>2. c - 1 \in Nat
    <3>1. PICK y : y \in S
      OBVIOUS
    <3> QED
      BY <1>2, <2>1, <3>1
  <2>3. c - 1 \in B
    BY <2>1, <2>2
  <2>4. c <= c - 1
    BY <1>1, <2>3
  <2> QED
    BY <1>2, <2>4
<1> QED
  BY <1>3, <1>4

LEMMA FirstIs ==
  ASSUME NEW T, T # {}, \A n \in T : n.off \in Nat
  PROVE  First(T) \in T /\ \A m \in T : First(T).off <= m.off
<1> DEFINE S == {n.off : n \in T}
<1>1. \E x \in S : \A y \in S : x <= y
  <2>1. S \in SUBSET Nat /\ S # {}
    OBVIOUS
  <2> HIDE DEF S
  <2> QED
    BY <2>1, Least
<1>2. \E n \in T : \A m \in T : n.off <= m.off
  BY <1>1
<1> QED
  BY <1>2 DEF First

LEMMA LastIs ==
  ASSUME NEW T, T # {}, \A n \in T : n.off \in Nat, NEW b \in Nat, \A n \in T : n.off <= b
  PROVE  Last(T) \in T /\ \A m \in T : Last(T).off >= m.off
<1> DEFINE S == {n.off : n \in T}
<1>1. \E x \in S : \A y \in S : y <= x
  <2>1. S \in SUBSET Nat /\ S # {} /\ \A y \in S : y <= b
    OBVIOUS
  <2> HIDE DEF S
  <2> QED
    BY <2>1, Greatest
<1>2. \E n \in T : \A m \in T : n.off >= m.off
  BY <1>1
<1> QED
  BY <1>2 DEF Last

-----------------------------------------------------------------------------
(* What is in the way *)

\* what the functions read of a tree
LEMMA TreeType ==
  ASSUME NEW T, TreeInv(T)
  PROVE  /\ \A n \in T : n.off \in Nat /\ n.end \in Nat /\ n.off < n.end /\ n \in Nodes
         /\ \A n, m \in T : n = m \/ n.end <= m.off \/ m.end <= n.off
  BY DEF TreeInv, NodeInv, Nodes, Apart

\* zfs_range_lock_writer() finds a node if and only if one overlaps its range,
\* although it looks only at three of them.
LEMMA WriterWay ==
  ASSUME TreeInv(tree), NEW r \in Ranges, r.off < r.end
  PROVE  /\ InWriterWay(r) \subseteq tree
         /\ InWriterWay(r) = {} => \A n \in tree : Apart(r, n)
<1>t. r.off \in Nat /\ r.end \in Nat
  BY DEF Ranges
<1> DEFINE after == {n \in tree : n.off > r.off}
           before == {n \in tree : n.off < r.off}
<1>1. InWriterWay(r) = {n \in tree : n.off = r.off}
      \cup {n \in after : n = First(after) /\ n.off < r.end}
      \cup {n \in before : n = Last(before) /\ n.end > r.off}
  BY DEF InWriterWay
<1>2. after # {} => First(after) \in after /\ \A m \in after : First(after).off <= m.off
  <2>1. \A n \in after : n.off \in Nat
    BY TreeType
  <2> HIDE DEF after
  <2> QED
    BY <2>1, FirstIs
<1>3. before # {} => Last(before) \in before /\ \A m \in before : Last(before).off >= m.off
  <2>1. \A n \in before : n.off \in Nat /\ n.off <= r.off
    BY <1>t, TreeType
  <2> HIDE DEF before
  <2> QED
    BY <1>t, <2>1, LastIs
<1>4. ASSUME InWriterWay(r) = {}, NEW n \in tree
      PROVE  Apart(r, n)
  <2> DEFINE f == First(after)
             l == Last(before)
  <2>1. n.off # r.off
    BY <1>1, <1>4
  <2>2. CASE n.off > r.off
    <3>1. f \in after /\ f.off <= n.off
      BY <1>2, <2>2
    <3>2. ~(f.off < r.end)
      BY <1>1, <1>4, <3>1
    <3>3. f.off \in Nat /\ n.off \in Nat
      BY <3>1, TreeType
    <3> HIDE DEF f
    <3> QED
      BY <1>t, <3>1, <3>2, <3>3 DEF Apart
  <2>3. CASE n.off < r.off
    <3>1. l \in before /\ l.off >= n.off
      BY <1>3, <2>3
    <3>2. ~(l.end > r.off)
      BY <1>1, <1>4, <3>1
    <3>3. l.off \in Nat /\ l.end \in Nat /\ l.off < l.end /\ l \in tree /\ l.off < r.off
      BY <3>1, TreeType
    <3>4. n.off \in Nat /\ n.end \in Nat /\ n.off < n.end
      BY TreeType
    <3> HIDE DEF l
    <3>5. n = l \/ n.end <= l.off \/ l.end <= n.off
      BY <3>3, TreeType
    <3> QED
      BY <1>t, <3>1, <3>2, <3>3, <3>4, <3>5 DEF Apart
  <2> QED
    BY <1>t, <2>1, <2>2, <2>3, TreeType
<1> QED
  BY <1>1, <1>4

LEMMA WriterBlocks ==
  ASSUME TreeInv(tree), NEW r \in Ranges, r.off < r.end, InWriterWay(r) # {}
  PROVE  WriterBlocker(r) \in tree
<1> DEFINE W == InWriterWay(r)
           N == {n \in W : n.off >= r.off}
<1>1. WriterBlocker(r) = IF N # {} THEN First(N) ELSE Last(W)
  BY DEF WriterBlocker
<1>2. W \subseteq tree /\ W # {}
  BY WriterWay
<1>3. CASE N # {}
  <2>1. \A n \in N : n.off \in Nat
    BY <1>2, TreeType
  <2>2. First(N) \in N
    <3> HIDE DEF N
    <3> QED
      BY <1>3, <2>1, FirstIs
  <2> QED
    BY <1>1, <1>2, <1>3, <2>2
<1>4. CASE N = {}
  <2>1. PICK b \in Nat : \A n \in tree : n.off <= b
    BY DEF TreeInv
  <2>2. \A n \in W : n.off \in Nat /\ n.off <= b
    BY <1>2, <2>1, TreeType
  <2>3. Last(W) \in W
    <3> HIDE DEF W
    <3> QED
      BY <1>2, <2>2, LastIs
  <2> QED
    BY <1>1, <1>2, <1>4, <2>3
<1> QED
  BY <1>3, <1>4

\* zfs_range_lock_reader() looks at the nodes that overlap its range.
LEMMA ReaderWay ==
  ASSUME TreeInv(tree), NEW r \in Ranges, r.off < r.end, NEW n \in tree
  PROVE  n \in Overlapped(r) <=> ~Apart(r, n)
<1>t. r.off \in Nat /\ r.end \in Nat /\ n.off \in Nat /\ n.end \in Nat /\ n.off < n.end
  BY TreeType DEF Ranges
<1> DEFINE upTo == {m \in tree : m.off <= r.off}
           l == Last(upTo)
<1>1. n \in Overlapped(r) <=>
        \/ n \in upTo /\ n = l /\ r.off < n.end
        \/ r.off < n.off /\ n.off < r.end
  BY DEF Overlapped
<1>2. upTo # {} => l \in upTo /\ \A m \in upTo : l.off >= m.off
  <2>1. \A m \in upTo : m.off \in Nat /\ m.off <= r.off
    BY TreeType
  <2> HIDE DEF upTo
  <2> QED
    BY <1>t, <2>1, LastIs
<1>3. CASE n.off <= r.off
  <2>1. l \in tree /\ l.off <= r.off /\ n.off <= l.off
    BY <1>2, <1>3, <1>t, TreeType
  <2>2. l.off \in Nat /\ l.end \in Nat /\ l.off < l.end
    BY <2>1, TreeType
  <2>3. n = l \/ n.end <= l.off \/ l.end <= n.off
    BY <2>1, TreeType
  <2> HIDE DEF l
  <2>4. n \in upTo
    BY <1>3
  <2> QED
    BY <1>1, <1>3, <1>t, <2>1, <2>2, <2>3, <2>4 DEF Apart
<1>4. CASE r.off < n.off
  BY <1>1, <1>4, <1>t DEF Apart
<1> QED
  BY <1>3, <1>4, <1>t

-----------------------------------------------------------------------------
(* Nodes, and the pieces of a node *)

\* The lock of readers, for which nobody waits.
Plain(n) == n.type = "reader" /\ ~n.write_wanted /\ ~n.read_wanted

LEMMA NodeIs ==
  ASSUME NEW lo \in Nat, NEW hi \in Nat, NEW c \in Nat, NEW ty \in {"reader", "writer"},
         NEW who \in Threads \cup {Proxy}
  PROVE  /\ Node(lo, hi, c, ty, who) \in Nodes
         /\ Node(lo, hi, c, ty, who).off = lo /\ Node(lo, hi, c, ty, who).end = hi
         /\ Node(lo, hi, c, ty, who).cnt = c /\ Node(lo, hi, c, ty, who).type = ty
         /\ Node(lo, hi, c, ty, who).id = who
         /\ ~Node(lo, hi, c, ty, who).write_wanted /\ ~Node(lo, hi, c, ty, who).read_wanted
  BY DEF Node, Nodes

LEMMA NodeFields ==
  ASSUME NEW n \in Nodes
  PROVE  /\ n.off \in Nat /\ n.end \in Nat /\ n.cnt \in Nat /\ n.type \in {"reader", "writer"}
         /\ n.id \in Threads \cup {Proxy} /\ n.write_wanted \in BOOLEAN /\ n.read_wanted \in BOOLEAN
  BY DEF Nodes

\* Nobody is the proxy.
LEMMA NoProxy == Proxy \notin Threads
  BY ThreadsAssumption

LEMMA ProxifyIs ==
  ASSUME NEW n \in Nodes, Plain(n), n.id \in Threads => n.cnt = 1
  PROVE  /\ Proxify(n) \in Nodes /\ Proxify(n).off = n.off /\ Proxify(n).end = n.end
         /\ Proxify(n).cnt = n.cnt /\ Proxify(n).id = Proxy /\ Plain(Proxify(n))
<1>1. CASE n.id = Proxy
  BY <1>1 DEF Proxify
<1>2. CASE n.id # Proxy
  <2>1. n.id \in Threads /\ n.off \in Nat /\ n.end \in Nat
    BY <1>2, NodeFields
  <2>2. Proxify(n) = Node(n.off, n.end, 1, "reader", Proxy)
    BY <1>2 DEF Proxify
  <2> QED
    BY <2>1, <2>2, NodeIs DEF Plain
<1> QED
  BY <1>1, <1>2

LEMMA EndIs ==
  ASSUME NEW n \in Nodes, NEW x \in Nat
  PROVE  /\ [n EXCEPT !.end = x] \in Nodes /\ [n EXCEPT !.end = x].end = x
         /\ [n EXCEPT !.end = x].off = n.off /\ [n EXCEPT !.end = x].cnt = n.cnt
         /\ [n EXCEPT !.end = x].id = n.id /\ [n EXCEPT !.end = x].type = n.type
         /\ [n EXCEPT !.end = x].write_wanted = n.write_wanted
         /\ [n EXCEPT !.end = x].read_wanted = n.read_wanted
  BY DEF Nodes

LEMMA CntIs ==
  ASSUME NEW n \in Nodes, NEW x \in Nat
  PROVE  /\ [n EXCEPT !.cnt = x] \in Nodes /\ [n EXCEPT !.cnt = x].cnt = x
         /\ [n EXCEPT !.cnt = x].off = n.off /\ [n EXCEPT !.cnt = x].end = n.end
         /\ [n EXCEPT !.cnt = x].id = n.id /\ [n EXCEPT !.cnt = x].type = n.type
         /\ [n EXCEPT !.cnt = x].write_wanted = n.write_wanted
         /\ [n EXCEPT !.cnt = x].read_wanted = n.read_wanted
  BY DEF Nodes

\* m is a piece of n, or all of it, as a proxy.
PieceOf(m, n) ==
  /\ m \in Nodes /\ n.off <= m.off /\ m.off < m.end /\ m.end <= n.end
  /\ m.cnt = n.cnt /\ m.id = Proxy /\ Plain(m)

\* The lock of one thread counts one holder.
LEMMA OwnCount ==
  ASSUME NEW n, NodeInv(n), n.id \in Threads
  PROVE  n.cnt = 1
<1>1. Cardinality({n.id}) = 1
  BY FS_Singleton
<1> QED
  BY <1>1 DEF NodeInv

\* Who holds a lock on a piece of a node holds one on the node.
LEMMA PieceInv ==
  ASSUME ThreadInv, NEW n, NodeInv(n), NEW m, PieceOf(m, n)
  PROVE  NodeInv(m) /\ HoldersOf(m) = HoldersOf(n)
<1>1. n \in Nodes /\ m \in Nodes
  BY DEF NodeInv, PieceOf
<1>2. /\ n.off \in Nat /\ n.end \in Nat /\ m.off \in Nat /\ m.end \in Nat
      /\ n.off <= m.off /\ m.off < m.end /\ m.end <= n.end
  BY <1>1, NodeFields DEF PieceOf
<1>3. \A t \in Threads : rl[t].off \in Nat /\ rl[t].end \in Nat
  BY DEF ThreadInv, Ranges
<1>4. \A t \in Threads : t \in HoldersOf(n) => t \in HoldersOf(m)
  BY <1>2, <1>3 DEF HoldersOf
<1>5. \A t \in Threads : Holds(t) /\ Apart(rl[t], n) => Apart(rl[t], m) /\ t \notin HoldersOf(m)
  BY <1>2, <1>3 DEF HoldersOf, Apart
<1>6. \A t \in Threads : Holds(t) => t \in HoldersOf(n) \/ Apart(rl[t], n)
  BY DEF NodeInv
<1>7. HoldersOf(m) = HoldersOf(n)
  BY <1>4, <1>5, <1>6 DEF HoldersOf
<1>8. \A t \in Threads : Holds(t) => t \in HoldersOf(m) \/ Apart(rl[t], m)
  BY <1>4, <1>5, <1>6
<1> QED
  BY <1>1, <1>2, <1>7, <1>8, NoProxy DEF NodeInv, PieceOf, Plain

-----------------------------------------------------------------------------
(* zfs_range_split() *)

Cut(n, x) == n.off < x /\ x < n.end

LEMMA SplitIs ==
  ASSUME NEW n, NodeInv(n), Plain(n), NEW x \in Nat, Cut(n, x)
  PROVE  /\ \A m \in Split(n, x) : PieceOf(m, n) /\ (m.end = x \/ m.off = x) /\ ~Cut(m, x)
         /\ \A m, k \in Split(n, x) : m = k \/ Apart(m, k)
         /\ \A y \in Nat : Inside(y, n) => \E m \in Split(n, x) : Inside(y, m)
<1> DEFINE f == [Proxify(n) EXCEPT !.end = x]
           g == Rear(n, x)
<1>1. n \in Nodes /\ n.off \in Nat /\ n.end \in Nat /\ n.cnt \in Nat
  BY NodeFields DEF NodeInv
<1>2. f \in Nodes /\ f.off = n.off /\ f.end = x /\ f.cnt = n.cnt /\ f.id = Proxy /\ Plain(f)
  <2>1. Proxify(n) \in Nodes /\ Proxify(n).off = n.off /\ Proxify(n).end = n.end
        /\ Proxify(n).cnt = n.cnt /\ Proxify(n).id = Proxy /\ Plain(Proxify(n))
    BY <1>1, ProxifyIs, OwnCount
  <2> QED
    BY <2>1, EndIs DEF Plain
<1>3. g \in Nodes /\ g.off = x /\ g.end = n.end /\ g.cnt = n.cnt /\ g.id = Proxy /\ Plain(g)
  BY <1>1, NodeIs DEF Rear, Plain
<1>4. \A m : m \in Split(n, x) <=> m = f \/ m = g
  BY DEF Split
<1> HIDE DEF f, g
<1> QED
  BY <1>1, <1>2, <1>3, <1>4 DEF PieceOf, Cut, Apart, Inside

\* where the nodes of the new tree come from
LEMMA SplitAtIs ==
  ASSUME NEW T, NEW x, NEW m
  PROVE  m \in SplitAt(T, x) <=>
           \/ m \in T /\ ~Cut(m, x)
           \/ \E n \in T : Cut(n, x) /\ m \in Split(n, x)
<1> DEFINE C(n) == IF n.off < x /\ x < n.end THEN Split(n, x) ELSE {n}
<1>1. m \in SplitAt(T, x) <=> \E n \in T : m \in C(n)
  BY DEF SplitAt
<1>2. \A n : m \in C(n) <=> IF Cut(n, x) THEN m \in Split(n, x) ELSE m = n
  BY DEF Cut
<1> HIDE DEF C
<1> QED
  BY <1>1, <1>2

\* a node of the tree before the split that m is a part of
Parent(m, n, x) == (m = n /\ ~Cut(n, x)) \/ (Cut(n, x) /\ m \in Split(n, x))

LEMMA SplitTree ==
  ASSUME ThreadInv, NEW T, TreeInv(T), NEW x \in Nat, \A n \in T : Cut(n, x) => Plain(n)
  PROVE  /\ TreeInv(SplitAt(T, x))
         /\ \A m \in SplitAt(T, x) : ~Cut(m, x)
         /\ \A m \in SplitAt(T, x) : m \in T \/
              (Plain(m) /\ \E n \in T : Plain(n) /\ n.off <= m.off /\ m.end <= n.end)
         /\ \A n \in T : ~Plain(n) => n \in SplitAt(T, x)
         /\ \A y \in Nat : \A n \in T : Inside(y, n) => \E m \in SplitAt(T, x) : Inside(y, m)
<1> DEFINE U == SplitAt(T, x)
<1>1. \A m \in U : \E n \in T : Parent(m, n, x)
  BY SplitAtIs DEF Parent
<1>2. \A n \in T : NodeInv(n) /\ n.off \in Nat /\ n.end \in Nat
  BY NodeFields DEF TreeInv, NodeInv
<1>3. ASSUME NEW n \in T, NEW m, Parent(m, n, x)
      PROVE  /\ NodeInv(m) /\ ~Cut(m, x) /\ m.off \in Nat /\ m.end \in Nat
             /\ n.off <= m.off /\ m.end <= n.end
             /\ m = n \/ (Plain(m) /\ Plain(n))
  <2>1. CASE m = n /\ ~Cut(n, x)
    BY <1>2, <2>1
  <2>2. CASE Cut(n, x) /\ m \in Split(n, x)
    <3>1. Plain(n) /\ NodeInv(n)
      BY <1>2, <2>2
    <3>2. PieceOf(m, n) /\ ~Cut(m, x)
      BY <2>2, <3>1, SplitIs
    <3>3. NodeInv(m)
      BY <3>1, <3>2, PieceInv
    <3> QED
      BY <3>1, <3>2, <3>3, NodeFields DEF PieceOf
  <2> QED
    BY <1>3, <2>1, <2>2 DEF Parent
<1>4. \A m, k \in U : m = k \/ Apart(m, k)
  <2> SUFFICES ASSUME NEW m \in U, NEW k \in U PROVE m = k \/ Apart(m, k)
    OBVIOUS
  <2>1. PICK n \in T : Parent(m, n, x)
    BY <1>1
  <2>2. PICK l \in T : Parent(k, l, x)
    BY <1>1
  <2>3. CASE n = l /\ Cut(n, x)
    <3>1. m \in Split(n, x) /\ k \in Split(n, x)
      BY <2>1, <2>2, <2>3 DEF Parent
    <3> QED
      BY <1>2, <2>3, <3>1, SplitIs
  <2>4. CASE n = l /\ ~Cut(n, x)
    BY <2>1, <2>2, <2>4 DEF Parent
  <2>5. CASE n # l
    <3>1. n.end <= l.off \/ l.end <= n.off
      BY <2>5, TreeType
    <3>2. n.off <= m.off /\ m.end <= n.end /\ m.off \in Nat /\ m.end \in Nat
      BY <1>3, <2>1
    <3>3. l.off <= k.off /\ k.end <= l.end /\ k.off \in Nat /\ k.end \in Nat
      BY <1>3, <2>2
    <3> QED
      BY <1>2, <3>1, <3>2, <3>3 DEF Apart
  <2> QED
    BY <2>3, <2>4, <2>5
<1>5. \A y \in Nat : \A n \in T : Inside(y, n) => \E m \in U : Inside(y, m)
  <2> SUFFICES ASSUME NEW y \in Nat, NEW n \in T, Inside(y, n) PROVE \E m \in U : Inside(y, m)
    OBVIOUS
  <2>1. CASE ~Cut(n, x)
    BY <2>1, SplitAtIs
  <2>2. CASE Cut(n, x)
    <3>1. PICK m \in Split(n, x) : Inside(y, m)
      BY <1>2, <2>2, SplitIs
    <3>2. m \in U
      BY <2>2, <3>1, SplitAtIs
    <3> QED
      BY <3>1, <3>2
  <2> QED
    BY <2>1, <2>2
<1>6. \A n \in T : ~Plain(n) => n \in U
  BY SplitAtIs
<1>7. \A t \in Threads : Holds(t) => \A y \in Nat : Inside(y, rl[t]) => \E n \in U : Inside(y, n)
  BY <1>5 DEF TreeInv
<1>8. \A t \in Threads : Holds(t) /\ req[t].type # "reader" => \E n \in U : n.id = t
  <2> SUFFICES ASSUME NEW t \in Threads, Holds(t), req[t].type # "reader" PROVE \E n \in U : n.id = t
    OBVIOUS
  <2>1. PICK n \in T : n.id = t
    BY DEF TreeInv
  <2>2. n.type # "reader"
    BY <1>2, <2>1 DEF NodeInv
  <2> QED
    BY <1>6, <2>1, <2>2 DEF Plain
<1>9. \E b \in Nat : \A m \in U : m.off <= b
  <2>1. PICK b \in Nat : \A n \in T : n.off <= b
    BY DEF TreeInv
  <2>2. ASSUME NEW m \in U PROVE m.off <= b + x
    <3>1. PICK n \in T : Parent(m, n, x)
      BY <1>1
    <3>2. m = n \/ (Cut(n, x) /\ m \in Split(n, x))
      BY <3>1 DEF Parent
    <3>3. CASE m = n
      BY <1>2, <2>1, <3>3
    <3>4. CASE Cut(n, x) /\ m \in Split(n, x)
      <4>1. (m.end = x \/ m.off = x) /\ PieceOf(m, n)
        BY <1>2, <3>4, SplitIs
      <4>2. m.off \in Nat /\ m.end \in Nat /\ m.off < m.end
        BY <4>1, NodeFields DEF PieceOf
      <4> QED
        BY <2>1, <4>1, <4>2
    <3> QED
      BY <3>2, <3>3, <3>4
  <2> QED
    BY <2>1, <2>2
<1>10. \A m \in U : NodeInv(m)
  BY <1>1, <1>3
<1>11. TreeInv(U)
  BY <1>4, <1>7, <1>8, <1>9, <1>10 DEF TreeInv
<1>12. \A m \in U : m \in T \/ (Plain(m) /\ \E n \in T : Plain(n) /\ n.off <= m.off /\ m.end <= n.end)
  BY <1>1, <1>3
<1>13. \A m \in U : ~Cut(m, x)
  BY <1>1, <1>3
<1> QED
  BY <1>5, <1>6, <1>11, <1>12, <1>13

-----------------------------------------------------------------------------
(* A lock is granted *)

\* t gets a lock on r
Grant(t, r) ==
  /\ pc[t] = "locking" /\ pc' = [pc EXCEPT ![t] = "held"]
  /\ rl' = [rl EXCEPT ![t] = r] /\ req' = req

LEMMA ThreadFields ==
  ASSUME ThreadInv, NEW t \in Threads
  PROVE  /\ rl[t] \in Ranges /\ rl[t].off \in Nat /\ rl[t].end \in Nat
         /\ Holds(t) => rl[t].off < rl[t].end
         /\ req[t].off \in Nat /\ req[t].len \in Nat /\ req[t].type \in Types
         /\ pc[t] \in Labels
  BY DEF ThreadInv, Ranges

LEMMA FiniteHolders ==
  ASSUME NEW n
  PROVE  IsFiniteSet(HoldersOf(n)) /\ Cardinality(HoldersOf(n)) \in Nat
<1>1. HoldersOf(n) \in SUBSET Threads
  BY DEF HoldersOf
<1> QED
  BY <1>1, ThreadsAssumption, FS_Subset, FS_CardinalityType

LEMMA GrantHolds ==
  ASSUME ThreadInv, NEW t \in Threads, NEW r \in Ranges, Grant(t, r)
  PROVE  /\ ~Holds(t) /\ \A s \in Threads : Holds(s)' <=> Holds(s) \/ s = t
         /\ rl'[t] = r /\ \A s \in Threads : s # t => rl'[s] = rl[s]
         /\ \A n : t \notin HoldersOf(n)
  BY DEF Grant, Holds, ThreadInv, HoldersOf

LEMMA GrantHolders ==
  ASSUME ThreadInv, NEW t \in Threads, NEW r \in Ranges, Grant(t, r), NEW n
  PROVE  HoldersOf(n)' = IF r.off <= n.off /\ n.end <= r.end THEN HoldersOf(n) \cup {t}
                         ELSE HoldersOf(n)
  BY GrantHolds DEF HoldersOf

\* The nodes outside of r stay as they are.
LEMMA GrantOutside ==
  ASSUME ThreadInv, NEW t \in Threads, NEW r \in Ranges, r.off < r.end, Grant(t, r),
         NEW n, NodeInv(n), Apart(r, n)
  PROVE  NodeInv(n)'
<1>1. n.off \in Nat /\ n.end \in Nat /\ r.off \in Nat /\ r.end \in Nat /\ n.off < n.end
  BY NodeFields DEF NodeInv, Ranges
<1>2. HoldersOf(n)' = HoldersOf(n)
  BY <1>1, GrantHolders DEF Apart
<1>3. \A s \in Threads : Holds(s)' => s \in HoldersOf(n) \/ Apart(rl'[s], n)
  BY GrantHolds DEF NodeInv
<1>4. n.id \in Threads => n.id # t
  BY GrantHolds DEF NodeInv, HoldersOf
<1>5. n.id \in Threads => rl'[n.id] = rl[n.id] /\ req' = req
  BY <1>4, GrantHolds DEF Grant
<1> QED
  BY <1>2, <1>3, <1>5 DEF NodeInv, Apart

\* A new node for what nobody holds.
LEMMA GrantNew ==
  ASSUME ThreadInv, NEW t \in Threads, NEW r \in Ranges, r.off < r.end, Grant(t, r),
         NEW n \in Nodes, r.off <= n.off, n.off < n.end, n.end <= r.end, n.cnt = 1,
         ~n.write_wanted, ~n.read_wanted,
         \A s \in Threads : Holds(s) => Apart(rl[s], n),
         \/ n.id = Proxy /\ n.type = "reader"
         \/ n.id = t /\ n.off = r.off /\ n.end = r.end
            /\ (n.type = "reader" <=> req[t].type = "reader")
  PROVE  NodeInv(n)'
<1>1. n.off \in Nat /\ n.end \in Nat
  BY NodeFields
<1>2. HoldersOf(n) = {}
  BY <1>1, ThreadFields DEF HoldersOf, Apart
<1>3. HoldersOf(n)' = {t}
  BY <1>2, GrantHolders
<1>4. Cardinality({t}) = 1
  BY FS_Singleton
<1>5. \A s \in Threads : Holds(s)' => s \in {t} \/ Apart(rl'[s], n)
  BY GrantHolds
<1>6. req' = req /\ rl'[t] = r
  BY GrantHolds DEF Grant
<1>7. n.id = Proxy => n.id \notin Threads
  BY NoProxy
<1> QED
  BY <1>3, <1>4, <1>5, <1>6, <1>7, NoProxy DEF NodeInv, Apart

\* A node of readers inside of r counts one more.
LEMMA GrantShared ==
  ASSUME ThreadInv, NEW t \in Threads, NEW r \in Ranges, r.off < r.end, Grant(t, r),
         NEW n, NodeInv(n), r.off <= n.off, n.end <= r.end,
         NEW m \in Nodes, m.off = n.off, m.end = n.end, m.cnt = n.cnt + 1, m.id = Proxy, Plain(m)
  PROVE  NodeInv(m)'
<1>1. HoldersOf(m) = HoldersOf(n)
  BY DEF HoldersOf
<1>2. HoldersOf(m)' = HoldersOf(n) \cup {t}
  BY <1>1, GrantHolders
<1>3. Cardinality(HoldersOf(n) \cup {t}) = Cardinality(HoldersOf(n)) + 1
  BY GrantHolds, FiniteHolders, FS_AddElement
<1>4. \A s \in Threads : Holds(s)' => s \in HoldersOf(n) \cup {t} \/ Apart(rl'[s], m)
  BY GrantHolds DEF NodeInv, Apart
<1>5. n.cnt \in Nat /\ n.off < n.end
  BY NodeFields DEF NodeInv
<1> QED
  BY <1>2, <1>3, <1>4, <1>5, NoProxy DEF NodeInv, Plain, Apart

\* Whoever holds a lock on a number holds it in the tree.
LEMMA HoldersApart ==
  ASSUME ThreadInv, NEW T, TreeInv(T), NEW r, r.off \in Nat, r.end \in Nat, r.off < r.end,
         \A n \in T : Apart(r, n), NEW s \in Threads, Holds(s)
  PROVE  Apart(rl[s], r)
<1> SUFFICES ASSUME ~Apart(rl[s], r) PROVE FALSE
  OBVIOUS
<1> DEFINE x == IF rl[s].off <= r.off THEN r.off ELSE rl[s].off
<1>1. x \in Nat /\ Inside(x, rl[s]) /\ Inside(x, r)
  BY ThreadFields DEF Apart, Inside
<1> HIDE DEF x
<1>2. PICK n \in T : Inside(x, n)
  BY <1>1 DEF TreeInv
<1>3. n.off \in Nat /\ n.end \in Nat
  BY TreeType
<1> QED
  BY <1>1, <1>2, <1>3 DEF Apart, Inside

\* A lock that overlaps no other becomes a node of its own.
LEMMA GrantAlone ==
  ASSUME ThreadInv, TreeInv(tree), NEW t \in Threads, NEW r \in Ranges, r.off < r.end, Grant(t, r),
         \A n \in tree : Apart(r, n),
         NEW ty \in {"reader", "writer"}, ty = "reader" <=> req[t].type = "reader",
         tree' = tree \cup {Node(r.off, r.end, 1, ty, t)}
  PROVE  TreeInv(tree)'
<1> DEFINE k == Node(r.off, r.end, 1, ty, t)
<1>r. r.off \in Nat /\ r.end \in Nat
  BY DEF Ranges
<1>k. /\ k \in Nodes /\ k.off = r.off /\ k.end = r.end /\ k.cnt = 1 /\ k.type = ty /\ k.id = t
      /\ ~k.write_wanted /\ ~k.read_wanted
  BY <1>r, NodeIs
<1>u. tree' = tree \cup {k}
  OBVIOUS
<1> HIDE DEF k
<1>1. \A s \in Threads : Holds(s) => Apart(rl[s], r)
  BY <1>r, HoldersApart
<1>2. NodeInv(k)'
  BY <1>k, <1>r, <1>1, GrantNew DEF Apart
<1>3. \A n \in tree : NodeInv(n)'
  BY GrantOutside DEF TreeInv
<1>4. \A n, m \in tree' : n = m \/ Apart(n, m)
  BY <1>k, <1>u DEF TreeInv, Apart
<1>5. \A s \in Threads : Holds(s)' =>
        \A x \in Nat : Inside(x, rl'[s]) => \E n \in tree' : Inside(x, n)
  BY <1>k, <1>u, GrantHolds DEF TreeInv, Inside
<1>6. \A s \in Threads : Holds(s)' /\ req'[s].type # "reader" => \E n \in tree' : n.id = s
  BY <1>k, <1>u, GrantHolds DEF TreeInv, Grant
<1>7. \E b \in Nat : \A n \in tree' : n.off <= b
  <2>1. PICK b \in Nat : \A n \in tree : n.off <= b
    BY DEF TreeInv
  <2>2. \A n \in tree' : n.off <= b + r.off
    BY <1>k, <1>r, <1>u, <2>1, TreeType
  <2> QED
    BY <1>r, <2>1, <2>2
<1> QED
  BY <1>2, <1>3, <1>4, <1>5, <1>6, <1>7, <1>u DEF TreeInv, Apart, Inside

-----------------------------------------------------------------------------
(* zfs_range_add_reader(): a reader among others *)

\* the nodes of N are inside of r
Within(r, N) ==
  /\ r.off \in Nat /\ r.end \in Nat /\ r.off < r.end
  /\ \A n \in N : n.off \in Nat /\ n.end \in Nat /\ r.off <= n.off /\ n.off < n.end /\ n.end <= r.end

LEMMA GapIs ==
  ASSUME NEW r, NEW N, Within(r, N), NEW g \in Gaps(r, N)
  PROVE  /\ g[1] = r.off \/ \E n \in N : g[1] = n.end
         /\ g[2] = r.end \/ \E n \in N : g[2] = n.off
         /\ g[1] \in Nat /\ g[2] \in Nat /\ g = <<g[1], g[2]>>
         /\ r.off <= g[1] /\ g[1] < g[2] /\ g[2] <= r.end
         /\ \A n \in N : n.end <= g[1] \/ g[2] <= n.off
<1>1. /\ g[1] \in {r.off} \cup {n.end : n \in N} /\ g[2] \in {r.end} \cup {n.off : n \in N}
      /\ g = <<g[1], g[2]>> /\ g[1] < g[2] /\ \A n \in N : n.end <= g[1] \/ g[2] <= n.off
  BY DEF Gaps
<1>2. /\ g[1] = r.off \/ \E n \in N : g[1] = n.end
      /\ g[2] = r.end \/ \E n \in N : g[2] = n.off
  BY <1>1
<1> QED
  BY <1>1, <1>2 DEF Within

LEMMA GapsApart ==
  ASSUME NEW r, NEW N, Within(r, N), NEW g \in Gaps(r, N), NEW h \in Gaps(r, N)
  PROVE  g = h \/ g[2] <= h[1] \/ h[2] <= g[1]
<1>1. ASSUME NEW a \in Gaps(r, N), NEW b \in Gaps(r, N), a[1] < b[1], b[1] < a[2]
      PROVE  FALSE
  <2>1. PICK n \in N : b[1] = n.end
    BY <1>1, GapIs DEF Within
  <2>2. n.end <= a[1] \/ a[2] <= n.off
    BY <2>1, GapIs
  <2> QED
    BY <1>1, <2>1, <2>2, GapIs DEF Within
<1>2. ASSUME NEW a \in Gaps(r, N), NEW b \in Gaps(r, N), a[1] = b[1], a[2] < b[2]
      PROVE  FALSE
  <2>1. PICK n \in N : a[2] = n.off
    BY <1>2, GapIs DEF Within
  <2>2. n.end <= b[1] \/ b[2] <= n.off
    BY <2>1, GapIs
  <2>3. a[1] < a[2] /\ a[1] \in Nat /\ b[1] \in Nat /\ b[2] \in Nat /\ n.off < n.end
        /\ n.off \in Nat /\ n.end \in Nat
    BY <2>1, GapIs DEF Within
  <2> QED
    BY <1>2, <2>1, <2>2, <2>3
<1>3. /\ g[1] \in Nat /\ g[2] \in Nat /\ g = <<g[1], g[2]>>
      /\ h[1] \in Nat /\ h[2] \in Nat /\ h = <<h[1], h[2]>>
  BY GapIs
<1>4. CASE g[1] < h[1]
  BY <1>1, <1>3, <1>4
<1>5. CASE h[1] < g[1]
  BY <1>1, <1>3, <1>5
<1>6. CASE g[1] = h[1]
  <2>1. g[2] = h[2]
    BY <1>2, <1>3, <1>6
  <2> QED
    BY <1>3, <1>6, <2>1
<1> QED
  BY <1>3, <1>4, <1>5, <1>6

\* What no node of N covers is in a gap.
LEMMA GapsFill ==
  ASSUME NEW r, NEW N, Within(r, N), NEW x \in Nat, Inside(x, r), \A n \in N : ~Inside(x, n)
  PROVE  \E g \in Gaps(r, N) : g[1] <= x /\ x < g[2]
<1> DEFINE A == {r.off} \cup {n.end : n \in {m \in N : m.end <= x}}
           B == {r.end} \cup {n.off : n \in {m \in N : x < m.off}}
<1>1. PICK a \in A : \A c \in A : c <= a
  <2>1. A \in SUBSET Nat /\ A # {} /\ \A c \in A : c <= x
    BY DEF Within, Inside
  <2> HIDE DEF A
  <2> QED
    BY <2>1, Greatest
<1>2. PICK b \in B : \A c \in B : b <= c
  <2>1. B \in SUBSET Nat /\ B # {}
    BY DEF Within
  <2> HIDE DEF B
  <2> QED
    BY <2>1, Least
<1>3. a \in Nat /\ b \in Nat /\ a <= x /\ x < b
  BY <1>1, <1>2 DEF Within, Inside
<1>4. ASSUME NEW n \in N
      PROVE  n.end <= a \/ b <= n.off
  <2>1. n.end <= x \/ x < n.off
    BY DEF Within, Inside
  <2>2. n.end <= x => n.end <= a
    BY <1>1
  <2>3. x < n.off => b <= n.off
    BY <1>2
  <2> QED
    BY <2>1, <2>2, <2>3
<1>5. a \in {r.off} \cup {n.end : n \in N} /\ b \in {r.end} \cup {n.off : n \in N}
  BY <1>1, <1>2
<1>6. a < b
  BY <1>3
<1> HIDE DEF A, B
<1>7. <<a, b>> \in Gaps(r, N)
  BY <1>4, <1>5, <1>6 DEF Gaps
<1> QED
  BY <1>3, <1>7

LEMMA GrantAmong ==
  ASSUME ThreadInv, NEW T, TreeInv(T), NEW t \in Threads, NEW r \in Ranges, r.off < r.end, Grant(t, r),
         req[t].type = "reader",
         \A n \in T : ~Cut(n, r.off) /\ ~Cut(n, r.end),
         \A n \in T : Apart(r, n) \/ Plain(n),
         NEW N, N = {n \in T : r.off <= n.off /\ n.off < r.end},
         tree' = (T \ N) \cup {[Proxify(n) EXCEPT !.cnt = @ + 1] : n \in N}
                 \cup {Node(g[1], g[2], 1, "reader", Proxy) : g \in Gaps(r, N)}
  PROVE  TreeInv(tree)' /\ \A n \in T : Apart(r, n) => n \in tree'
<1> DEFINE P(n) == [Proxify(n) EXCEPT !.cnt = Proxify(n).cnt + 1]
           G(g) == Node(g[1], g[2], 1, "reader", Proxy)
<1>r. r.off \in Nat /\ r.end \in Nat
  BY DEF Ranges
<1>n. \A n \in T : n.off \in Nat /\ n.end \in Nat /\ n.off < n.end /\ NodeInv(n) /\ n \in Nodes
  BY TreeType DEF TreeInv
<1>1. \A n \in T : n \notin N <=> Apart(r, n)
  BY <1>n, <1>r DEF Apart, Cut
<1>2. \A n \in N : n \in T /\ r.off <= n.off /\ n.end <= r.end /\ Plain(n)
  BY <1>n, <1>r, <1>1 DEF Cut
<1>w. Within(r, N)
  BY <1>n, <1>r, <1>2 DEF Within
<1>p. \A n \in N : /\ P(n) \in Nodes /\ P(n).off = n.off /\ P(n).end = n.end /\ P(n).cnt = n.cnt + 1
                   /\ P(n).id = Proxy /\ Plain(P(n))
  <2> SUFFICES ASSUME NEW n \in N
               PROVE  /\ P(n) \in Nodes /\ P(n).off = n.off /\ P(n).end = n.end /\ P(n).cnt = n.cnt + 1
                      /\ P(n).id = Proxy /\ Plain(P(n))
    OBVIOUS
  <2>1. n \in Nodes /\ Plain(n) /\ NodeInv(n)
    BY <1>n, <1>2
  <2>2. Proxify(n) \in Nodes /\ Proxify(n).off = n.off /\ Proxify(n).end = n.end
        /\ Proxify(n).cnt = n.cnt /\ Proxify(n).id = Proxy /\ Plain(Proxify(n))
    BY <2>1, ProxifyIs, OwnCount
  <2>3. Proxify(n).cnt + 1 \in Nat
    BY <2>2, NodeFields
  <2> QED
    BY <2>2, <2>3, CntIs DEF Plain
<1>g. \A g \in Gaps(r, N) :
        /\ G(g) \in Nodes /\ G(g).off = g[1] /\ G(g).end = g[2] /\ G(g).cnt = 1 /\ G(g).id = Proxy
        /\ G(g).type = "reader" /\ ~G(g).write_wanted /\ ~G(g).read_wanted
        /\ g[1] \in Nat /\ g[2] \in Nat /\ r.off <= g[1] /\ g[1] < g[2] /\ g[2] <= r.end
        /\ \A n \in N : n.end <= g[1] \/ g[2] <= n.off
  <2> SUFFICES ASSUME NEW g \in Gaps(r, N)
        PROVE
        /\ G(g) \in Nodes /\ G(g).off = g[1] /\ G(g).end = g[2] /\ G(g).cnt = 1 /\ G(g).id = Proxy
        /\ G(g).type = "reader" /\ ~G(g).write_wanted /\ ~G(g).read_wanted
        /\ g[1] \in Nat /\ g[2] \in Nat /\ r.off <= g[1] /\ g[1] < g[2] /\ g[2] <= r.end
        /\ \A n \in N : n.end <= g[1] \/ g[2] <= n.off
    OBVIOUS
  <2>1. /\ g[1] \in Nat /\ g[2] \in Nat /\ r.off <= g[1] /\ g[1] < g[2] /\ g[2] <= r.end
        /\ \A n \in N : n.end <= g[1] \/ g[2] <= n.off
    BY <1>w, GapIs
  <2>2. \A a, b \in Nat :
          /\ Node(a, b, 1, "reader", Proxy) \in Nodes
          /\ Node(a, b, 1, "reader", Proxy).off = a /\ Node(a, b, 1, "reader", Proxy).end = b
          /\ Node(a, b, 1, "reader", Proxy).cnt = 1 /\ Node(a, b, 1, "reader", Proxy).id = Proxy
          /\ Node(a, b, 1, "reader", Proxy).type = "reader"
          /\ ~Node(a, b, 1, "reader", Proxy).write_wanted
          /\ ~Node(a, b, 1, "reader", Proxy).read_wanted
    BY DEF Node, Nodes
  <2> QED
    BY <2>1, <2>2
<1>u. \A m : m \in tree' <=> \/ m \in T /\ m \notin N
                             \/ \E n \in N : m = P(n)
                             \/ \E g \in Gaps(r, N) : m = G(g)
  OBVIOUS
<1> HIDE DEF P, G
<1>3. \A m \in tree' : NodeInv(m)'
  <2>1. \A n \in T : n \notin N => NodeInv(n)'
    BY <1>n, <1>1, GrantOutside
  <2>2. \A n \in N : NodeInv(P(n))'
    BY <1>n, <1>2, <1>p, GrantShared
  <2>3. ASSUME NEW g \in Gaps(r, N) PROVE NodeInv(G(g))'
    <3>1. \A n \in T : Apart(G(g), n)
      BY <1>g, <1>n, <1>r, <1>1 DEF Apart
    <3>2. \A s \in Threads : Holds(s) => Apart(rl[s], G(g))
      BY <1>g, <3>1, HoldersApart
    <3> QED
      BY <1>g, <3>2, GrantNew
  <2>4. \A g \in Gaps(r, N) : NodeInv(G(g))'
    BY <2>3
  <2> SUFFICES ASSUME NEW m \in tree' PROVE NodeInv(m)'
    OBVIOUS
  <2>5. CASE m \in T /\ m \notin N
    BY <2>1, <2>5
  <2>6. CASE \E n \in N : m = P(n)
    BY <2>2, <2>6, Zenon
  <2>7. CASE \E g \in Gaps(r, N) : m = G(g)
    BY <2>4, <2>7, Zenon
  <2> QED
    BY <1>u, <2>5, <2>6, <2>7
<1>4. \A m, k \in tree' : m = k \/ Apart(m, k)
  <2>1. ASSUME NEW m \in T, m \notin N, NEW k \in T, k \notin N PROVE m = k \/ Apart(m, k)
    BY <2>1 DEF TreeInv
  <2>2. ASSUME NEW m \in T, m \notin N, NEW k \in N PROVE Apart(m, P(k)) /\ Apart(P(k), m)
    BY <1>2, <1>p, <2>2, TreeType DEF Apart
  <2>3. ASSUME NEW m \in T, m \notin N, NEW g \in Gaps(r, N) PROVE Apart(m, G(g)) /\ Apart(G(g), m)
    BY <1>1, <1>g, <1>n, <1>r, <2>3 DEF Apart
  <2>4. ASSUME NEW m \in N, NEW k \in N PROVE P(m) = P(k) \/ Apart(P(m), P(k))
    BY <1>2, <1>p, TreeType DEF Apart
  <2>5. ASSUME NEW m \in N, NEW g \in Gaps(r, N) PROVE Apart(P(m), G(g)) /\ Apart(G(g), P(m))
    BY <1>p, <1>g DEF Apart
  <2>6. ASSUME NEW g \in Gaps(r, N), NEW h \in Gaps(r, N) PROVE G(g) = G(h) \/ Apart(G(g), G(h))
    BY <1>w, <1>g, GapsApart DEF Apart
  <2> SUFFICES ASSUME NEW m \in tree', NEW k \in tree' PROVE m = k \/ Apart(m, k)
    OBVIOUS
  <2>k. (k \in T /\ k \notin N) \/ (\E n \in N : k = P(n)) \/ (\E g \in Gaps(r, N) : k = G(g))
    BY <1>u
  <2>7. CASE m \in T /\ m \notin N
    BY <2>k, <2>1, <2>2, <2>3, <2>7
  <2>8. ASSUME NEW n \in N, m = P(n) PROVE m = k \/ Apart(m, k)
    BY <2>k, <2>2, <2>4, <2>5, <2>8
  <2>9. ASSUME NEW g \in Gaps(r, N), m = G(g) PROVE m = k \/ Apart(m, k)
    BY <2>k, <2>3, <2>5, <2>6, <2>9
  <2>m. (m \in T /\ m \notin N) \/ (\E n \in N : m = P(n)) \/ (\E g \in Gaps(r, N) : m = G(g))
    BY <1>u
  <2> QED
    BY <2>m, <2>7, <2>8, <2>9
<1>5. \A s \in Threads : Holds(s)' =>
        \A x \in Nat : Inside(x, rl'[s]) => \E n \in tree' : Inside(x, n)
  <2> SUFFICES ASSUME NEW s \in Threads, Holds(s)', NEW x \in Nat, Inside(x, rl'[s])
               PROVE  \E n \in tree' : Inside(x, n)
    BY DEF Inside
  <2>1. CASE \E n \in T : Inside(x, n)
    <3>1. PICK n \in T : Inside(x, n)
      BY <2>1
    <3>2. CASE n \in N
      BY <1>p, <1>u, <3>1, <3>2 DEF Inside
    <3>3. CASE n \notin N
      BY <1>u, <3>1, <3>3
    <3> QED
      BY <3>2, <3>3
  <2>2. CASE ~\E n \in T : Inside(x, n)
    <3>1. s = t /\ Inside(x, r)
      BY <2>2, GrantHolds DEF TreeInv, Inside
    <3>2. PICK g \in Gaps(r, N) : g[1] <= x /\ x < g[2]
      BY <1>2, <1>w, <2>2, <3>1, GapsFill
    <3> QED
      BY <1>g, <1>u, <3>2 DEF Inside
  <2> QED
    BY <2>1, <2>2
<1>6. \A s \in Threads : Holds(s)' /\ req'[s].type # "reader" => \E n \in tree' : n.id = s
  <2> SUFFICES ASSUME NEW s \in Threads, Holds(s)', req'[s].type # "reader"
               PROVE  \E n \in tree' : n.id = s
    OBVIOUS
  <2>1. Holds(s) /\ req[s].type # "reader"
    BY GrantHolds DEF Grant
  <2>2. PICK n \in T : n.id = s
    BY <2>1 DEF TreeInv
  <2>3. n.type # "reader"
    BY <1>n, <2>1, <2>2 DEF NodeInv
  <2>4. n \notin N
    BY <1>2, <2>3 DEF Plain
  <2> QED
    BY <1>u, <2>2, <2>4
<1>7. \E b \in Nat : \A n \in tree' : n.off <= b
  <2>1. PICK b \in Nat : \A n \in T : n.off <= b
    BY DEF TreeInv
  <2>2. \A n \in T : n.off <= b + r.end
    BY <1>n, <1>r, <2>1
  <2>3. \A n \in N : P(n).off <= b + r.end
    BY <1>2, <1>p, <2>2
  <2>4. \A g \in Gaps(r, N) : G(g).off <= b + r.end
    BY <1>g, <1>r, <2>1
  <2>5. b + r.end \in Nat
    BY <1>r, <2>1
  <2> QED
    BY <1>u, <2>2, <2>3, <2>4, <2>5
<1>8. \A n \in T : Apart(r, n) => n \in tree'
  BY <1>1, <1>u
<1> QED
  BY <1>3, <1>4, <1>5, <1>6, <1>7, <1>8 DEF TreeInv, Apart, Inside

LEMMA ReaderGrant ==
  ASSUME ThreadInv, TreeInv(tree), NEW t \in Threads, NEW r \in Ranges, r.off < r.end, Grant(t, r),
         req[t].type = "reader", InReaderWay(r) = {}, tree' = AddReader(t, r)
  PROVE  TreeInv(tree)' /\ \A n \in tree : ~Plain(n) => n \in tree'
<1> DEFINE S == SplitAt(tree, r.off)
           T == SplitAt(S, r.end)
           N == {n \in T : r.off <= n.off /\ n.off < r.end}
<1>r. r.off \in Nat /\ r.end \in Nat
  BY DEF Ranges
<1>u. tree' = IF N = {} THEN tree \cup {Node(r.off, r.end, 1, "reader", t)}
              ELSE (T \ N) \cup {[Proxify(n) EXCEPT !.cnt = @ + 1] : n \in N}
                   \cup {Node(g[1], g[2], 1, "reader", Proxy) : g \in Gaps(r, N)}
  BY DEF AddReader
<1>1. \A n \in tree : Apart(r, n) \/ Plain(n)
  <2> SUFFICES ASSUME NEW n \in tree, ~Apart(r, n) PROVE Plain(n)
    OBVIOUS
  <2>1. n \in Overlapped(r)
    BY ReaderWay
  <2>2. ~(n.type = "writer" \/ n.write_wanted)
    BY <2>1 DEF InReaderWay
  <2>3. NodeInv(n) /\ n \in Nodes
    BY DEF TreeInv, NodeInv
  <2> QED
    BY <2>2, <2>3, NodeFields DEF NodeInv, Plain
<1>2. \A n : n.off \in Nat /\ n.end \in Nat /\ (Cut(n, r.off) \/ Cut(n, r.end)) => ~Apart(r, n)
  BY <1>r DEF Cut, Apart
<1>3. \A n \in tree : Cut(n, r.off) => Plain(n)
  BY <1>1, <1>2, TreeType
<1>4. /\ TreeInv(S) /\ \A m \in S : ~Cut(m, r.off)
      /\ \A m \in S : m \in tree \/ (Plain(m) /\ \E n \in tree : Plain(n) /\ n.off <= m.off /\ m.end <= n.end)
      /\ \A n \in tree : ~Plain(n) => n \in S
      /\ \A y \in Nat : \A n \in tree : Inside(y, n) => \E m \in S : Inside(y, m)
  BY <1>3, <1>r, SplitTree
<1> HIDE DEF S
<1>5. \A n \in S : Cut(n, r.end) => Plain(n)
  BY <1>1, <1>2, <1>4, TreeType
<1>6. /\ TreeInv(T) /\ \A m \in T : ~Cut(m, r.end)
      /\ \A m \in T : m \in S \/ (Plain(m) /\ \E n \in S : Plain(n) /\ n.off <= m.off /\ m.end <= n.end)
      /\ \A n \in S : ~Plain(n) => n \in T
      /\ \A y \in Nat : \A n \in S : Inside(y, n) => \E m \in T : Inside(y, m)
  BY <1>4, <1>5, <1>r, SplitTree
<1> HIDE DEF T
<1>7. \A m \in T : ~Cut(m, r.off)
  <2> SUFFICES ASSUME NEW m \in T, m \notin S, Cut(m, r.off) PROVE FALSE
    BY <1>4
  <2>1. PICK n \in S : n.off <= m.off /\ m.end <= n.end
    BY <1>6
  <2>2. n.off \in Nat /\ n.end \in Nat /\ m.off \in Nat /\ m.end \in Nat
    BY <1>4, <1>6, TreeType
  <2>3. Cut(n, r.off)
    BY <1>r, <2>1, <2>2 DEF Cut
  <2> QED
    BY <1>4, <2>3
<1>8. \A m \in T : Apart(r, m) \/ Plain(m)
  BY <1>1, <1>4, <1>6
<1>9. CASE N = {}
  <2>1. \A n \in tree : Apart(r, n)
    <3> SUFFICES ASSUME NEW n \in tree, ~Apart(r, n) PROVE FALSE
      OBVIOUS
    <3> DEFINE x == IF n.off <= r.off THEN r.off ELSE n.off
    <3>1. x \in Nat /\ Inside(x, n) /\ Inside(x, r)
      BY <1>r, TreeType DEF Apart, Inside
    <3> HIDE DEF x
    <3>2. PICK m \in S : Inside(x, m)
      BY <1>4, <3>1
    <3>3. PICK k \in T : Inside(x, k)
      BY <1>6, <3>1, <3>2
    <3>4. k.off \in Nat /\ k.end \in Nat
      BY <1>6, TreeType
    <3>5. k \in N
      BY <1>r, <1>7, <3>1, <3>3, <3>4 DEF Inside, Cut
    <3> QED
      BY <1>9, <3>5
  <2>2. TreeInv(tree)'
    BY <1>9, <1>u, <2>1, GrantAlone
  <2> QED
    BY <1>9, <1>u, <2>2
<1>10. CASE N # {}
  <2> DEFINE M == N
  <2>1. M = {n \in T : r.off <= n.off /\ n.off < r.end}
    OBVIOUS
  <2>2. tree' = (T \ M) \cup {[Proxify(n) EXCEPT !.cnt = @ + 1] : n \in M}
                 \cup {Node(g[1], g[2], 1, "reader", Proxy) : g \in Gaps(r, M)}
    BY <1>10, <1>u
  <2> HIDE DEF M
  <2>3. TreeInv(tree)' /\ \A n \in T : Apart(r, n) => n \in tree'
    BY <1>6, <1>7, <1>8, <2>1, <2>2, GrantAmong
  <2>4. \A n \in tree : ~Plain(n) => n \in T /\ Apart(r, n)
    BY <1>1, <1>4, <1>6
  <2> QED
    BY <2>3, <2>4
<1> QED
  BY <1>9, <1>10

-----------------------------------------------------------------------------
(* A lock is released *)

\* t has no lock any more
Release(t) ==
  \A s \in Threads :
    /\ Holds(s)' <=> Holds(s) /\ s # t
    /\ s # t => rl'[s] = rl[s] /\ req'[s] = req[s]

LEMMA ReleaseHolders ==
  ASSUME NEW t \in Threads, Release(t), NEW n
  PROVE  HoldersOf(n)' = HoldersOf(n) \ {t}
  BY DEF Release, HoldersOf

LEMMA ReleaseOutside ==
  ASSUME NEW t \in Threads, Release(t), NEW n, NodeInv(n), t \notin HoldersOf(n)
  PROVE  NodeInv(n)'
<1>1. HoldersOf(n)' = HoldersOf(n)
  BY ReleaseHolders
<1>2. \A s \in Threads : Holds(s)' => s \in HoldersOf(n) \/ Apart(rl'[s], n)
  BY DEF NodeInv, Release
<1>3. n.id \in Threads => n.id # t
  BY DEF NodeInv
<1>4. n.id \in Threads => rl'[n.id] = rl[n.id] /\ req'[n.id] = req[n.id]
  BY <1>3 DEF Release
<1> QED
  BY <1>1, <1>2, <1>4 DEF NodeInv, Apart

LEMMA ReleaseShared ==
  ASSUME NEW t \in Threads, Release(t), NEW n, NodeInv(n), t \in HoldersOf(n), n.cnt # 1,
         NEW m \in Nodes, m.off = n.off, m.end = n.end, m.cnt = n.cnt - 1, m.id = n.id,
         m.type = n.type, m.write_wanted = n.write_wanted, m.read_wanted = n.read_wanted
  PROVE  NodeInv(m)'
<1>1. HoldersOf(m) = HoldersOf(n)
  BY DEF HoldersOf
<1>2. HoldersOf(m)' = HoldersOf(n) \ {t}
  BY <1>1, ReleaseHolders
<1>3. Cardinality(HoldersOf(n) \ {t}) = Cardinality(HoldersOf(n)) - 1
  BY FiniteHolders, FS_RemoveElement
<1>4. \A s \in Threads : Holds(s)' => s \in HoldersOf(n) \ {t} \/ Apart(rl'[s], m)
  BY DEF NodeInv, Release, Apart
<1>5. n.id \notin Threads
  BY OwnCount
<1>6. n.cnt \in Nat /\ n.cnt > 0 /\ n.cnt # 1 /\ n.off < n.end
  BY NodeFields DEF NodeInv
<1> QED
  BY <1>2, <1>3, <1>4, <1>5, <1>6 DEF NodeInv, Apart

\* The lock that is a node of its own: every write lock, and the lock of a reader
\* that never met another one.
LEMMA ReleaseOwn ==
  ASSUME ThreadInv, TreeInv(tree), NEW t \in Threads, Release(t),
         NEW n \in tree, n.id = t, tree' = tree \ {n}
  PROVE  TreeInv(tree)'
<1>1. /\ NodeInv(n) /\ HoldersOf(n) = {t} /\ n.off = rl[t].off /\ n.end = rl[t].end
  BY DEF TreeInv, NodeInv
<1>2. \A m \in tree : m # n => t \notin HoldersOf(m)
  BY <1>1, TreeType DEF HoldersOf
<1>3. \A m \in tree' : NodeInv(m)'
  BY <1>2, ReleaseOutside DEF TreeInv
<1>4. \A s \in Threads : Holds(s)' =>
        \A x \in Nat : Inside(x, rl'[s]) => \E m \in tree' : Inside(x, m)
  <2> SUFFICES ASSUME NEW s \in Threads, Holds(s), s # t, NEW x \in Nat, Inside(x, rl[s])
               PROVE  \E m \in tree' : Inside(x, m)
    BY DEF Release, Inside
  <2>1. PICK m \in tree : Inside(x, m)
    BY DEF TreeInv
  <2>2. m # n
    <3> SUFFICES ASSUME m = n PROVE FALSE
      OBVIOUS
    <3>1. Apart(rl[s], n)
      BY <1>1 DEF NodeInv
    <3> QED
      BY <2>1, <3>1, ThreadFields, TreeType DEF Apart, Inside
  <2> QED
    BY <2>1, <2>2
<1>5. \A s \in Threads : Holds(s)' /\ req'[s].type # "reader" => \E m \in tree' : m.id = s
  BY DEF Release, TreeInv
<1>6. \E b \in Nat : \A m \in tree' : m.off <= b
  BY DEF TreeInv
<1>7. \A m, k \in tree' : m = k \/ Apart(m, k)
  BY DEF TreeInv
<1> QED
  BY <1>3, <1>4, <1>5, <1>6, <1>7 DEF TreeInv, Inside, Apart

\* The lock of a reader whose node was replaced by proxies.
LEMMA ReleaseProxies ==
  ASSUME ThreadInv, TreeInv(tree), NEW t \in Threads, Holds(t), Release(t),
         req[t].type = "reader", ~\E n \in tree : n.id = t,
         NEW P, P = {n \in tree : rl[t].off <= n.off /\ n.off < rl[t].end},
         tree' = (tree \ P) \cup {[n EXCEPT !.cnt = @ - 1] : n \in {m \in P : m.cnt # 1}}
  PROVE  TreeInv(tree)'
<1> DEFINE D(n) == [n EXCEPT !.cnt = n.cnt - 1]
<1>t. rl[t].off \in Nat /\ rl[t].end \in Nat
  BY ThreadFields
<1>n. \A n \in tree : n.off \in Nat /\ n.end \in Nat /\ n.off < n.end /\ NodeInv(n) /\ n \in Nodes
  BY TreeType DEF TreeInv
<1>1. \A n \in tree : n \in P <=> t \in HoldersOf(n)
  <2> SUFFICES ASSUME NEW n \in tree PROVE n \in P <=> t \in HoldersOf(n)
    OBVIOUS
  <2>1. t \in HoldersOf(n) \/ Apart(rl[t], n)
    BY <1>n DEF NodeInv
  <2>2. t \in HoldersOf(n) <=> rl[t].off <= n.off /\ n.end <= rl[t].end
    BY DEF HoldersOf
  <2>3. n \in P <=> rl[t].off <= n.off /\ n.off < rl[t].end
    OBVIOUS
  <2>4. n.off \in Nat /\ n.end \in Nat /\ n.off < n.end
    BY <1>n
  <2> QED
    BY <1>t, <2>1, <2>2, <2>3, <2>4 DEF Apart
<1>d. \A n \in P : n.cnt # 1 =>
        /\ D(n) \in Nodes /\ D(n).off = n.off /\ D(n).end = n.end /\ D(n).cnt = n.cnt - 1
        /\ D(n).id = n.id /\ D(n).type = n.type
        /\ D(n).write_wanted = n.write_wanted /\ D(n).read_wanted = n.read_wanted
  <2> SUFFICES ASSUME NEW n \in P, n.cnt # 1
               PROVE  /\ D(n) \in Nodes /\ D(n).off = n.off /\ D(n).end = n.end /\ D(n).cnt = n.cnt - 1
                      /\ D(n).id = n.id /\ D(n).type = n.type
                      /\ D(n).write_wanted = n.write_wanted /\ D(n).read_wanted = n.read_wanted
    OBVIOUS
  <2>1. n \in Nodes /\ n.cnt \in Nat /\ n.cnt > 0
    BY <1>n, NodeFields DEF NodeInv
  <2>2. n.cnt - 1 \in Nat
    BY <2>1
  <2> QED
    BY <2>1, <2>2, CntIs
<1>u. \A m : m \in tree' <=> \/ m \in tree /\ m \notin P
                             \/ \E n \in P : n.cnt # 1 /\ m = D(n)
  OBVIOUS
<1> HIDE DEF D
<1>2. \A m \in tree' : NodeInv(m)'
  <2>1. \A n \in tree : n \notin P => NodeInv(n)'
    BY <1>n, <1>1, ReleaseOutside
  <2>2. ASSUME NEW n \in P, n.cnt # 1 PROVE NodeInv(D(n))'
    BY <1>n, <1>1, <1>d, <2>2, ReleaseShared
  <2> QED
    BY <1>u, <2>1, <2>2
<1>3. \A m, k \in tree' : m = k \/ Apart(m, k)
  <2>1. \A m, k \in tree : m = k \/ Apart(m, k)
    BY DEF TreeInv
  <2>2. \A m, k \in P : m.cnt # 1 /\ k.cnt # 1 => D(m) = D(k) \/ Apart(D(m), D(k))
    BY <1>d, <2>1 DEF Apart
  <2>3. \A m \in tree : \A k \in P : m \notin P /\ k.cnt # 1 => Apart(m, D(k)) /\ Apart(D(k), m)
    BY <1>d, <2>1 DEF Apart
  <2> QED
    BY <1>u, <2>1, <2>2, <2>3
<1>4. \A s \in Threads : Holds(s)' =>
        \A x \in Nat : Inside(x, rl'[s]) => \E m \in tree' : Inside(x, m)
  <2> SUFFICES ASSUME NEW s \in Threads, Holds(s), s # t, NEW x \in Nat, Inside(x, rl[s])
               PROVE  \E m \in tree' : Inside(x, m)
    BY DEF Release, Inside
  <2>1. PICK n \in tree : Inside(x, n)
    BY DEF TreeInv
  <2>2. CASE n \notin P
    BY <1>u, <2>1, <2>2
  <2>3. CASE n \in P
    <3>1. s \in HoldersOf(n) /\ t \in HoldersOf(n)
      BY <1>n, <1>1, <2>1, <2>3, ThreadFields DEF NodeInv, Apart, Inside
    <3>2. n.cnt # 1
      <4>1. ~\E y : HoldersOf(n) = {y}
        BY <3>1
      <4>2. Cardinality(HoldersOf(n)) # 1
        BY <4>1, FiniteHolders, FS_Singleton
      <4>3. n.cnt = Cardinality(HoldersOf(n))
        BY <1>n DEF NodeInv
      <4> QED
        BY <4>2, <4>3
    <3> QED
      BY <1>d, <1>u, <2>1, <2>3, <3>2 DEF Inside
  <2> QED
    BY <2>2, <2>3
<1>5. \A s \in Threads : Holds(s)' /\ req'[s].type # "reader" => \E m \in tree' : m.id = s
  <2> SUFFICES ASSUME NEW s \in Threads, Holds(s), s # t, req[s].type # "reader"
               PROVE  \E m \in tree' : m.id = s
    BY DEF Release
  <2>1. PICK n \in tree : n.id = s
    BY DEF TreeInv
  <2>2. n \notin P
    BY <1>n, <1>1, <2>1 DEF NodeInv
  <2> QED
    BY <1>u, <2>1, <2>2
<1>6. \E b \in Nat : \A m \in tree' : m.off <= b
  <2>1. PICK b \in Nat : \A m \in tree : m.off <= b
    BY DEF TreeInv
  <2>2. \A m \in tree' : m.off <= b
    BY <1>d, <1>u, <2>1
  <2> QED
    BY <2>1, <2>2
<1> QED
  BY <1>2, <1>3, <1>4, <1>5, <1>6 DEF TreeInv, Inside, Apart

-----------------------------------------------------------------------------
(* The locks stay as they are *)

Same ==
  \A s \in Threads :
    /\ Holds(s)' <=> Holds(s)
    /\ Holds(s) => rl'[s] = rl[s] /\ req'[s].type = req[s].type

\* what the nodes m and n have in common when only somebody began to wait
SameLock(m, n) ==
  /\ m.off = n.off /\ m.end = n.end /\ m.cnt = n.cnt /\ m.type = n.type /\ m.id = n.id

LEMMA SameNode ==
  ASSUME Same, NEW n, NodeInv(n), NEW m \in Nodes, SameLock(m, n),
         m.type = "reader" /\ m.read_wanted => m.write_wanted
  PROVE  NodeInv(m)'
<1>1. HoldersOf(m)' = HoldersOf(n)
  BY DEF Same, SameLock, HoldersOf
<1>2. \A s \in Threads : Holds(s)' => s \in HoldersOf(n) \/ Apart(rl'[s], m)
  BY DEF NodeInv, Same, SameLock, Apart
<1>3. n.id \in Threads => Holds(n.id)
  BY DEF NodeInv, HoldersOf
<1>4. n.id \in Threads => rl'[n.id] = rl[n.id] /\ req'[n.id].type = req[n.id].type
  BY <1>3 DEF Same
<1> QED
  BY <1>1, <1>2, <1>4 DEF NodeInv, SameLock, Apart

LEMMA SameTree ==
  ASSUME TreeInv(tree), Same, tree' = tree
  PROVE  TreeInv(tree)'
<1>1. \A n \in tree : NodeInv(n)'
  <2> SUFFICES ASSUME NEW n \in tree PROVE NodeInv(n)'
    OBVIOUS
  <2>1. NodeInv(n)
    BY DEF TreeInv
  <2>2. n \in Nodes /\ (n.type = "reader" /\ n.read_wanted => n.write_wanted) /\ SameLock(n, n)
    BY <2>1 DEF NodeInv, SameLock
  <2> QED
    BY <2>1, <2>2, SameNode
<1>2. \A s \in Threads : Holds(s)' =>
        \A x \in Nat : Inside(x, rl'[s]) => \E m \in tree' : Inside(x, m)
  BY DEF TreeInv, Same, Inside
<1>3. \A s \in Threads : Holds(s)' /\ req'[s].type # "reader" => \E m \in tree' : m.id = s
  BY DEF TreeInv, Same
<1> QED
  BY <1>1, <1>2, <1>3 DEF TreeInv, Apart, Inside

\* Somebody begins to wait for n.
LEMMA FlagTree ==
  ASSUME TreeInv(tree), Same, NEW n \in tree, NEW m \in Nodes, SameLock(m, n),
         m.type = "reader" /\ m.read_wanted => m.write_wanted,
         tree' = (tree \ {n}) \cup {m}
  PROVE  TreeInv(tree)'
<1>1. \A k \in tree' : NodeInv(k)'
  <2> SUFFICES ASSUME NEW k \in tree' PROVE NodeInv(k)'
    OBVIOUS
  <2>1. CASE k = m
    <3>1. NodeInv(n)
      BY DEF TreeInv
    <3>2. NodeInv(m)'
      BY <3>1, SameNode
    <3> QED
      BY <2>1, <3>2
  <2>2. CASE k # m
    <3>1. NodeInv(k)
      BY <2>2 DEF TreeInv
    <3>2. k \in Nodes /\ (k.type = "reader" /\ k.read_wanted => k.write_wanted) /\ SameLock(k, k)
      BY <3>1 DEF NodeInv, SameLock
    <3> QED
      BY <3>1, <3>2, SameNode
  <2> QED
    BY <2>1, <2>2
<1>2. \A x : Inside(x, n) <=> Inside(x, m)
  BY DEF Inside, SameLock
<1>3. \A s \in Threads : Holds(s)' =>
        \A x \in Nat : Inside(x, rl'[s]) => \E k \in tree' : Inside(x, k)
  <2> SUFFICES ASSUME NEW s \in Threads, Holds(s)', NEW x \in Nat, Inside(x, rl'[s])
               PROVE  \E k \in tree' : Inside(x, k)
    BY DEF Inside
  <2>1. Holds(s) /\ Inside(x, rl[s])
    BY DEF Same, Inside
  <2>2. PICK k \in tree : Inside(x, k)
    BY <2>1 DEF TreeInv
  <2> QED
    BY <1>2, <2>2
<1>4. \A s \in Threads : Holds(s)' /\ req'[s].type # "reader" => \E k \in tree' : k.id = s
  <2> SUFFICES ASSUME NEW s \in Threads, Holds(s)', req'[s].type # "reader"
               PROVE  \E k \in tree' : k.id = s
    OBVIOUS
  <2>1. PICK k \in tree : k.id = s
    BY DEF Same, TreeInv
  <2> QED
    BY <2>1 DEF SameLock
<1>5. \A k, l \in tree' : k = l \/ Apart(k, l)
  BY DEF TreeInv, Apart, SameLock
<1>6. \E b \in Nat : \A k \in tree' : k.off <= b
  <2>1. PICK b \in Nat : \A k \in tree : k.off <= b
    BY DEF TreeInv
  <2>2. \A k \in tree' : k.off <= b
    BY <2>1 DEF SameLock
  <2> QED
    BY <2>1, <2>2
<1> QED
  BY <1>1, <1>3, <1>4, <1>5, <1>6 DEF TreeInv, Apart, Inside

-----------------------------------------------------------------------------
(* zfs_range_reduce() *)

Reduced(n, lo, hi) == [n EXCEPT !.off = lo, !.end = hi]

LEMMA ReduceIs ==
  ASSUME NEW n \in Nodes, NEW lo \in Nat, NEW hi \in Nat, NEW m,
         m = Reduced(n, lo, hi)
  PROVE  /\ m \in Nodes /\ m.off = lo /\ m.end = hi /\ m.cnt = n.cnt /\ m.type = n.type
         /\ m.id = n.id /\ m.write_wanted = n.write_wanted /\ m.read_wanted = n.read_wanted
<1> DEFINE k == [n EXCEPT !.off = lo]
<1>1. /\ k \in Nodes /\ k.off = lo /\ k.end = n.end /\ k.cnt = n.cnt /\ k.type = n.type
      /\ k.id = n.id /\ k.write_wanted = n.write_wanted /\ k.read_wanted = n.read_wanted
  BY DEF Nodes
<1>2. m = [k EXCEPT !.end = hi]
  BY DEF Reduced
<1> HIDE DEF k
<1>3. /\ m \in Nodes /\ m.end = hi /\ m.off = k.off /\ m.cnt = k.cnt /\ m.id = k.id
      /\ m.type = k.type /\ m.write_wanted = k.write_wanted /\ m.read_wanted = k.read_wanted
  <2>1. k \in Nodes
    BY <1>1
  <2> QED
    BY <1>2, <2>1 DEF Nodes
<1> QED
  BY <1>1, <1>3

\* The lock of t gets smaller, and the other nodes are nothing to it.
LEMMA ReduceTree ==
  ASSUME ThreadInv, TreeInv(tree), NEW t \in Threads, Holds(t),
         \A s \in Threads : Holds(s)' <=> Holds(s),
         NEW r \in Ranges, r.off < r.end, rl[t].off <= r.off, r.end <= rl[t].end,
         rl' = [rl EXCEPT ![t] = r], req' = req,
         NEW n \in tree, n.id = t,
         NEW m \in Nodes, m.off = r.off, m.end = r.end, m.cnt = n.cnt, m.type = n.type,
         m.id = n.id, m.write_wanted = n.write_wanted, m.read_wanted = n.read_wanted,
         tree' = (tree \ {n}) \cup {m}
  PROVE  TreeInv(tree)'
<1>r. r.off \in Nat /\ r.end \in Nat
  BY DEF Ranges
<1>t. rl'[t] = r /\ \A s \in Threads : s # t => rl'[s] = rl[s]
  BY DEF ThreadInv
<1>n. \A k \in tree : k.off \in Nat /\ k.end \in Nat /\ k.off < k.end /\ NodeInv(k) /\ k \in Nodes
  BY TreeType DEF TreeInv
<1>1. NodeInv(n) /\ HoldersOf(n) = {t} /\ n.off = rl[t].off /\ n.end = rl[t].end
  BY <1>n DEF NodeInv
<1>2. \A s \in Threads : Holds(s) /\ s # t => Apart(rl[s], n) /\ Apart(rl[s], m)
  <2> SUFFICES ASSUME NEW s \in Threads, Holds(s), s # t PROVE Apart(rl[s], n) /\ Apart(rl[s], m)
    OBVIOUS
  <2>1. Apart(rl[s], n)
    BY <1>1 DEF NodeInv
  <2> QED
    BY <1>1, <1>r, <2>1, ThreadFields DEF Apart
<1>3. NodeInv(m)'
  <2>1. HoldersOf(m)' = {t}
    <3> SUFFICES ASSUME NEW s \in Threads PROVE s \in HoldersOf(m)' <=> s = t
      BY DEF HoldersOf
    <3>1. CASE s = t
      BY <1>r, <1>t, <3>1 DEF HoldersOf
    <3>2. CASE s # t /\ Holds(s)
      <4>1. Apart(rl[s], m) /\ rl[s].off < rl[s].end /\ rl[s].off \in Nat /\ rl[s].end \in Nat
        BY <1>2, <3>2, ThreadFields
      <4> QED
        BY <1>r, <1>t, <3>2, <4>1 DEF HoldersOf, Apart
    <3>3. CASE ~Holds(s)
      BY <3>3 DEF HoldersOf
    <3> QED
      BY <3>1, <3>2, <3>3
  <2>2. \A s \in Threads : Holds(s)' => s \in {t} \/ Apart(rl'[s], m)
    BY <1>t, <1>2
  <2>3. m.cnt = Cardinality({t}) /\ m.cnt > 0
    <3>1. n.cnt = 1
      BY <1>1, OwnCount
    <3>2. Cardinality({t}) = 1
      BY FS_Singleton
    <3> QED
      BY <3>1, <3>2
  <2>4. m.type = "reader" <=> req[t].type = "reader"
    BY <1>1 DEF NodeInv
  <2>5. m.type = "reader" /\ m.read_wanted => m.write_wanted
    BY <1>1 DEF NodeInv
  <2> QED
    BY <1>t, <2>1, <2>2, <2>3, <2>4, <2>5, NoProxy DEF NodeInv, Apart
<1>4. \A k \in tree : k # n => NodeInv(k)'
  <2> SUFFICES ASSUME NEW k \in tree, k # n PROVE NodeInv(k)'
    OBVIOUS
  <2>1. Apart(k, n) /\ Apart(k, m) /\ Apart(r, k) /\ t \notin HoldersOf(k)
    <3>1. Apart(k, n)
      BY DEF TreeInv
    <3> QED
      BY <1>1, <1>n, <1>r, <3>1 DEF Apart, HoldersOf
  <2>2. HoldersOf(k)' = HoldersOf(k)
    <3> SUFFICES ASSUME NEW s \in Threads PROVE s \in HoldersOf(k)' <=> s \in HoldersOf(k)
      BY DEF HoldersOf
    <3>1. CASE s = t
      BY <1>n, <1>r, <1>t, <2>1, <3>1 DEF HoldersOf, Apart
    <3>2. CASE s # t
      BY <1>t, <3>2 DEF HoldersOf
    <3> QED
      BY <3>1, <3>2
  <2>3. \A s \in Threads : Holds(s)' => s \in HoldersOf(k) \/ Apart(rl'[s], k)
    BY <1>n, <1>t, <2>1 DEF NodeInv
  <2>4. k.id \in Threads => k.id # t
    BY <1>n, <2>1 DEF NodeInv
  <2>5. k.id \in Threads => rl'[k.id] = rl[k.id] /\ req' = req
    BY <1>t, <2>4
  <2> QED
    BY <1>n, <2>2, <2>3, <2>5 DEF NodeInv, Apart
<1>5. \A k \in tree' : NodeInv(k)'
  BY <1>3, <1>4
<1>6. \A s \in Threads : Holds(s)' =>
        \A x \in Nat : Inside(x, rl'[s]) => \E k \in tree' : Inside(x, k)
  <2> SUFFICES ASSUME NEW s \in Threads, Holds(s), NEW x \in Nat, Inside(x, rl'[s])
               PROVE  \E k \in tree' : Inside(x, k)
    BY DEF Inside
  <2>1. CASE s = t
    BY <1>t, <2>1 DEF Inside
  <2>2. CASE s # t
    <3>1. Inside(x, rl[s])
      BY <1>t, <2>2
    <3>2. PICK k \in tree : Inside(x, k)
      BY <3>1 DEF TreeInv
    <3>3. k # n
      BY <1>2, <1>n, <2>2, <3>1, <3>2, ThreadFields DEF Inside, Apart
    <3> QED
      BY <3>2, <3>3
  <2> QED
    BY <2>1, <2>2
<1>7. \A s \in Threads : Holds(s)' /\ req'[s].type # "reader" => \E k \in tree' : k.id = s
  <2> SUFFICES ASSUME NEW s \in Threads, Holds(s), req[s].type # "reader"
               PROVE  \E k \in tree' : k.id = s
    OBVIOUS
  <2>1. PICK k \in tree : k.id = s
    BY DEF TreeInv
  <2> QED
    BY <2>1
<1>8. \A k, l \in tree' : k = l \/ Apart(k, l)
  <2>1. \A k, l \in tree : k = l \/ Apart(k, l)
    BY DEF TreeInv
  <2>2. \A k \in tree : k # n => Apart(k, m) /\ Apart(m, k)
    BY <1>1, <1>n, <1>r, <2>1 DEF Apart
  <2> QED
    BY <2>1, <2>2
<1>9. \E b \in Nat : \A k \in tree' : k.off <= b
  <2>1. PICK b \in Nat : \A k \in tree : k.off <= b
    BY DEF TreeInv
  <2>2. \A k \in tree' : k.off <= b + r.off
    BY <1>n, <1>r, <2>1
  <2>3. b + r.off \in Nat
    BY <1>r, <2>1
  <2> QED
    BY <2>2, <2>3
<1> QED
  BY <1>5, <1>6, <1>7, <1>8, <1>9 DEF TreeInv, Apart, Inside

-----------------------------------------------------------------------------
(* The steps *)

LEMMA WriterRangeIs ==
  ASSUME ThreadInv, NEW t \in Threads, NEW max, pc[t] # "idle"
  PROVE  WriterRange(t, max) \in Ranges /\ WriterRange(t, max).off < WriterRange(t, max).end
<1>1. req[t].off \in Nat /\ req[t].len \in Nat /\ req[t].len > 0 /\ size \in Nat
  BY DEF ThreadInv
<1>2. WriterOff(t) \in Nat /\ WriterEnd(t) \in Nat /\ WriterOff(t) < WriterEnd(t)
  BY <1>1 DEF WriterOff, WriterEnd
<1>3. Infinity \in Nat /\ 0 < Infinity
  BY InfinityAssumption
<1> QED
  BY <1>2, <1>3 DEF WriterRange, Ranges

LEMMA ReaderRangeIs ==
  ASSUME ThreadInv, NEW t \in Threads, pc[t] # "idle"
  PROVE  ReaderRange(t) \in Ranges /\ ReaderRange(t).off < ReaderRange(t).end
<1>1. req[t].off \in Nat /\ req[t].len \in Nat /\ req[t].len > 0
  BY DEF ThreadInv
<1> QED
  BY <1>1 DEF ReaderRange, Ranges

\* m can be found by who sleeps on n
Follows(m, n) ==
  /\ Key(m) = Key(n)
  /\ (n.read_wanted => m.read_wanted) /\ (n.write_wanted => m.write_wanted)

\* A sleeper that stays asleep is found if the node on which it sleeps stays.
LEMMA Found ==
  ASSUME SleepersFindable, NEW s \in Threads, on'[s] # None, on'[s] = on[s],
         req'[s].type = req[s].type,
         \A n \in tree \cup removed :
           s \in Woken(n) => \E m \in (tree \cup removed)' : Follows(m, n)
  PROVE  \E m \in (tree \cup removed)' : s \in Woken(m)'
<1>1. PICK n \in tree \cup removed : s \in Woken(n)
  BY DEF SleepersFindable
<1>2. PICK m \in (tree \cup removed)' : Follows(m, n)
  BY <1>1
<1>3. s \in Woken(m)'
  BY <1>1, <1>2 DEF Woken, Follows, Key
<1> QED
  BY <1>2, <1>3

LEMMA FollowsItself == \A n : Follows(n, n)
  BY DEF Follows

\* Sleepers are found again if nothing happens to the nodes on which they sleep.
LEMMA FoundAll ==
  ASSUME SleepersFindable,
         \A s \in Threads : on'[s] # None => on'[s] = on[s] /\ req'[s].type = req[s].type,
         \A n \in tree \cup removed :
           (n.read_wanted \/ n.write_wanted) => \E m \in (tree \cup removed)' : Follows(m, n)
  PROVE  SleepersFindable'
<1> SUFFICES ASSUME NEW s \in Threads, on'[s] # None
             PROVE  \E m \in (tree \cup removed)' : s \in Woken(m)'
  BY DEF SleepersFindable
<1>1. \A n \in tree \cup removed : s \in Woken(n) => n.read_wanted \/ n.write_wanted
  BY DEF Woken
<1> QED
  BY <1>1, Found

LEMMA StepZfsRangeLock ==
  ASSUME IInv, NEW t \in Threads, NEW off \in Nat, NEW len \in Nat, NEW ty \in Types, 0 < len,
         ZfsRangeLock(t, off, len, ty)
  PROVE  IInv'
<1>1. ThreadInv'
  BY DEF IInv, ThreadInv, ZfsRangeLock, Goto, Labels, Holds, file
<1>2. TreeInv(tree)'
  <2>1. Same /\ tree' = tree
    BY DEF IInv, ThreadInv, ZfsRangeLock, Goto, Same, Holds
  <2> QED
    BY <2>1, SameTree DEF IInv
<1>3. RemovedInv'
  BY DEF IInv, ThreadInv, RemovedInv, ZfsRangeLock, Goto
<1>4. SleepersFindable'
  <2>1. \A s \in Threads : on'[s] # None => on'[s] = on[s] /\ req'[s].type = req[s].type
    BY DEF IInv, ThreadInv, ZfsRangeLock
  <2>2. (tree \cup removed)' = tree \cup removed
    BY DEF ZfsRangeLock
  <2> QED
    BY <2>1, <2>2, FoundAll, FollowsItself DEF IInv
<1> QED
  BY <1>1, <1>2, <1>3, <1>4 DEF IInv

\* t begins to wait for the node n, which becomes m
LEMMA StepWait ==
  ASSUME IInv, NEW t \in Threads, Runs(t), NEW n \in tree, NEW m \in Nodes, SameLock(m, n),
         m.read_wanted \/ ~n.read_wanted, m.write_wanted \/ ~n.write_wanted,
         IF req[t].type = "reader" THEN m.read_wanted ELSE m.write_wanted,
         m.type = "reader" /\ m.read_wanted => m.write_wanted,
         tree' = (tree \ {n}) \cup {m}, on' = [on EXCEPT ![t] = Key(n)],
         UNCHANGED <<removed, pc, req, rl, size, blksz>>
  PROVE  IInv'
<1>k. Key(m) = Key(n) /\ Key(n) \in Threads \cup Nat
  <2>1. n \in Nodes
    BY TreeType DEF IInv
  <2> QED
    BY <2>1, NodeFields DEF Key, SameLock
<1>1. ThreadInv'
  BY <1>k DEF IInv, ThreadInv, Runs, Holds
<1>2. TreeInv(tree)'
  <2>1. Same
    BY DEF Same, Holds
  <2> QED
    BY <2>1, FlagTree DEF IInv
<1>3. RemovedInv'
  BY DEF IInv, RemovedInv
<1>4. SleepersFindable'
  <2> SUFFICES ASSUME NEW s \in Threads, on'[s] # None
               PROVE  \E k \in (tree \cup removed)' : s \in Woken(k)'
    BY DEF SleepersFindable
  <2>1. CASE s = t
    <3>1. on'[t] = Key(m) /\ req'[t] = req[t]
      BY <1>k DEF IInv, ThreadInv
    <3>2. t \in Woken(m)'
      BY <3>1 DEF Woken, Key
    <3> QED
      BY <2>1, <3>2
  <2>2. CASE s # t
    <3>1. on'[s] = on[s] /\ req'[s].type = req[s].type
      BY <2>2 DEF IInv, ThreadInv
    <3>2. \A k \in tree \cup removed : k # n => k \in (tree \cup removed)'
      OBVIOUS
    <3>3. Follows(m, n) /\ m \in (tree \cup removed)'
      BY <1>k DEF Follows
    <3>4. \A k \in tree \cup removed : \E l \in (tree \cup removed)' : Follows(l, k)
      BY <3>2, <3>3, FollowsItself
    <3> QED
      BY <3>1, <3>4, Found DEF IInv
  <2> QED
    BY <2>1, <2>2
<1> QED
  BY <1>1, <1>2, <1>3, <1>4 DEF IInv

LEMMA StepWriterWait ==
  ASSUME IInv, NEW t \in Threads, WriterWait(t)
  PROVE  IInv'
<1>0. PICK max \in RecordSizes :
        LET q == WriterRange(t, max)
            b == WriterBlocker(q)
        IN  /\ InWriterWay(q) # {}
            /\ tree' = (tree \ {b}) \cup {[b EXCEPT !.write_wanted = TRUE]}
            /\ on' = [on EXCEPT ![t] = Key(b)]
  BY DEF WriterWait
<1> DEFINE r == WriterRange(t, max)
           n == WriterBlocker(r)
           m == [n EXCEPT !.write_wanted = TRUE]
<1>1. /\ Runs(t) /\ req[t].type # "reader" /\ InWriterWay(r) # {}
      /\ tree' = (tree \ {n}) \cup {m} /\ on' = [on EXCEPT ![t] = Key(n)]
      /\ UNCHANGED <<removed, pc, rl, size, blksz>>
  BY <1>0 DEF WriterWait, file
<1>2. req' = req
  BY DEF WriterWait, Reset, IInv, ThreadInv
<1>3. n \in tree
  <2>1. r \in Ranges /\ r.off < r.end
    BY <1>1, WriterRangeIs DEF Runs, IInv
  <2> HIDE DEF r
  <2> QED
    BY <1>1, <2>1, WriterBlocks DEF IInv
<1> HIDE DEF n
<1>4. n \in Nodes
  BY <1>3, TreeType DEF IInv
<1>5. m \in Nodes /\ SameLock(m, n) /\ m.write_wanted /\ m.read_wanted = n.read_wanted
  BY <1>4 DEF Nodes, SameLock
<1> HIDE DEF m
<1>6. m.read_wanted \/ ~n.read_wanted
  BY <1>5, <1>4, NodeFields
<1> QED
  BY <1>1, <1>2, <1>3, <1>5, <1>6, StepWait

LEMMA StepReaderWait ==
  ASSUME IInv, NEW t \in Threads, ReaderWait(t)
  PROVE  IInv'
<1> DEFINE r == ReaderRange(t)
           n == First(InReaderWay(r))
           m == [n EXCEPT !.read_wanted = TRUE]
<1>1. /\ Runs(t) /\ req[t].type = "reader" /\ InReaderWay(r) # {}
      /\ tree' = (tree \ {n}) \cup {m} /\ on' = [on EXCEPT ![t] = Key(n)]
      /\ UNCHANGED <<removed, pc, req, rl, size, blksz>>
  BY DEF ReaderWait, file
<1>2. n \in InReaderWay(r)
  <2> DEFINE W == InReaderWay(r)
  <2>1. W \subseteq tree
    BY DEF InReaderWay, Overlapped
  <2>2. \A k \in W : k.off \in Nat
    BY <2>1, TreeType DEF IInv
  <2> HIDE DEF W
  <2>3. W # {} => First(W) \in W
    BY <2>2, FirstIs
  <2> QED
    BY <1>1, <2>3 DEF W
<1>3. n \in tree /\ (n.type = "writer" \/ n.write_wanted)
  <2> HIDE DEF n
  <2> QED
    BY <1>2 DEF InReaderWay, Overlapped
<1> HIDE DEF n
<1>4. n \in Nodes
  BY <1>3, TreeType DEF IInv
<1>5. m \in Nodes /\ SameLock(m, n) /\ m.read_wanted /\ m.write_wanted = n.write_wanted
  BY <1>4 DEF Nodes, SameLock
<1> HIDE DEF m
<1>6. (m.write_wanted \/ ~n.write_wanted) /\ (m.type = "reader" => m.write_wanted)
  BY <1>3, <1>4, <1>5, NodeFields DEF SameLock
<1> QED
  BY <1>1, <1>3, <1>5, <1>6, StepWait

\* t gets its lock, and the nodes for which somebody waits stay.
LEMMA StepGrant ==
  ASSUME IInv, NEW t \in Threads, Runs(t), NEW r \in Ranges, r.off < r.end,
         rl' = [rl EXCEPT ![t] = r], pc' = [pc EXCEPT ![t] = "held"],
         UNCHANGED <<removed, req, on, size, blksz>>,
         TreeInv(tree)', \A n \in tree : ~Plain(n) => n \in tree'
  PROVE  IInv'
<1>1. ThreadInv'
  BY DEF IInv, ThreadInv, Runs, Holds, Labels
<1>2. RemovedInv'
  BY DEF IInv, ThreadInv, RemovedInv, Runs
<1>3. SleepersFindable'
  <2>1. \A n \in tree \cup removed :
          n.read_wanted \/ n.write_wanted => n \in (tree \cup removed)'
    BY DEF Plain
  <2> QED
    BY <2>1, FoundAll, FollowsItself DEF IInv
<1> QED
  BY <1>1, <1>2, <1>3 DEF IInv

LEMMA StepWriterLock ==
  ASSUME IInv, NEW t \in Threads, WriterLock(t)
  PROVE  IInv'
<1>0. PICK max \in RecordSizes :
        LET q == WriterRange(t, max)
        IN  /\ InWriterWay(q) = {}
            /\ tree' = tree \cup {Node(q.off, q.end, 1, "writer", t)}
            /\ rl' = [rl EXCEPT ![t] = q]
  BY DEF WriterLock
<1> DEFINE r == WriterRange(t, max)
<1>1. /\ Runs(t) /\ req[t].type # "reader" /\ InWriterWay(r) = {}
      /\ tree' = tree \cup {Node(r.off, r.end, 1, "writer", t)}
      /\ rl' = [rl EXCEPT ![t] = r] /\ pc' = [pc EXCEPT ![t] = "held"]
      /\ UNCHANGED <<removed, req, on, size, blksz>>
  BY <1>0 DEF WriterLock, Goto, file
<1>2. r \in Ranges /\ r.off < r.end
  BY <1>1, WriterRangeIs DEF Runs, IInv
<1> HIDE DEF r
<1>3. Grant(t, r)
  BY <1>1 DEF Grant, Runs
<1>4. \A n \in tree : Apart(r, n)
  BY <1>1, <1>2, WriterWay DEF IInv
<1>5. TreeInv(tree)'
  BY <1>1, <1>2, <1>3, <1>4, GrantAlone DEF IInv
<1> QED
  BY <1>1, <1>2, <1>5, StepGrant

LEMMA StepReaderLock ==
  ASSUME IInv, NEW t \in Threads, ReaderLock(t)
  PROVE  IInv'
<1> DEFINE r == ReaderRange(t)
<1>1. /\ Runs(t) /\ req[t].type = "reader" /\ InReaderWay(r) = {}
      /\ tree' = AddReader(t, r)
      /\ rl' = [rl EXCEPT ![t] = r] /\ pc' = [pc EXCEPT ![t] = "held"]
      /\ UNCHANGED <<removed, req, on, size, blksz>>
  BY DEF ReaderLock, Goto, file
<1>2. r \in Ranges /\ r.off < r.end
  BY <1>1, ReaderRangeIs DEF Runs, IInv
<1> HIDE DEF r
<1>3. Grant(t, r)
  BY <1>1 DEF Grant, Runs
<1>4. TreeInv(tree)' /\ \A n \in tree : ~Plain(n) => n \in tree'
  BY <1>1, <1>2, <1>3, ReaderGrant DEF IInv
<1> QED
  BY <1>1, <1>2, <1>4, StepGrant

\* Two nodes of one thread are the same.
LEMMA OneNode ==
  ASSUME TreeInv(tree), NEW t \in Threads, NEW n \in tree, NEW m \in tree, n.id = t, m.id = t
  PROVE  n = m
<1>1. n.off = rl[t].off /\ m.off = rl[t].off
  BY DEF TreeInv, NodeInv
<1> QED
  BY <1>1, TreeType

LEMMA StepUnlockReader ==
  ASSUME IInv, NEW t \in Threads, UnlockReader(t)
  PROVE  IInv'
<1> DEFINE P == Pieces(t)
           gone == {n \in P : n.cnt = 1}
           D(n) == [n EXCEPT !.cnt = n.cnt - 1]
<1>1. /\ pc[t] = "held" /\ req[t].type = "reader"
      /\ tree' = (tree \ P) \cup {D(n) : n \in P \ gone}
      /\ on' = [s \in Threads |-> IF s \in UNION {Woken(n) : n \in gone} THEN None ELSE on[s]]
      /\ req' = [req EXCEPT ![t] = NoReq] /\ rl' = [rl EXCEPT ![t] = NoRange]
      /\ pc' = [pc EXCEPT ![t] = "idle"]
      /\ UNCHANGED <<removed, size, blksz>>
  BY DEF UnlockReader, LastHold, Wake, Free, Goto, file
<1>2. ThreadInv /\ TreeInv(tree) /\ RemovedInv /\ SleepersFindable
  BY DEF IInv
<1>3. ThreadInv'
  <2>1. NoReq \in [off : Nat, len : Nat, type : Types] /\ NoRange \in Ranges /\ "idle" \in Labels
    BY DEF NoReq, NoRange, Types, Ranges, Labels
  <2>2. on' \in [Threads -> Threads \cup Nat \cup {None}] /\ \A s \in Threads : on'[s] = on[s] \/ on'[s] = None
    BY <1>1, <1>2 DEF ThreadInv
  <2>3. \A s \in Threads : on[s] # None => s # t
    BY <1>1, <1>2 DEF ThreadInv
  <2> QED
    BY <1>1, <1>2, <2>1, <2>2, <2>3 DEF ThreadInv, Holds
<1>4. Release(t) /\ Holds(t)
  BY <1>1, <1>2 DEF Release, Holds, ThreadInv
<1>5. P \subseteq tree
  BY DEF Pieces
<1>6. TreeInv(tree)'
  <2>1. CASE \E n \in tree : n.id = t
    <3>1. PICK n \in tree : n.id = t
      BY <2>1
    <3>2. P = {n}
      BY <1>2, <2>1, <3>1, OneNode DEF Pieces
    <3>3. n.cnt = 1
      BY <1>2, <3>1, OwnCount DEF TreeInv
    <3>4. tree' = tree \ {n}
      BY <1>1, <3>2, <3>3
    <3> QED
      BY <1>2, <1>4, <3>1, <3>4, ReleaseOwn
  <2>2. CASE ~\E n \in tree : n.id = t
    <3>1. P = {n \in tree : rl[t].off <= n.off /\ n.off < rl[t].end}
      BY <2>2 DEF Pieces
    <3>2. P \ gone = {m \in P : m.cnt # 1}
      OBVIOUS
    <3>3. tree' = (tree \ P) \cup {[n EXCEPT !.cnt = @ - 1] : n \in {m \in P : m.cnt # 1}}
      BY <1>1, <3>2
    <3> HIDE DEF P
    <3> QED
      BY <1>1, <1>2, <1>4, <2>2, <3>1, <3>3, ReleaseProxies
  <2> QED
    BY <2>1, <2>2
<1>7. RemovedInv'
  BY <1>1, <1>2 DEF ThreadInv, RemovedInv
<1>8. SleepersFindable'
  <2> SUFFICES ASSUME NEW s \in Threads, on'[s] # None
               PROVE  \E m \in (tree \cup removed)' : s \in Woken(m)'
    BY DEF SleepersFindable
  <2>1. on'[s] = on[s] /\ \A n \in gone : s \notin Woken(n)
    <3> HIDE DEF gone
    <3> QED
      BY <1>1
  <2>2. s # t
    BY <1>1, <1>2, <2>1 DEF ThreadInv
  <2>3. req'[s].type = req[s].type
    BY <1>1, <1>2, <2>2 DEF ThreadInv
  <2>4. ASSUME NEW n \in tree \cup removed, s \in Woken(n)
        PROVE  \E m \in (tree \cup removed)' : Follows(m, n)
    <3>1. CASE n \in P
      <4>1. n \in P \ gone
        BY <2>1, <2>4, <3>1
      <4>2. D(n) \in tree'
        <5> HIDE DEF D, gone, P
        <5> QED
          BY <1>1, <4>1
      <4>3. n \in Nodes /\ n.cnt \in Nat /\ n.cnt > 0
        BY <1>2, <1>5, <3>1, NodeFields DEF TreeInv, NodeInv
      <4>4. n.cnt - 1 \in Nat
        BY <4>3
      <4>5. /\ D(n).off = n.off /\ D(n).id = n.id
            /\ D(n).write_wanted = n.write_wanted /\ D(n).read_wanted = n.read_wanted
        BY <4>3, <4>4, CntIs
      <4> HIDE DEF D
      <4>6. Follows(D(n), n)
        BY <4>5 DEF Follows, Key
      <4> QED
        BY <4>2, <4>6
    <3>2. CASE n \notin P
      <4>1. n \in (tree \cup removed)'
        BY <1>1, <3>2
      <4> QED
        BY <4>1, FollowsItself
    <3> QED
      BY <3>1, <3>2
  <2> QED
    BY <1>2, <2>1, <2>3, <2>4, Found
<1> QED
  BY <1>3, <1>6, <1>7, <1>8 DEF IInv

LEMMA StepUnlockWriter ==
  ASSUME IInv, NEW t \in Threads, UnlockWriter(t)
  PROVE  IInv'
<1>1. PICK n \in tree : n.id = t /\ tree' = tree \ {n} /\ removed' = removed \cup {n}
  BY DEF UnlockWriter
<1>2. /\ pc[t] = "held" /\ pc' = [pc EXCEPT ![t] = "unlocked"]
      /\ UNCHANGED <<req, rl, on, size, blksz>>
  BY DEF UnlockWriter, Goto, file
<1>3. ThreadInv /\ TreeInv(tree) /\ RemovedInv /\ SleepersFindable
  BY DEF IInv
<1>4. ThreadInv'
  BY <1>2, <1>3 DEF ThreadInv, Labels, Holds
<1>5. TreeInv(tree)'
  <2>1. Release(t)
    BY <1>2, <1>3 DEF Release, Holds, ThreadInv
  <2> QED
    BY <1>1, <1>3, <2>1, ReleaseOwn
<1>6. RemovedInv'
  <2>1. n \in Nodes
    BY <1>1, <1>3, TreeType
  <2>2. \A m \in removed : m.id # t
    BY <1>2, <1>3 DEF RemovedInv
  <2> QED
    BY <1>1, <1>2, <1>3, <2>1, <2>2 DEF RemovedInv, ThreadInv
<1>7. SleepersFindable'
  <2>1. (tree \cup removed)' = tree \cup removed
    BY <1>1
  <2> QED
    BY <1>2, <1>3, <2>1, FoundAll, FollowsItself
<1> QED
  BY <1>4, <1>5, <1>6, <1>7 DEF IInv

LEMMA StepUnlockWake ==
  ASSUME IInv, NEW t \in Threads, UnlockWake(t)
  PROVE  IInv'
<1>1. PICK n \in removed : n.id = t /\ Wake(Woken(n)) /\ removed' = removed \ {n}
  BY DEF UnlockWake
<1>2. /\ pc[t] = "unlocked" /\ pc' = [pc EXCEPT ![t] = "idle"]
      /\ req' = [req EXCEPT ![t] = NoReq] /\ rl' = [rl EXCEPT ![t] = NoRange]
      /\ UNCHANGED <<tree, size, blksz>>
  BY DEF UnlockWake, Free, Goto, file
<1>3. ThreadInv /\ TreeInv(tree) /\ RemovedInv /\ SleepersFindable
  BY DEF IInv
<1>4. /\ on' \in [Threads -> Threads \cup Nat \cup {None}]
      /\ \A s \in Threads : on'[s] # None => on'[s] = on[s] /\ s \notin Woken(n) /\ s # t
  BY <1>1, <1>2, <1>3 DEF ThreadInv, Wake
<1>5. ThreadInv'
  <2>1. NoReq \in [off : Nat, len : Nat, type : Types] /\ NoRange \in Ranges /\ "idle" \in Labels
    BY DEF NoReq, NoRange, Types, Ranges, Labels
  <2> QED
    BY <1>2, <1>3, <1>4, <2>1 DEF ThreadInv, Holds
<1>6. TreeInv(tree)'
  <2>1. Same
    BY <1>2, <1>3 DEF Same, Holds, ThreadInv
  <2> QED
    BY <1>2, <1>3, <2>1, SameTree
<1>7. RemovedInv'
  <2>1. \A m \in removed' : m \in removed /\ m.id # t
    BY <1>1, <1>3 DEF RemovedInv
  <2> QED
    BY <1>2, <1>3, <2>1 DEF RemovedInv, ThreadInv
<1>8. SleepersFindable'
  <2> SUFFICES ASSUME NEW s \in Threads, on'[s] # None
               PROVE  \E m \in (tree \cup removed)' : s \in Woken(m)'
    BY DEF SleepersFindable
  <2>1. on'[s] = on[s] /\ s \notin Woken(n) /\ req'[s].type = req[s].type
    BY <1>2, <1>3, <1>4 DEF ThreadInv
  <2>2. \A m \in tree \cup removed : s \in Woken(m) => m \in (tree \cup removed)'
    BY <1>1, <1>2, <2>1
  <2> QED
    BY <1>3, <2>1, <2>2, Found, FollowsItself
<1> QED
  BY <1>5, <1>6, <1>7, <1>8 DEF IInv

LEMMA StepReduce ==
  ASSUME IInv, NEW t \in Threads, NEW lo \in Nat, NEW hi \in Nat, lo < hi, hi <= Infinity,
         Reduce(t, [off |-> lo, end |-> hi])
  PROVE  IInv'
<1> DEFINE r == [off |-> lo, end |-> hi]
<1>r. r \in Ranges /\ r.off = lo /\ r.end = hi
  BY DEF Ranges
<1>0. PICK n \in tree : n.id = t /\ tree' = (tree \ {n}) \cup {[n EXCEPT !.off = r.off, !.end = r.end]}
  BY DEF Reduce
<1>1. PICK m : m = Reduced(n, lo, hi) /\ n.id = t /\ tree' = (tree \ {n}) \cup {m}
  BY <1>0, <1>r DEF Reduced
<1>2. /\ pc[t] = "held" /\ pc' = [pc EXCEPT ![t] = "reduced"] /\ rl' = [rl EXCEPT ![t] = r]
      /\ rl[t].off = 0 /\ rl[t].end = Infinity
      /\ UNCHANGED <<removed, req, on, size, blksz>>
  BY DEF Reduce, Goto, file
<1> HIDE DEF r
<1>3. ThreadInv /\ TreeInv(tree) /\ RemovedInv /\ SleepersFindable
  BY DEF IInv
<1>4. n \in Nodes
  BY <1>3, TreeType
<1>5. /\ m \in Nodes /\ m.off = lo /\ m.end = hi /\ m.cnt = n.cnt /\ m.type = n.type
      /\ m.id = n.id /\ m.write_wanted = n.write_wanted /\ m.read_wanted = n.read_wanted
  BY <1>1, <1>4, ReduceIs
<1>6. ThreadInv'
  BY <1>2, <1>3, <1>r DEF ThreadInv, Labels, Holds
<1>7. TreeInv(tree)'
  <2>1. Holds(t) /\ \A s \in Threads : Holds(s)' <=> Holds(s)
    BY <1>2, <1>3 DEF Holds, ThreadInv
  <2>2. rl[t].off <= r.off /\ r.end <= rl[t].end /\ r.off < r.end
    BY <1>2, <1>r
  <2> QED
    BY <1>1, <1>2, <1>3, <1>5, <1>r, <2>1, <2>2, ReduceTree
<1>8. RemovedInv'
  BY <1>2, <1>3 DEF RemovedInv, ThreadInv
<1>9. SleepersFindable'
  <2>1. Follows(m, n)
    BY <1>1, <1>5, NoProxy DEF Follows, Key
  <2>2. \A k \in tree \cup removed : \E l \in (tree \cup removed)' : Follows(l, k)
    BY <1>1, <1>2, <2>1, FollowsItself
  <2> QED
    BY <1>2, <1>3, <2>2, FoundAll
<1> QED
  BY <1>6, <1>7, <1>8, <1>9 DEF IInv

LEMMA StepReduceWake ==
  ASSUME IInv, NEW t \in Threads, ReduceWake(t)
  PROVE  IInv'
<1>1. PICK n \in tree : n.id = t /\ Wake(Woken(n))
  BY DEF ReduceWake
<1>2. /\ pc[t] = "reduced" /\ pc' = [pc EXCEPT ![t] = "held"]
      /\ UNCHANGED <<tree, removed, req, rl, size, blksz>>
  BY DEF ReduceWake, Goto, file
<1>3. ThreadInv /\ TreeInv(tree) /\ RemovedInv /\ SleepersFindable
  BY DEF IInv
<1>4. /\ on' \in [Threads -> Threads \cup Nat \cup {None}]
      /\ \A s \in Threads : on'[s] # None => on'[s] = on[s]
  BY <1>1, <1>3 DEF ThreadInv, Wake
<1>5. ThreadInv'
  BY <1>2, <1>3, <1>4 DEF ThreadInv, Labels, Holds
<1>6. TreeInv(tree)'
  <2>1. Same
    BY <1>2, <1>3 DEF Same, Holds, ThreadInv
  <2> QED
    BY <1>2, <1>3, <2>1, SameTree
<1>7. RemovedInv'
  BY <1>2, <1>3 DEF RemovedInv, ThreadInv
<1>8. SleepersFindable'
  BY <1>2, <1>3, <1>4, FoundAll, FollowsItself
<1> QED
  BY <1>5, <1>6, <1>7, <1>8 DEF IInv

LEMMA StepSame ==
  ASSUME IInv, UNCHANGED <<tree, removed, pc, req, rl, on>>, size' \in Nat, blksz' \in Nat
  PROVE  IInv'
<1>1. ThreadInv'
  BY DEF IInv, ThreadInv, Holds
<1>2. TreeInv(tree)'
  <2>1. Same
    BY DEF Same, Holds
  <2> QED
    BY <2>1, SameTree DEF IInv
<1>3. RemovedInv'
  BY DEF IInv, RemovedInv
<1>4. SleepersFindable'
  BY FoundAll, FollowsItself DEF IInv
<1> QED
  BY <1>1, <1>2, <1>3, <1>4 DEF IInv

LEMMA InitIInv ==
  ASSUME Init
  PROVE  IInv
<1>1. ThreadInv
  BY DEF Init, ThreadInv, Holds, NoReq, NoRange, Labels, Types, Ranges
<1>2. TreeInv(tree)
  <2>1. \A t \in Threads : ~Holds(t)
    BY DEF Init, Holds
  <2> QED
    BY <2>1 DEF Init, TreeInv
<1>3. RemovedInv
  BY DEF Init, RemovedInv
<1>4. SleepersFindable
  BY DEF Init, SleepersFindable
<1> QED
  BY <1>1, <1>2, <1>3, <1>4 DEF IInv

LEMMA NextIInv ==
  ASSUME IInv, [Next]_vars
  PROVE  IInv'
<1>1. CASE UNCHANGED vars
  <2>1. UNCHANGED <<tree, removed, pc, req, rl, on>> /\ size' \in Nat /\ blksz' \in Nat
    BY <1>1 DEF vars, IInv, ThreadInv
  <2> QED
    BY <2>1, StepSame
<1>2. CASE FileChanges
  BY <1>2, StepSame DEF FileChanges
<1>3. ASSUME NEW t \in Threads, LockStep(t)
      PROVE  IInv'
  BY <1>3, StepWriterWait, StepWriterLock, StepReaderWait, StepReaderLock DEF LockStep
<1>4. ASSUME NEW t \in Threads, WakeStep(t)
      PROVE  IInv'
  BY <1>4, StepUnlockWake, StepReduceWake DEF WakeStep
<1>5. ASSUME NEW t \in Threads, UnlockStep(t)
      PROVE  IInv'
  BY <1>5, StepUnlockReader, StepUnlockWriter DEF UnlockStep
<1>6. ASSUME NEW t \in Threads, CallerStep(t)
      PROVE  IInv'
  BY <1>6, StepZfsRangeLock, StepReduce DEF CallerStep, Types
<1> QED
  BY <1>1, <1>2, <1>3, <1>4, <1>5, <1>6 DEF Next

\* The inductive invariant holds of every state that zfs_range_lock(),
\* zfs_range_reduce() and zfs_range_unlock() reach.
THEOREM Invariant == Spec => []IInv
<1>1. Init => IInv
  BY InitIInv
<1>2. IInv /\ [Next]_vars => IInv'
  BY NextIInv
<1> QED
  BY <1>1, <1>2, PTL DEF Spec

-----------------------------------------------------------------------------
(* The properties *)

\* The node of a write lock has no holder but its writer.
LEMMA WriterAlone ==
  ASSUME IInv, NEW t \in Threads, NEW s \in Threads, t # s, Holds(t), Holds(s),
         req[t].type # "reader"
  PROVE  Apart(rl[s], rl[t])
<1>1. PICK n \in tree : n.id = t
  BY DEF IInv, TreeInv
<1>2. NodeInv(n)
  BY DEF IInv, TreeInv
<1>3. HoldersOf(n) = {t} /\ n.off = rl[t].off /\ n.end = rl[t].end
  BY <1>1, <1>2 DEF NodeInv
<1>4. Apart(rl[s], n)
  BY <1>2, <1>3 DEF NodeInv
<1> QED
  BY <1>3, <1>4 DEF Apart

LEMMA IInvExclusion ==
  ASSUME IInv
  PROVE  Exclusion
<1> SUFFICES ASSUME NEW t \in Threads, NEW s \in Threads, t # s, Holds(t), Holds(s),
                    rl[t].off < rl[s].end, rl[s].off < rl[t].end
             PROVE  req[t].type = "reader" /\ req[s].type = "reader"
  BY DEF Exclusion
<1>1. /\ rl[t].off \in Nat /\ rl[t].end \in Nat /\ rl[s].off \in Nat /\ rl[s].end \in Nat
  BY ThreadFields DEF IInv
<1>2. ~Apart(rl[s], rl[t]) /\ ~Apart(rl[t], rl[s])
  BY <1>1 DEF Apart
<1> QED
  BY <1>2, WriterAlone

\* The holders of an offset are those of the node that covers it.
LEMMA CoveringIs ==
  ASSUME IInv, NEW x \in Nat, NEW n \in Covering(x)
  PROVE  Covering(x) = {n} /\ Holders(x) = HoldersOf(n) /\ Holders(x) # {}
         /\ n.cnt = Cardinality(Holders(x))
<1>1. n \in tree /\ n.off <= x /\ x < n.end
  BY DEF Covering
<1>2. NodeInv(n) /\ n.off \in Nat /\ n.end \in Nat
  BY <1>1, TreeType DEF IInv, TreeInv
<1>3. \A m \in Covering(x) : m = n
  <2> SUFFICES ASSUME NEW m \in Covering(x) PROVE m = n
    OBVIOUS
  <2>1. m \in tree /\ m.off <= x /\ x < m.end /\ m.off \in Nat /\ m.end \in Nat
    BY TreeType DEF Covering, IInv
  <2>2. m = n \/ m.end <= n.off \/ n.end <= m.off
    BY <1>1, <2>1, TreeType DEF IInv
  <2> QED
    BY <1>1, <1>2, <2>1, <2>2
<1>4. Holders(x) = HoldersOf(n)
  <2> SUFFICES ASSUME NEW t \in Threads PROVE t \in Holders(x) <=> t \in HoldersOf(n)
    BY DEF Holders, HoldersOf
  <2>1. rl[t].off \in Nat /\ rl[t].end \in Nat
    BY ThreadFields DEF IInv
  <2>2. t \in HoldersOf(n) <=> Holds(t) /\ rl[t].off <= n.off /\ n.end <= rl[t].end
    BY DEF HoldersOf
  <2>3. t \in Holders(x) <=> Holds(t) /\ rl[t].off <= x /\ x < rl[t].end
    BY DEF Holders
  <2>4. Holds(t) => t \in HoldersOf(n) \/ Apart(rl[t], n)
    BY <1>2 DEF NodeInv
  <2>5. Apart(rl[t], n) => ~(rl[t].off <= x /\ x < rl[t].end)
    BY <1>1, <1>2, <2>1 DEF Apart
  <2>6. rl[t].off <= n.off /\ n.end <= rl[t].end => rl[t].off <= x /\ x < rl[t].end
    BY <1>1, <1>2, <2>1
  <2> QED
    BY <2>2, <2>3, <2>4, <2>5, <2>6
<1>5. n.cnt = Cardinality(HoldersOf(n)) /\ n.cnt > 0
  BY <1>2 DEF NodeInv
<1>6. HoldersOf(n) # {}
  BY <1>5, FS_EmptySet
<1> QED
  BY <1>3, <1>4, <1>5, <1>6

\* The nodes at the ends of a lock end where it does.
LEMMA TileEnds ==
  ASSUME IInv, NEW t \in Threads, Holds(t)
  PROVE  (\E n \in tree : n.off = rl[t].off) /\ (\E n \in tree : n.end = rl[t].end)
<1>t. rl[t].off \in Nat /\ rl[t].end \in Nat /\ rl[t].off < rl[t].end
  BY ThreadFields DEF IInv
<1>1. ASSUME NEW x \in Nat, Inside(x, rl[t])
      PROVE  \E n \in tree : /\ Inside(x, n) /\ n.off \in Nat /\ n.end \in Nat
                             /\ rl[t].off <= n.off /\ n.end <= rl[t].end
  <2>1. PICK n \in tree : Inside(x, n)
    BY <1>1 DEF IInv, TreeInv
  <2>2. NodeInv(n) /\ n.off \in Nat /\ n.end \in Nat
    BY TreeType DEF IInv, TreeInv
  <2>3. ~Apart(rl[t], n)
    BY <1>1, <1>t, <2>1, <2>2 DEF Apart, Inside
  <2>4. t \in HoldersOf(n)
    BY <2>2, <2>3 DEF NodeInv
  <2> QED
    BY <2>1, <2>2, <2>4 DEF HoldersOf
<1>2. PICK n \in tree : /\ Inside(rl[t].off, n) /\ n.off \in Nat /\ rl[t].off <= n.off
  BY <1>t, <1>1 DEF Inside
<1>3. PICK m \in tree : Inside(rl[t].end - 1, m) /\ m.end \in Nat /\ m.end <= rl[t].end
  BY <1>t, <1>1 DEF Inside
<1> QED
  BY <1>t, <1>2, <1>3 DEF Inside

LEMMA IInvCountsExact ==
  ASSUME IInv
  PROVE  CountsExact
<1>1. ASSUME NEW x \in 0..(Infinity - 1)
      PROVE  IF Holders(x) = {} THEN Covering(x) = {}
             ELSE \E n \in tree : Covering(x) = {n} /\ n.cnt = Cardinality(Holders(x))
  <2>1. x \in Nat
    BY InfinityAssumption
  <2>2. CASE Holders(x) = {}
    BY <2>1, <2>2, CoveringIs
  <2>3. CASE Holders(x) # {}
    <3>1. PICK t \in Threads : Holds(t) /\ Inside(x, rl[t])
      BY <2>3 DEF Holders, Inside
    <3>2. PICK n \in tree : Inside(x, n)
      BY <2>1, <3>1 DEF IInv, TreeInv
    <3>3. n \in Covering(x)
      BY <3>2 DEF Covering, Inside
    <3> QED
      BY <2>1, <2>3, <3>2, <3>3, CoveringIs
  <2> QED
    BY <2>2, <2>3
<1> QED
  BY <1>1, TileEnds DEF CountsExact

\* zfs_range_lock() never lets a write lock overlap another lock, although
\* readers split nodes, an append chooses its range late and a writer that
\* makes the blocks grow locks the whole file.
THEOREM WritersExclude == Spec => []Exclusion
  BY Invariant, IInvExclusion, PTL

\* However the readers come and go, the nodes of zfs_range_add_reader() and
\* zfs_range_unlock_reader() are disjoint, tile every lock, and count the
\* locks on every offset they cover.
THEOREM CountsHolders == Spec => []CountsExact
  BY Invariant, IInvCountsExact, PTL

\* No wakeup is lost: the node on which a thread sleeps is in the tree, or with
\* the thread that is about to broadcast, with its flag set.
THEOREM SleepersFound == Spec => []SleepersFindable
<1>1. IInv => SleepersFindable
  BY DEF IInv
<1> QED
  BY <1>1, Invariant, PTL
-----------------------------------------------------------------------------
(* The callers *)

\* A file whose end is at e has one block or blocks of a power of two, if it had not
\* others before.
Fits(e) == e <= blksz \/ IsP2(blksz) \/ multi

FileOK ==
  /\ stage \in [Threads -> {"new", "grown", "written"}] /\ appenders \subseteq Threads
  /\ size <= MaxOffset /\ blksz > 0 /\ blksz <= SPA_MAXBLOCKSIZE
  /\ multi \in BOOLEAN /\ (size > blksz => multi)

\* zfs_write() asks for a range of the file, zfs_extend() and zfs_trunc() for all.
RequestOK(t) ==
  pc[t] # "idle" =>
    \/ req[t].off <= MaxOffset /\ req[t].len <= MaxOffset
    \/ req[t].off = 0 /\ req[t].len = Infinity /\ req[t].type = "writer"

\* A writer that has not the whole file stays inside the blocks there are.
GrantOK(t) ==
  Holds(t) =>
    /\ rl[t].end <= Infinity
    /\ rl[t].end = Infinity => rl[t].off = 0 /\ req[t].type # "reader"
    /\ req[t].len = Infinity => rl[t].end = Infinity
    /\ req[t].type # "reader" /\ rl[t].end # Infinity => Fits(rl[t].end)

\* A writer that has grown the blocks has room for what it writes.
StageOK(t) ==
  /\ ~Holds(t) => stage[t] = "new"
  /\ Holds(t) /\ stage[t] = "grown" /\ OverLocked(t) => Fits(WriteEnd(t)) /\ Woff(t) < Limit[t]

AppendOK(t) ==
  t \in appenders =>
    /\ pc[t] \in {"locking", "held", "reduced"} /\ req[t].type = "append"
    /\ Holds(t) /\ stage[t] # "written" /\ rl[t].end # Infinity
       => size = rl[t].off \/ size >= rl[t].end

ThreadOK(t) == RequestOK(t) /\ GrantOK(t) /\ StageOK(t) /\ AppendOK(t)
FileInv == FileOK /\ \A t \in Threads : ThreadOK(t)

LEMMA Bounds ==
  /\ Infinity \in Nat /\ MaxOffset \in Nat /\ MaxOffset + MaxOffset < Infinity
  /\ SPA_MAXBLOCKSIZE \in Nat /\ IsP2(SPA_MAXBLOCKSIZE)
  /\ \A m \in RecordSizes : m \in Nat /\ m <= SPA_MAXBLOCKSIZE /\ IsP2(m)
  /\ \A t \in Threads : Limit[t] \in Nat /\ Limit[t] <= MaxOffset
BY InfinityAssumption, OffsetAssumption, LimitAssumption, BlkszAssumption, MaxBlockAssumption
   DEF RecordSizes

\* what a thread and the file are made of
LEMMA FileFields ==
  ASSUME IInv, NEW t \in Threads
  PROVE  /\ size \in Nat /\ blksz \in Nat
         /\ req[t].off \in Nat /\ req[t].len \in Nat /\ rl[t].off \in Nat /\ rl[t].end \in Nat
         /\ pc[t] # "idle" => req[t].len > 0
         /\ Holds(t) => pc[t] # "idle" /\ rl[t].off < rl[t].end
<1>1. ThreadInv
  BY DEF IInv
<1>2. req[t] \in [off : Nat, len : Nat, type : Types] /\ rl[t] \in [off : Nat, end : Nat]
  BY <1>1 DEF ThreadInv, Ranges
<1> QED
  BY <1>1, <1>2 DEF ThreadInv, Holds

\* what zfs_grow_blocksize() is asked for
LEMMA NewIs ==
  ASSUME NEW e \in Nat, NEW m \in RecordSizes, NEW k \in RecordSizes, blksz \in Nat,
         NEW s, s = NewBlksz(e, m, k)
  PROVE  /\ s \in Nat /\ s <= SPA_MAXBLOCKSIZE
         /\ m = k => s = e \/ (IsP2(s) /\ (blksz <= SPA_MAXBLOCKSIZE => blksz <= s))
<1>1. PICK n : n = IF blksz > m THEN SPA_MAXBLOCKSIZE ELSE k
  OBVIOUS
<1>2. n \in Nat /\ IsP2(n) /\ n <= SPA_MAXBLOCKSIZE
  BY <1>1, Bounds
<1>3. m = k /\ blksz <= SPA_MAXBLOCKSIZE => blksz <= n
  BY <1>1, Bounds
<1>4. s = IF e < n THEN e ELSE n
  BY <1>1, Zenon DEF NewBlksz, MIN
<1>5. CASE e < n
  BY ONLY <1>2, <1>4, <1>5, e \in Nat, Bounds
<1>6. CASE ~(e < n)
  <2>1. s = n
    BY ONLY <1>4, <1>6, Zenon
  <2> QED
    BY ONLY <1>2, <1>3, <2>1, Zenon
<1> QED
  BY <1>5, <1>6

LEMMA GrownIs ==
  ASSUME NEW s \in Nat, size \in Nat, blksz \in Nat, blksz > 0, blksz' \in Grown(s)
  PROVE  \/ blksz' = blksz /\ (s <= blksz \/ size > blksz \/ multi)
         \/ blksz' = s /\ ~(s <= blksz) /\ size <= blksz
<1>1. CASE s <= blksz \/ (blksz # 0 /\ size > blksz)
  BY <1>1 DEF Grown
<1>2. CASE ~(s <= blksz \/ (blksz # 0 /\ size > blksz))
  <2>1. blksz' = s \/ (blksz' = blksz /\ multi)
    BY <1>2 DEF Grown
  <2>2. CASE blksz' = blksz /\ multi
    BY <2>2
  <2>3. CASE blksz' = s
    BY <1>2, <2>3
  <2> QED
    BY <2>1, <2>2, <2>3
<1> QED
  BY <1>1, <1>2

\* With one value of the record size, zfs_grow_blocksize() makes room for the end of
\* the file, or the blocks have a power of two, or there are others before.
LEMMA GrowFits ==
  ASSUME NEW e \in Nat, size \in Nat, blksz \in Nat, blksz > 0, blksz <= SPA_MAXBLOCKSIZE,
         size > blksz => multi, NEW m \in RecordSizes,
         blksz' \in Grown(NewBlksz(e, m, m)), multi' = (multi /\ blksz' = blksz)
  PROVE  e <= blksz' \/ IsP2(blksz') \/ multi'
<1>1. PICK s : s = NewBlksz(e, m, m)
  OBVIOUS
<1>2. s \in Nat /\ (s = e \/ (IsP2(s) /\ blksz <= s))
  BY <1>1, NewIs
<1>3. \/ blksz' = blksz /\ (s <= blksz \/ size > blksz \/ multi)
      \/ blksz' = s
  BY <1>1, <1>2, GrownIs
<1>4. CASE blksz' = s
  BY <1>2, <1>4
<1>5. CASE blksz' = blksz /\ s <= blksz
  <2>1. s = e \/ blksz = s
    BY <1>2, <1>5
  <2> QED
    BY <1>2, <1>5, <2>1
<1>6. CASE blksz' = blksz /\ multi
  BY <1>6
<1> QED
  BY <1>3, <1>4, <1>5, <1>6

\* Who has the whole file is alone.
LEMMA WholeFileAlone ==
  ASSUME IInv, FileInv, NEW t \in Threads, Holds(t), rl[t].end = Infinity
  PROVE  \A s \in Threads : s # t => ~Holds(s)
<1> SUFFICES ASSUME NEW s \in Threads, s # t, Holds(s) PROVE FALSE
  OBVIOUS
<1>1. GrantOK(t) /\ GrantOK(s)
  BY DEF FileInv, ThreadOK
<1>2. rl[t].off = 0 /\ req[t].type # "reader" /\ rl[s].end <= Infinity
  BY <1>1 DEF GrantOK
<1>3. Apart(rl[s], rl[t])
  BY <1>2, WriterAlone
<1> QED
  BY <1>2, <1>3, FileFields DEF Apart

\* A thread is as before if nothing of it changes.
LEMMA OtherThread ==
  ASSUME NEW s \in Threads, ThreadOK(s), size' = size, blksz' = blksz, multi' = multi,
         pc'[s] = pc[s], req'[s] = req[s], rl'[s] = rl[s], stage'[s] = stage[s],
         s \in appenders' => s \in appenders
  PROVE  ThreadOK(s)'
BY DEF ThreadOK, RequestOK, GrantOK, StageOK, AppendOK, Fits, Holds, OverLocked,
       WholeFile, WriteEnd, Woff, Resid

\* A thread without a lock does not care for the file.
LEMMA OtherWithoutLock ==
  ASSUME NEW s \in Threads, ThreadOK(s), ~Holds(s), pc'[s] = pc[s], req'[s] = req[s],
         stage'[s] = stage[s], s \in appenders' => s \in appenders
  PROVE  ThreadOK(s)'
<1>1. ~Holds(s)'
  BY DEF Holds
<1> QED
  BY <1>1 DEF ThreadOK, RequestOK, GrantOK, StageOK, AppendOK

\* The steps of the callers are steps of RangeLock.
LEMMA CallIs ==
  ASSUME IInv, NEW t \in Threads, Call(t)
  PROVE  CallerStep(t)
<1>1. CASE \E off \in 0..MaxOffset, len \in 1..MaxOffset, ty \in {"reader", "writer", "append"} :
             ZfsRangeLock(t, off, len, ty)
  <2>1. \A off \in 0..MaxOffset, len \in 1..MaxOffset :
          off \in Nat /\ len \in Nat /\ 0 < len /\ off + len <= Infinity
    BY Bounds
  <2> QED
    BY <1>1, <2>1 DEF CallerStep
<1>2. CASE ZfsRangeLock(t, 0, Infinity, "writer")
  <2>1. 0 \in Nat /\ Infinity \in Nat /\ 0 < Infinity /\ 0 + Infinity <= Infinity
    BY InfinityAssumption
  <2> QED
    BY <1>2, <2>1 DEF CallerStep
<1> QED
  BY <1>1, <1>2 DEF Call

\* The range that zfs_range_reduce() is called with.
LEMMA WriteRange ==
  ASSUME IInv, FileInv, NEW t \in Threads, pc[t] # "idle", Woff(t) < Limit[t]
  PROVE  /\ Woff(t) \in Nat /\ Resid(t) \in Nat /\ Resid(t) > 0
         /\ Woff(t) + Resid(t) <= MaxOffset
         /\ WriteEnd(t) \in Nat /\ size <= WriteEnd(t) /\ Woff(t) + Resid(t) <= WriteEnd(t)
<1>1. size \in Nat /\ req[t].off \in Nat /\ req[t].len \in Nat /\ req[t].len > 0
  BY FileFields
<1>2. Limit[t] \in Nat /\ Limit[t] <= MaxOffset /\ MaxOffset \in Nat
  BY Bounds
<1>3. Woff(t) \in Nat
  BY <1>1 DEF Woff
<1>4. Resid(t) = IF req[t].len < Limit[t] - Woff(t) THEN req[t].len ELSE Limit[t] - Woff(t)
  BY DEF Resid, MIN
<1>5. Resid(t) \in Nat /\ Resid(t) > 0 /\ Woff(t) + Resid(t) <= Limit[t]
  BY <1>1, <1>2, <1>3, <1>4
<1>6. WriteEnd(t) = IF size > Woff(t) + Resid(t) THEN size ELSE Woff(t) + Resid(t)
  BY DEF WriteEnd, MAX
<1> QED
  BY <1>1, <1>2, <1>3, <1>5, <1>6

LEMMA ReduceLockIs ==
  ASSUME IInv, FileInv, NEW t \in Threads, ReduceLock(t)
  PROVE  /\ CallerStep(t) /\ Fits(WriteEnd(t)) /\ Woff(t) < Limit[t]
         /\ Holds(t) /\ pc[t] # "idle" /\ OverLocked(t)
<1>1. Holds(t) /\ pc[t] # "idle" /\ stage[t] = "grown" /\ OverLocked(t)
  BY DEF ReduceLock, Reduce, Holds
<1>2. Fits(WriteEnd(t)) /\ Woff(t) < Limit[t]
  BY <1>1 DEF FileInv, ThreadOK, StageOK
<1>3. PICK lo, hi : lo = Woff(t) /\ hi = Woff(t) + Resid(t)
  OBVIOUS
<1>4. lo \in Nat /\ hi \in Nat /\ lo < hi /\ hi <= Infinity
  BY <1>1, <1>2, <1>3, WriteRange, Bounds
<1>5. Reduce(t, [off |-> lo, end |-> hi])
  BY <1>3 DEF ReduceLock
<1>6. CallerStep(t)
  BY <1>4, <1>5 DEF CallerStep
<1> QED
  BY <1>1, <1>2, <1>6

\* zfs_extend() or zfs_trunc()
Resize(t) == Extend(t) \/ Trunc(t)

LEMMA ResizeIs ==
  ASSUME IInv, FileInv, NEW t \in Threads, Resize(t)
  PROVE  /\ SetSize(t)
         /\ size' \in Nat /\ size' <= MaxOffset
         /\ blksz' \in Nat /\ blksz' > 0 /\ blksz' <= SPA_MAXBLOCKSIZE
         /\ multi' \in BOOLEAN /\ (size' > blksz' => multi')
         /\ blksz' # blksz => size <= blksz
<1>1. /\ size \in Nat /\ size <= MaxOffset /\ MaxOffset \in Nat
      /\ blksz \in Nat /\ blksz > 0 /\ blksz <= SPA_MAXBLOCKSIZE /\ SPA_MAXBLOCKSIZE \in Nat
      /\ multi \in BOOLEAN /\ (size > blksz => multi)
  BY FileFields, Bounds DEF FileInv, FileOK
<1>2. CASE Extend(t)
  <2>1. /\ SetSize(t) /\ size' \in Nat /\ size' <= MaxOffset
        /\ multi' = ((multi /\ blksz' = blksz) \/ size' > blksz')
    BY <1>1, <1>2 DEF Extend
  <2>2. PICK max, then, again \in RecordSizes :
          blksz' \in IF size' > blksz /\ Growable(max)
                     THEN Grown(NewBlksz(size', then, again)) ELSE {blksz}
    BY <1>2 DEF Extend
  <2>3. CASE blksz' = blksz
    BY <1>1, <2>1, <2>3
  <2>4. CASE blksz' \in Grown(NewBlksz(size', then, again))
    <3>1. PICK s : s = NewBlksz(size', then, again)
      OBVIOUS
    <3>2. s \in Nat /\ s <= SPA_MAXBLOCKSIZE
      BY <1>1, <2>1, <3>1, NewIs
    <3>3. blksz' = blksz \/ (blksz' = s /\ ~(s <= blksz) /\ size <= blksz)
      BY <1>1, <2>4, <3>1, <3>2, GrownIs
    <3>4. blksz' \in Nat /\ blksz' > 0 /\ blksz' <= SPA_MAXBLOCKSIZE /\ (blksz' # blksz => size <= blksz)
      BY <1>1, <3>2, <3>3
    <3>5. multi' \in BOOLEAN /\ (size' > blksz' => multi')
      BY <2>1, Zenon
    <3> QED
      BY ONLY <2>1, <3>4, <3>5, Zenon
  <2> QED
    BY <2>2, <2>3, <2>4
<1>3. CASE Trunc(t)
  BY <1>1, <1>3 DEF Trunc
<1> QED
  BY <1>2, <1>3 DEF Resize

\* what zfs_write() does when it has locked the whole file
LEMMA GrowIs ==
  ASSUME IInv, FileInv, NEW t \in Threads, GrowBlksz(t)
  PROVE  /\ blksz' \in Nat /\ blksz' > 0 /\ blksz' <= SPA_MAXBLOCKSIZE
         /\ multi' \in BOOLEAN /\ (size > blksz' => multi')
         /\ WriteEnd(t) \in Nat /\ size <= WriteEnd(t)
         /\ WriteEnd(t) <= blksz' \/ IsP2(blksz') \/ multi'
         /\ blksz' # blksz => size <= blksz
<1>1. /\ size \in Nat /\ blksz \in Nat /\ blksz > 0 /\ blksz <= SPA_MAXBLOCKSIZE
      /\ multi \in BOOLEAN /\ (size > blksz => multi)
  BY FileFields DEF FileInv, FileOK
<1>2. pc[t] # "idle" /\ Woff(t) < Limit[t] /\ multi' = (multi /\ blksz' = blksz)
  BY DEF GrowBlksz
<1>3. PICK copy \in RecordSizes : blksz' \in Grown(NewBlksz(WriteEnd(t), copy, copy))
  BY DEF GrowBlksz
<1>4. WriteEnd(t) \in Nat /\ size <= WriteEnd(t)
  BY <1>2, WriteRange
<1>5. PICK s : s = NewBlksz(WriteEnd(t), copy, copy)
  OBVIOUS
<1>6. s \in Nat /\ s <= SPA_MAXBLOCKSIZE
  BY <1>1, <1>4, <1>5, NewIs
<1>7. blksz' = blksz \/ (blksz' = s /\ ~(s <= blksz) /\ size <= blksz)
  BY <1>1, <1>3, <1>5, <1>6, GrownIs
<1>8. WriteEnd(t) <= blksz' \/ IsP2(blksz') \/ multi'
  BY <1>1, <1>2, <1>3, <1>4, GrowFits
<1>9. blksz' \in Nat /\ blksz' > 0 /\ blksz' <= SPA_MAXBLOCKSIZE /\ (blksz' # blksz => size <= blksz)
  BY <1>1, <1>6, <1>7
<1>10. multi' \in BOOLEAN /\ (size > blksz' => multi')
  BY <1>1, <1>2, <1>6, <1>7
<1> QED
  BY <1>4, <1>8, <1>9, <1>10

\* what a step of the callers does to the file
LEMMA FileChange ==
  ASSUME IInv, FileInv, NEW t \in Threads, GrowBlksz(t) \/ Write(t) \/ Resize(t)
  PROVE  FileChanges
<1>1. size \in Nat /\ blksz \in Nat /\ rl[t].off \in Nat /\ rl[t].end \in Nat
  BY FileFields
<1>2. CASE GrowBlksz(t)
  BY <1>1, <1>2, GrowIs DEF GrowBlksz, FileChanges, locks
<1>3. CASE Write(t)
  <2>1. PICK x \in (rl[t].off + 1)..MIN(rl[t].end, Limit[t]) : size' = MAX(size, x)
    BY <1>3 DEF Write
  <2>2. x \in Nat
    BY <1>1, <2>1, Bounds DEF MIN
  <2>3. size' \in Nat
    BY <1>1, <2>1, <2>2 DEF MAX
  <2> QED
    BY <1>1, <1>3, <2>3 DEF Write, FileChanges, locks
<1>4. CASE Resize(t)
  BY <1>4, ResizeIs DEF SetSize, FileChanges, locks
<1> QED
  BY <1>2, <1>3, <1>4

LEMMA FileNextIs ==
  ASSUME IInv, FileInv, [FileNext]_fvars
  PROVE  [Next]_vars
<1>1. CASE UNCHANGED fvars
  BY <1>1 DEF fvars, vars
<1>2. ASSUME NEW t \in Threads, Call(t) \/ Lock(t) \/ Broadcast(t) \/ Unlock(t) \/ FileStep(t)
      PROVE  Next
  <2>1. CASE Call(t)
    BY <2>1, CallIs DEF Next
  <2>2. CASE Lock(t) \/ Broadcast(t) \/ Unlock(t)
    BY <2>2 DEF Lock, Broadcast, Unlock, Next
  <2>3. CASE ReduceLock(t)
    BY <2>3, ReduceLockIs DEF Next
  <2>4. CASE GrowBlksz(t) \/ Write(t) \/ Resize(t)
    BY <2>4, FileChange DEF Next
  <2> QED
    BY <1>2, <2>1, <2>2, <2>3, <2>4 DEF FileStep, Resize
<1> QED
  BY <1>1, <1>2 DEF FileNext
-----------------------------------------------------------------------------
(* The steps of the callers *)

\* FileOK stays if the file and its block size do, and the others if they do.
LEMMA SameFile ==
  ASSUME IInv, FileInv, NEW t \in Threads, size' = size, blksz' = blksz, multi' = multi,
         stage' \in [Threads -> {"new", "grown", "written"}], appenders' \subseteq Threads,
         \A s \in Threads : s # t => /\ pc'[s] = pc[s] /\ req'[s] = req[s] /\ rl'[s] = rl[s]
                                     /\ stage'[s] = stage[s]
                                     /\ s \in appenders' => s \in appenders,
         ThreadOK(t)'
  PROVE  FileInv'
<1>1. FileOK'
  BY DEF FileInv, FileOK, Fits
<1>2. \A s \in Threads : s # t => ThreadOK(s)'
  BY OtherThread DEF FileInv
<1> QED
  BY <1>1, <1>2 DEF FileInv

LEMMA FileCall ==
  ASSUME IInv, FileInv, NEW t \in Threads, Call(t)
  PROVE  FileInv'
<1>1. PICK off, len, ty :
        /\ ZfsRangeLock(t, off, len, ty)
        /\ (off \in 0..MaxOffset /\ len \in 1..MaxOffset) \/ (off = 0 /\ len = Infinity /\ ty = "writer")
  BY DEF Call
<1>2. /\ pc[t] = "idle" /\ pc' = [pc EXCEPT ![t] = "locking"]
      /\ req' = [req EXCEPT ![t] = [off |-> off, len |-> len, type |-> ty]]
      /\ rl' = rl /\ size' = size /\ blksz' = blksz
  BY <1>1 DEF ZfsRangeLock, Goto, file
<1>3. DOMAIN pc = Threads /\ DOMAIN req = Threads
  BY DEF IInv, ThreadInv
<1>4. stage' = stage /\ multi' = multi /\ appenders' = appenders \cup {s \in {t} : req'[s].type = "append"}
  BY DEF Call
<1>5. ThreadOK(t)'
  <2>1. /\ pc'[t] = "locking" /\ req'[t].off = off /\ req'[t].len = len /\ req'[t].type = ty
        /\ ~Holds(t)' /\ ~Holds(t)
    BY <1>2, <1>3 DEF Holds
  <2>2. ThreadOK(t)
    BY DEF FileInv
  <2>3. RequestOK(t)'
    BY <1>1, <2>1 DEF RequestOK
  <2>4. GrantOK(t)' /\ StageOK(t)'
    BY <1>4, <2>1, <2>2 DEF GrantOK, StageOK, ThreadOK
  <2>5. AppendOK(t)'
    <3>1. t \notin appenders
      BY <1>2, <2>2 DEF ThreadOK, AppendOK
    <3> QED
      BY <1>4, <2>1, <3>1 DEF AppendOK
  <2> QED
    BY <2>3, <2>4, <2>5 DEF ThreadOK
<1>6. \A s \in Threads : s # t => /\ pc'[s] = pc[s] /\ req'[s] = req[s] /\ rl'[s] = rl[s]
                                  /\ stage'[s] = stage[s]
                                  /\ s \in appenders' => s \in appenders
  BY <1>2, <1>3, <1>4
<1>7. stage' \in [Threads -> {"new", "grown", "written"}] /\ appenders' \subseteq Threads
  BY <1>4 DEF FileInv, FileOK
<1> QED
  BY <1>2, <1>4, <1>5, <1>6, <1>7, SameFile

\* The range that a writer is granted.
LEMMA FileWriterLock ==
  ASSUME IInv, FileInv, NEW t \in Threads, WriterLock(t), UNCHANGED mine
  PROVE  FileInv'
<1>0. PICK max \in RecordSizes : rl' = [rl EXCEPT ![t] = WriterRange(t, max)]
  BY DEF WriterLock
<1>1. /\ pc[t] = "locking" /\ req[t].type # "reader" /\ pc' = [pc EXCEPT ![t] = "held"]
      /\ req' = req /\ size' = size /\ blksz' = blksz
      /\ stage' = stage /\ appenders' = appenders /\ multi' = multi
  BY DEF WriterLock, Runs, Goto, file, mine
<1>2. DOMAIN pc = Threads /\ DOMAIN rl = Threads
  BY DEF IInv, ThreadInv
<1>3. /\ size \in Nat /\ blksz \in Nat /\ req[t].off \in Nat /\ req[t].len \in Nat
      /\ req[t].len > 0 /\ size <= MaxOffset
  BY <1>1, FileFields DEF FileInv, FileOK
<1>4. ThreadOK(t) /\ RequestOK(t)
  BY DEF FileInv, ThreadOK
<1>5. ~Holds(t) /\ Holds(t)' /\ stage'[t] = "new" /\ rl'[t] = WriterRange(t, max) /\ pc'[t] = "held"
  BY <1>0, <1>1, <1>2, <1>4 DEF Holds, ThreadOK, StageOK
<1>6. ASSUME OverLocks(t, max) PROVE ThreadOK(t)'
  <2>1. rl'[t].off = 0 /\ rl'[t].end = Infinity
    BY <1>5, <1>6 DEF WriterRange
  <2>2. RequestOK(t)' /\ StageOK(t)'
    BY <1>1, <1>4, <1>5 DEF RequestOK, StageOK
  <2>3. GrantOK(t)'
    BY <1>1, <2>1, Bounds DEF GrantOK
  <2>4. AppendOK(t)'
    BY <1>1, <1>4, <1>5, <2>1 DEF ThreadOK, AppendOK
  <2> QED
    BY <2>2, <2>3, <2>4 DEF ThreadOK
<1>7. ASSUME ~OverLocks(t, max) PROVE ThreadOK(t)'
  <2>1. rl'[t].off = WriterOff(t) /\ rl'[t].end = WriterOff(t) + req[t].len
    BY <1>5, <1>7 DEF WriterRange, WriterEnd
  <2>2. WriterOff(t) \in Nat /\ (req[t].type = "append" => WriterOff(t) = size)
    BY <1>3 DEF WriterOff
  <2>3. Fits(rl'[t].end)
    <3>1. WriterEnd(t) = rl'[t].end /\ WriterEnd(t) \in Nat
      BY <1>3, <2>1, <2>2 DEF WriterEnd
    <3>2. EndSize(t) >= WriterEnd(t) /\ EndSize(t) \in Nat
      BY <1>3, <3>1 DEF EndSize
    <3> QED
      BY <1>3, <1>7, <3>1, <3>2 DEF OverLocks, Growable, Fits
  <2>4. CASE req[t].len = Infinity
    <3>1. req[t].off = 0 /\ req[t].type = "writer"
      BY <1>1, <1>4, <2>4, Bounds DEF RequestOK
    <3>2. rl'[t].off = 0 /\ rl'[t].end = Infinity
      BY <2>1, <2>4, <3>1, Bounds DEF WriterOff
    <3>3. RequestOK(t)' /\ StageOK(t)'
      BY <1>1, <1>4, <1>5 DEF RequestOK, StageOK
    <3>4. GrantOK(t)'
      BY <1>1, <3>2, Bounds DEF GrantOK
    <3>5. AppendOK(t)'
      BY <1>1, <1>4, <1>5, <3>2 DEF ThreadOK, AppendOK
    <3> QED
      BY <3>3, <3>4, <3>5 DEF ThreadOK
  <2>5. CASE req[t].len # Infinity
    <3>1. req[t].off <= MaxOffset /\ req[t].len <= MaxOffset
      BY <1>1, <1>4, <2>5 DEF RequestOK
    <3>2. WriterOff(t) <= MaxOffset
      BY <1>3, <3>1 DEF WriterOff
    <3>3. rl'[t].end < Infinity /\ rl'[t].end \in Nat
      BY <1>3, <2>1, <2>2, <3>1, <3>2, Bounds
    <3>4. RequestOK(t)' /\ StageOK(t)'
      BY <1>1, <1>4, <1>5 DEF RequestOK, StageOK
    <3>5. GrantOK(t)'
      <4>1. Fits(rl[t].end)'
        BY <1>1, <2>3 DEF Fits
      <4> QED
        BY <1>1, <2>5, <3>3, <4>1, Bounds DEF GrantOK
    <3>6. AppendOK(t)'
      BY <1>1, <1>4, <1>5, <2>1, <2>2 DEF ThreadOK, AppendOK
    <3> QED
      BY <3>4, <3>5, <3>6 DEF ThreadOK
  <2> QED
    BY <2>4, <2>5
<1>8. ThreadOK(t)'
  BY <1>6, <1>7
<1>9. \A s \in Threads : s # t => /\ pc'[s] = pc[s] /\ req'[s] = req[s] /\ rl'[s] = rl[s]
                                  /\ stage'[s] = stage[s]
                                  /\ s \in appenders' => s \in appenders
  BY <1>0, <1>1, <1>2
<1>10. stage' \in [Threads -> {"new", "grown", "written"}] /\ appenders' \subseteq Threads
  BY <1>1 DEF FileInv, FileOK
<1> QED
  BY <1>1, <1>8, <1>9, <1>10, SameFile

LEMMA FileReaderLock ==
  ASSUME IInv, FileInv, NEW t \in Threads, ReaderLock(t), UNCHANGED mine
  PROVE  FileInv'
<1>1. /\ pc[t] = "locking" /\ req[t].type = "reader" /\ pc' = [pc EXCEPT ![t] = "held"]
      /\ rl' = [rl EXCEPT ![t] = ReaderRange(t)] /\ req' = req /\ size' = size /\ blksz' = blksz
      /\ stage' = stage /\ appenders' = appenders /\ multi' = multi
  BY DEF ReaderLock, Runs, Goto, file, mine
<1>2. DOMAIN pc = Threads /\ DOMAIN rl = Threads
  BY DEF IInv, ThreadInv
<1>3. req[t].off \in Nat /\ req[t].len \in Nat
  BY FileFields
<1>4. ThreadOK(t) /\ RequestOK(t)
  BY DEF FileInv, ThreadOK
<1>5. ~Holds(t) /\ Holds(t)' /\ stage'[t] = "new" /\ pc'[t] = "held"
  BY <1>1, <1>2, <1>4 DEF Holds, ThreadOK, StageOK
<1>6. req[t].off <= MaxOffset /\ req[t].len <= MaxOffset
  BY <1>1, <1>4 DEF RequestOK
<1>7. rl'[t].end < Infinity /\ req'[t].len < Infinity /\ rl'[t].end \in Nat
  <2>1. rl'[t].end = req[t].off + req[t].len
    BY <1>1, <1>2 DEF ReaderRange
  <2> QED
    BY <1>1, <1>3, <1>6, <2>1, Bounds
<1>8. ThreadOK(t)'
  <2>1. RequestOK(t)' /\ StageOK(t)'
    BY <1>1, <1>4, <1>5 DEF RequestOK, StageOK
  <2>2. GrantOK(t)'
    BY <1>1, <1>3, <1>7, Bounds DEF GrantOK
  <2>3. AppendOK(t)'
    BY <1>1, <1>4 DEF ThreadOK, AppendOK
  <2> QED
    BY <2>1, <2>2, <2>3 DEF ThreadOK
<1>9. \A s \in Threads : s # t => /\ pc'[s] = pc[s] /\ req'[s] = req[s] /\ rl'[s] = rl[s]
                                  /\ stage'[s] = stage[s]
                                  /\ s \in appenders' => s \in appenders
  BY <1>1, <1>2
<1>10. stage' \in [Threads -> {"new", "grown", "written"}] /\ appenders' \subseteq Threads
  BY <1>1 DEF FileInv, FileOK
<1> QED
  BY <1>1, <1>8, <1>9, <1>10, SameFile

\* The steps that wait or wake change nothing of the file.
LEMMA FileWait ==
  ASSUME IInv, FileInv, NEW t \in Threads, WriterWait(t) \/ ReaderWait(t), UNCHANGED mine
  PROVE  FileInv'
<1>1. /\ pc' = pc /\ rl' = rl /\ size' = size /\ blksz' = blksz
      /\ stage' = stage /\ appenders' = appenders /\ multi' = multi
  BY DEF WriterWait, ReaderWait, file, mine
<1>2. \A s \in Threads : req'[s] = req[s]
  BY DEF WriterWait, ReaderWait, Reset, IInv, ThreadInv
<1>3. \A s \in Threads : ThreadOK(s)'
  BY <1>1, <1>2, OtherThread DEF FileInv
<1>4. FileOK'
  BY <1>1 DEF FileInv, FileOK, Fits
<1> QED
  BY <1>3, <1>4 DEF FileInv

LEMMA FileReduceWake ==
  ASSUME IInv, FileInv, NEW t \in Threads, ReduceWake(t), UNCHANGED mine
  PROVE  FileInv'
<1>1. /\ pc[t] = "reduced" /\ pc' = [pc EXCEPT ![t] = "held"]
      /\ req' = req /\ rl' = rl /\ size' = size /\ blksz' = blksz
      /\ stage' = stage /\ appenders' = appenders /\ multi' = multi
  BY DEF ReduceWake, Goto, file, mine
<1>2. DOMAIN pc = Threads
  BY DEF IInv, ThreadInv
<1>3. Holds(t) /\ Holds(t)' /\ pc'[t] = "held" /\ ThreadOK(t)
  BY <1>1, <1>2 DEF Holds, FileInv
<1>4. ThreadOK(t)'
  BY <1>1, <1>3 DEF ThreadOK, RequestOK, GrantOK, StageOK, AppendOK, Fits, OverLocked,
     WholeFile, WriteEnd, Woff, Resid
<1>5. \A s \in Threads : s # t => pc'[s] = pc[s]
  BY <1>1, <1>2
<1>6. stage' \in [Threads -> {"new", "grown", "written"}] /\ appenders' \subseteq Threads
  BY <1>1 DEF FileInv, FileOK
<1> QED
  BY <1>1, <1>4, <1>5, <1>6, SameFile

\* A thread that gives its lock up is as if it had never called.
LEMMA FileRelease ==
  ASSUME IInv, FileInv, NEW t \in Threads, size' = size, blksz' = blksz, multi' = multi,
         NEW l \in {"idle", "unlocked"}, pc' = [pc EXCEPT ![t] = l],
         l = "unlocked" => req' = req,
         \A s \in Threads : s # t => req'[s] = req[s] /\ rl'[s] = rl[s],
         stage' = [stage EXCEPT ![t] = "new"], appenders' = appenders \ {t}, pc[t] # "idle"
  PROVE  FileInv'
<1>1. DOMAIN pc = Threads
  BY DEF IInv, ThreadInv
<1>2. stage \in [Threads -> {"new", "grown", "written"}] /\ appenders \subseteq Threads
  BY DEF FileInv, FileOK
<1>3. pc'[t] = l /\ ~Holds(t)' /\ stage'[t] = "new" /\ t \notin appenders'
  BY <1>1, <1>2 DEF Holds
<1>4. ThreadOK(t)'
  <2>1. RequestOK(t)'
    BY <1>3 DEF FileInv, ThreadOK, RequestOK
  <2> QED
    BY <1>3, <2>1 DEF ThreadOK, GrantOK, StageOK, AppendOK
<1>5. \A s \in Threads : s # t => /\ pc'[s] = pc[s] /\ stage'[s] = stage[s]
                                  /\ s \in appenders' => s \in appenders
  BY <1>1, <1>2
<1>6. stage' \in [Threads -> {"new", "grown", "written"}] /\ appenders' \subseteq Threads
  BY <1>2
<1> QED
  BY <1>4, <1>5, <1>6, SameFile

LEMMA FileUnlock ==
  ASSUME IInv, FileInv, NEW t \in Threads, Unlock(t)
  PROVE  FileInv'
<1>1. DOMAIN req = Threads /\ DOMAIN rl = Threads
  BY DEF IInv, ThreadInv
<1>2. stage' = [stage EXCEPT ![t] = "new"] /\ appenders' = appenders \ {t} /\ multi' = multi
  BY DEF Unlock, SetStage
<1>3. CASE UnlockReader(t)
  <2>1. /\ pc' = [pc EXCEPT ![t] = "idle"] /\ pc[t] # "idle" /\ size' = size /\ blksz' = blksz
        /\ \A s \in Threads : s # t => req'[s] = req[s] /\ rl'[s] = rl[s]
    BY <1>1, <1>3 DEF UnlockReader, Free, Goto, file
  <2> QED
    BY <1>2, <2>1, FileRelease
<1>4. CASE UnlockWriter(t)
  <2>1. /\ pc' = [pc EXCEPT ![t] = "unlocked"] /\ pc[t] # "idle" /\ size' = size /\ blksz' = blksz
        /\ req' = req /\ rl' = rl
    BY <1>4 DEF UnlockWriter, Goto, file
  <2> QED
    BY <1>2, <2>1, FileRelease
<1> QED
  BY <1>3, <1>4 DEF Unlock, UnlockStep

LEMMA FileUnlockWake ==
  ASSUME IInv, FileInv, NEW t \in Threads, UnlockWake(t), UNCHANGED mine
  PROVE  FileInv'
<1>1. DOMAIN req = Threads /\ DOMAIN rl = Threads
  BY DEF IInv, ThreadInv
<1>2. /\ pc[t] = "unlocked" /\ pc' = [pc EXCEPT ![t] = "idle"] /\ size' = size /\ blksz' = blksz
      /\ \A s \in Threads : s # t => req'[s] = req[s] /\ rl'[s] = rl[s]
      /\ stage' = stage /\ appenders' = appenders /\ multi' = multi
  BY <1>1 DEF UnlockWake, Free, Goto, file, mine
<1>3. ThreadOK(t) /\ stage \in [Threads -> {"new", "grown", "written"}]
  BY DEF FileInv, FileOK
<1>4. t \notin appenders /\ stage[t] = "new"
  BY <1>2, <1>3 DEF ThreadOK, AppendOK, StageOK, Holds
<1>5. stage' = [stage EXCEPT ![t] = "new"] /\ appenders' = appenders \ {t}
  BY <1>2, <1>3, <1>4
<1> QED
  BY <1>2, <1>5, FileRelease

\* The block size changes under a lock on the whole file only.
LEMMA FileAlone ==
  ASSUME IInv, FileInv, NEW t \in Threads, Holds(t), rl[t].end = Infinity,
         UNCHANGED <<pc, req, rl, appenders>>,
         NEW l \in {"new", "grown", "written"}, stage' = [stage EXCEPT ![t] = l],
         size' <= MaxOffset, blksz' > 0, blksz' <= SPA_MAXBLOCKSIZE,
         multi' \in BOOLEAN, size' > blksz' => multi', StageOK(t)'
  PROVE  FileInv'
<1>1. stage \in [Threads -> {"new", "grown", "written"}] /\ appenders \subseteq Threads
  BY DEF FileInv, FileOK
<1>2. FileOK'
  BY <1>1 DEF FileOK
<1>3. \A s \in Threads : s # t => ThreadOK(s)'
  <2> SUFFICES ASSUME NEW s \in Threads, s # t PROVE ThreadOK(s)'
    OBVIOUS
  <2>1. ~Holds(s) /\ ThreadOK(s)
    BY WholeFileAlone DEF FileInv
  <2>2. stage'[s] = stage[s]
    BY <1>1
  <2> QED
    BY <2>1, <2>2, OtherWithoutLock
<1>4. ThreadOK(t)'
  <2>1. ThreadOK(t)
    BY DEF FileInv
  <2>2. RequestOK(t)' /\ GrantOK(t)' /\ AppendOK(t)'
    BY <2>1 DEF ThreadOK, RequestOK, GrantOK, AppendOK, Holds
  <2> QED
    BY <2>2 DEF ThreadOK
<1> QED
  BY <1>2, <1>3, <1>4 DEF FileInv

LEMMA FileGrowBlksz ==
  ASSUME IInv, FileInv, NEW t \in Threads, GrowBlksz(t)
  PROVE  FileInv'
<1>1. /\ Holds(t) /\ pc[t] # "idle" /\ rl[t].end = Infinity /\ Woff(t) < Limit[t]
      /\ stage' = [stage EXCEPT ![t] = "grown"]
      /\ UNCHANGED <<pc, req, rl, appenders>> /\ size' = size
  BY DEF GrowBlksz, Holds, OverLocked, SetStage, locks
<1>2. size <= MaxOffset
  BY DEF FileInv, FileOK
<1>3. /\ blksz' > 0 /\ blksz' <= SPA_MAXBLOCKSIZE /\ multi' \in BOOLEAN /\ (size > blksz' => multi')
      /\ WriteEnd(t) <= blksz' \/ IsP2(blksz') \/ multi'
  BY GrowIs
<1>4. StageOK(t)'
  <2>1. WriteEnd(t)' = WriteEnd(t) /\ Woff(t)' = Woff(t) /\ Holds(t)'
    BY <1>1 DEF WriteEnd, Woff, Resid, Holds
  <2>2. Fits(WriteEnd(t))'
    BY <1>3, <2>1 DEF Fits
  <2> QED
    BY <1>1, <2>1, <2>2 DEF StageOK
<1> QED
  BY <1>1, <1>2, <1>3, <1>4, FileAlone

LEMMA FileResize ==
  ASSUME IInv, FileInv, NEW t \in Threads, Resize(t)
  PROVE  FileInv'
<1>1. /\ Holds(t) /\ req[t].len = Infinity /\ stage' = [stage EXCEPT ![t] = "written"]
      /\ UNCHANGED <<pc, req, rl, appenders>>
  BY ResizeIs DEF SetSize, Holds, WholeFile, SetStage, locks
<1>2. rl[t].end = Infinity
  BY <1>1 DEF FileInv, ThreadOK, GrantOK
<1>3. /\ size' <= MaxOffset /\ blksz' > 0 /\ blksz' <= SPA_MAXBLOCKSIZE
      /\ multi' \in BOOLEAN /\ (size' > blksz' => multi')
  BY ResizeIs
<1>4. StageOK(t)'
  BY <1>1 DEF StageOK, OverLocked, WholeFile, Holds
<1> QED
  BY <1>1, <1>2, <1>3, <1>4, FileAlone

LEMMA FileReduceLock ==
  ASSUME IInv, FileInv, NEW t \in Threads, ReduceLock(t)
  PROVE  FileInv'
<1>1. /\ Fits(WriteEnd(t)) /\ Woff(t) < Limit[t] /\ Holds(t) /\ pc[t] # "idle"
      /\ rl[t].end = Infinity /\ req[t].len # Infinity
  BY ReduceLockIs DEF OverLocked, WholeFile
<1>2. /\ pc' = [pc EXCEPT ![t] = "reduced"]
      /\ rl' = [rl EXCEPT ![t] = [off |-> Woff(t), end |-> Woff(t) + Resid(t)]]
      /\ req' = req /\ size' = size /\ blksz' = blksz
      /\ stage' = stage /\ appenders' = appenders /\ multi' = multi
  BY DEF ReduceLock, Reduce, Goto, file, mine
<1>3. DOMAIN pc = Threads /\ DOMAIN rl = Threads /\ ThreadOK(t)
  BY DEF IInv, ThreadInv, FileInv
<1>4. /\ Woff(t) \in Nat /\ Resid(t) \in Nat /\ Woff(t) + Resid(t) <= MaxOffset
      /\ WriteEnd(t) \in Nat /\ Woff(t) + Resid(t) <= WriteEnd(t)
  BY <1>1, WriteRange
<1>5. /\ Holds(t)' /\ pc'[t] = "reduced" /\ rl'[t].off = Woff(t)
      /\ rl'[t].end = Woff(t) + Resid(t) /\ rl'[t].end \in Nat /\ rl'[t].end < Infinity
  BY <1>2, <1>3, <1>4, Bounds DEF Holds
<1>6. Fits(rl[t].end)'
  <2>1. blksz \in Nat
    BY FileFields
  <2>2. rl'[t].end <= blksz \/ IsP2(blksz) \/ multi
    BY <1>1, <1>4, <1>5, <2>1 DEF Fits
  <2> QED
    BY <1>2, <2>2 DEF Fits
<1>7. ThreadOK(t)'
  <2>1. RequestOK(t)'
    BY <1>1, <1>2, <1>3 DEF ThreadOK, RequestOK
  <2>2. GrantOK(t)'
    BY <1>1, <1>2, <1>5, <1>6, Bounds DEF GrantOK
  <2>3. StageOK(t)'
    BY <1>5, Bounds DEF StageOK, OverLocked
  <2>4. AppendOK(t)'
    BY <1>2, <1>3, <1>5 DEF ThreadOK, AppendOK, Woff
  <2> QED
    BY <2>1, <2>2, <2>3, <2>4 DEF ThreadOK
<1>8. \A s \in Threads : s # t => pc'[s] = pc[s] /\ rl'[s] = rl[s]
  BY <1>2, <1>3
<1>9. stage' \in [Threads -> {"new", "grown", "written"}] /\ appenders' \subseteq Threads
  BY <1>2 DEF FileInv, FileOK
<1> QED
  BY <1>2, <1>7, <1>8, <1>9, SameFile

\* A write moves the end of the file inside the blocks there are, and not into
\* the range of another append.
LEMMA FileWrite ==
  ASSUME IInv, FileInv, NEW t \in Threads, Write(t)
  PROVE  FileInv'
<1>1. /\ Holds(t) /\ req[t].type # "reader" /\ rl[t].end # Infinity
      /\ UNCHANGED <<pc, req, rl, appenders>> /\ blksz' = blksz
      /\ stage' = [stage EXCEPT ![t] = "written"] /\ multi' = (multi \/ size' > blksz)
  BY DEF Write, Holds, SetStage, locks
<1>2. PICK x \in (rl[t].off + 1)..MIN(rl[t].end, Limit[t]) : size' = MAX(size, x)
  BY DEF Write
<1>3. /\ size \in Nat /\ blksz \in Nat /\ rl[t].off \in Nat /\ rl[t].end \in Nat
      /\ size <= MaxOffset /\ blksz > 0 /\ blksz <= SPA_MAXBLOCKSIZE /\ multi \in BOOLEAN
      /\ stage \in [Threads -> {"new", "grown", "written"}] /\ appenders \subseteq Threads
  BY FileFields DEF FileInv, FileOK
<1>4. x \in Nat /\ rl[t].off < x /\ x <= rl[t].end /\ x <= MaxOffset
  BY <1>2, <1>3, Bounds DEF MIN
<1>5. size' = IF size > x THEN size ELSE x
  BY <1>2 DEF MAX
<1>6. ThreadOK(t) /\ (multi => multi')
  BY <1>1 DEF FileInv
<1>7. FileOK'
  <2>1. size' <= MaxOffset
    BY <1>3, <1>4, <1>5
  <2>2. multi' \in BOOLEAN /\ (size' > blksz' => multi')
    BY <1>1, <1>3
  <2> QED
    BY <1>1, <1>3, <2>1, <2>2 DEF FileOK
<1>8. ThreadOK(t)'
  <2>1. Holds(t)' /\ stage'[t] = "written"
    BY <1>1, <1>3 DEF Holds
  <2>2. RequestOK(t)' /\ GrantOK(t)'
    BY <1>1, <1>6 DEF ThreadOK, RequestOK, GrantOK, Holds, Fits
  <2>3. StageOK(t)' /\ AppendOK(t)'
    BY <1>1, <1>6, <2>1 DEF ThreadOK, StageOK, AppendOK
  <2> QED
    BY <2>2, <2>3 DEF ThreadOK
<1>9. ASSUME NEW s \in Threads, s # t PROVE ThreadOK(s)'
  <2>1. ThreadOK(s) /\ stage'[s] = stage[s]
    BY <1>1, <1>3, <1>9 DEF FileInv
  <2>2. CASE ~Holds(s)
    BY <1>1, <2>1, <2>2, OtherWithoutLock
  <2>3. CASE Holds(s)
    <3>1. rl[s].end # Infinity
      BY <1>1, <1>9, <2>3, WholeFileAlone
    <3>2. RequestOK(s)' /\ GrantOK(s)'
      BY <1>1, <1>6, <2>1 DEF ThreadOK, RequestOK, GrantOK, Holds, Fits
    <3>3. StageOK(s)'
      BY <1>1, <2>1, <2>3, <3>1 DEF StageOK, OverLocked, Holds
    <3>4. Apart(rl[s], rl[t])
      BY <1>1, <1>9, <2>3, WriterAlone
    <3>5. size = rl[s].off \/ size >= rl[s].end => size' = rl[s].off \/ size' >= rl[s].end
      <4>1. rl[s].off \in Nat /\ rl[s].end \in Nat /\ rl[s].off < rl[s].end
        BY <2>3, FileFields
      <4> QED
        BY <1>3, <1>4, <1>5, <3>4, <4>1 DEF Apart
    <3>6. AppendOK(s)'
      BY <1>1, <2>1, <3>5 DEF ThreadOK, AppendOK, Holds
    <3> QED
      BY <3>2, <3>3, <3>6 DEF ThreadOK
  <2> QED
    BY <2>2, <2>3
<1> QED
  BY <1>7, <1>8, <1>9 DEF FileInv

LEMMA InitFileInv ==
  ASSUME FileInit
  PROVE  FileInv
<1>1. FileOK
  BY Bounds DEF FileInit, FileOK, Fits
<1>2. \A t \in Threads : ThreadOK(t)
  BY DEF FileInit, Init, ThreadOK, RequestOK, GrantOK, StageOK, AppendOK, Holds
<1> QED
  BY <1>1, <1>2 DEF FileInv

LEMMA NextFileInv ==
  ASSUME IInv, FileInv, [FileNext]_fvars
  PROVE  FileInv'
<1>1. CASE UNCHANGED fvars
  <2>1. UNCHANGED <<pc, req, rl, size, blksz, stage, appenders, multi>>
    BY <1>1 DEF fvars, vars, mine
  <2>2. FileOK'
    BY <2>1 DEF FileInv, FileOK, Fits
  <2>3. \A s \in Threads : ThreadOK(s)'
    BY <2>1, OtherThread DEF FileInv
  <2> QED
    BY <2>2, <2>3 DEF FileInv
<1>2. ASSUME NEW t \in Threads, Lock(t)
      PROVE  FileInv'
  BY <1>2, FileWait, FileWriterLock, FileReaderLock DEF Lock, LockStep
<1>3. ASSUME NEW t \in Threads, Broadcast(t)
      PROVE  FileInv'
  BY <1>3, FileUnlockWake, FileReduceWake DEF Broadcast, WakeStep
<1>4. ASSUME NEW t \in Threads, FileStep(t)
      PROVE  FileInv'
  BY <1>4, FileGrowBlksz, FileReduceLock, FileWrite, FileResize DEF FileStep, Resize
<1> QED
  BY <1>1, <1>2, <1>3, <1>4, FileCall, FileUnlock DEF FileNext

\* The inductive invariant of the range locks together with their callers.
THEOREM FileInvariant == FileSpec => [](IInv /\ FileInv)
<1>1. FileInit => IInv /\ FileInv
  BY InitIInv, InitFileInv DEF FileInit
<1>2. IInv /\ FileInv /\ [FileNext]_fvars => IInv' /\ FileInv'
  BY FileNextIs, NextIInv, NextFileInv
<1> QED
  BY <1>1, <1>2, PTL DEF FileSpec

\* zfs_write(), zfs_extend() and zfs_trunc() use the range locks as RangeLock
\* lets them: what is proved of it holds for the file too.
THEOREM FileImplementsRangeLock == FileSpec => Spec
<1>1. FileInit => Init
  BY DEF FileInit
<1>2. IInv /\ FileInv /\ [FileNext]_fvars => [Next]_vars
  BY FileNextIs
<1> QED
  BY <1>1, <1>2, FileInvariant, PTL DEF FileSpec, Spec

\* An append that zfs_range_lock() has let in is at the end of the file when it
\* begins to write, or the file went on from behind its range.
THEOREM AppendCorrect == FileSpec => []AppendsAtEnd
<1>1. IInv /\ FileInv => AppendsAtEnd
  <2> SUFFICES ASSUME IInv, FileInv, NEW t \in appenders, Holds(t), stage[t] # "written",
                      ~OverLocked(t)
               PROVE  size = rl[t].off \/ size >= rl[t].end
    BY DEF AppendsAtEnd
  <2>1. t \in Threads /\ ThreadOK(t)
    BY DEF FileInv, FileOK
  <2>2. req[t].type = "append" /\ pc[t] # "idle"
    BY <2>1 DEF ThreadOK, AppendOK
  <2>3. req[t].len # Infinity
    BY <2>1, <2>2, Bounds DEF ThreadOK, RequestOK
  <2>4. rl[t].end # Infinity
    BY <2>3 DEF OverLocked, WholeFile
  <2> QED
    BY <2>1, <2>4 DEF ThreadOK, AppendOK
<1> QED
  BY <1>1, FileInvariant, PTL

\* What a step of zfs_write() does to the end of the file.
LEMMA WriteIs ==
  ASSUME IInv, FileInv, NEW t \in Threads, Write(t)
  PROVE  blksz' = blksz /\ ~(size' < size) /\ (~multi /\ multi' => IsP2(blksz))
<1>1. /\ size \in Nat /\ blksz \in Nat /\ rl[t].off \in Nat /\ rl[t].end \in Nat
      /\ (size > blksz => multi)
  BY FileFields DEF FileInv, FileOK
<1>2. PICK x \in (rl[t].off + 1)..MIN(rl[t].end, Limit[t]) : size' = MAX(size, x)
  BY DEF Write
<1>3. x \in Nat /\ x <= rl[t].end
  BY <1>1, <1>2, Bounds DEF MIN
<1>4. size' = IF size > x THEN size ELSE x
  BY <1>2 DEF MAX
<1>5. blksz' = blksz /\ multi' = (multi \/ size' > blksz)
  BY DEF Write
<1>6. Fits(rl[t].end)
  BY DEF Write, Holds, FileInv, ThreadOK, GrantOK
<1>7. ASSUME ~multi, multi' PROVE IsP2(blksz)
  <2>0. size' > blksz /\ ~(size > blksz)
    BY ONLY <1>1, <1>5, <1>7, Zenon
  <2>1. size' > blksz /\ size <= blksz
    BY <1>1, <2>0
  <2>2. ~(rl[t].end <= blksz)
    BY <1>1, <1>3, <1>4, <2>1
  <2> QED
    BY <1>6, <1>7, <2>2 DEF Fits
<1> QED
  BY <1>1, <1>3, <1>4, <1>5, <1>7

\* zfs_grow_blocksize() and zfs_trunc() never run while another thread has a lock
\* on any part of the file, although the writers of a file with several blocks
\* run in parallel; and a write never leaves a file with several blocks that are
\* not a power of two, whatever the record size was in the meantime.
THEOREM BlocksCorrect == FileSpec => BlocksConsistent
<1>1. ASSUME IInv, FileInv, [FileNext]_fvars PROVE [ChangedAlone /\ SecondBlock]_fvars
  <2>0. size \in Nat /\ blksz \in Nat
    BY <1>1 DEF IInv, ThreadInv
  <2>1. CASE UNCHANGED fvars
    BY <2>1
  <2>2. CASE size' = size /\ blksz' = blksz /\ multi' = multi
    BY <2>0, <2>2 DEF ChangedAlone, SecondBlock
  <2>3. ASSUME NEW t \in Threads, Holds(t), rl[t].end = Infinity, blksz' # blksz => size <= blksz
        PROVE  ChangedAlone
    <3>1. rl[t].off = 0
      BY <1>1, <2>3 DEF FileInv, ThreadOK, GrantOK
    <3>2. rl[t] = [off |-> 0, end |-> Infinity]
      BY <1>1, <2>3, <3>1 DEF IInv, ThreadInv, Ranges
    <3>3. \A s \in Threads \ {t} : ~Holds(s)
      BY <1>1, <2>3, WholeFileAlone
    <3> QED
      BY <2>3, <3>2, <3>3 DEF ChangedAlone
  <2>4. ASSUME NEW t \in Threads, GrowBlksz(t) PROVE ChangedAlone /\ SecondBlock
    <3>1. Holds(t) /\ rl[t].end = Infinity /\ (multi' => multi)
      BY <2>4 DEF GrowBlksz, OverLocked, Holds
    <3>2. blksz' # blksz => size <= blksz
      BY <1>1, <2>4, GrowIs
    <3> QED
      BY <2>3, <3>1, <3>2 DEF SecondBlock
  <2>5. ASSUME NEW t \in Threads, Resize(t) PROVE ChangedAlone /\ SecondBlock
    <3>1. Holds(t) /\ WholeFile(t) /\ rl[t].end = Infinity
      BY <1>1, <2>5, ResizeIs DEF SetSize, WholeFile, Holds, FileInv, ThreadOK, GrantOK
    <3>2. blksz' # blksz => size <= blksz
      BY <1>1, <2>5, ResizeIs
    <3> QED
      BY <2>3, <3>1, <3>2 DEF SecondBlock
  <2>6. ASSUME NEW t \in Threads, Write(t) PROVE ChangedAlone /\ SecondBlock
    BY <1>1, <2>6, WriteIs DEF ChangedAlone, SecondBlock
  <2>7. ASSUME NEW t \in Threads, Call(t) \/ Lock(t) \/ Broadcast(t) \/ Unlock(t) \/ ReduceLock(t)
        PROVE  size' = size /\ blksz' = blksz /\ multi' = multi
    <3>1. CASE Call(t)
      BY <3>1 DEF Call, ZfsRangeLock, file
    <3>2. CASE Lock(t)
      BY <3>2 DEF Lock, LockStep, WriterWait, WriterLock, ReaderWait, ReaderLock, file, mine
    <3>3. CASE Broadcast(t) \/ Unlock(t)
      BY <3>3 DEF Broadcast, WakeStep, UnlockWake, ReduceWake, Unlock, UnlockStep, UnlockReader,
         UnlockWriter, file, mine
    <3>4. CASE ReduceLock(t)
      BY <3>4 DEF ReduceLock, Reduce, file, mine
    <3> QED
      BY <2>7, <3>1, <3>2, <3>3, <3>4
  <2> QED
    BY <1>1, <2>1, <2>2, <2>4, <2>5, <2>6, <2>7 DEF FileNext, FileStep, Resize
<1>2. IInv /\ FileInv /\ [FileNext]_fvars => [ChangedAlone /\ SecondBlock]_fvars
  BY <1>1
<1> QED
  BY <1>2, FileInvariant, PTL DEF FileSpec, BlocksConsistent
=============================================================================

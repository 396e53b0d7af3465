---------------------------- MODULE RrwlockProofs ----------------------------
(***************************************************************************)
(* Proofs about Rrwlock for every set of threads and every depth of        *)
(* nesting.  The argument: a thread's holds are its anonymous ones, taken  *)
(* first, and then its linked ones, of which it has one node each.  So the *)
(* hold it gives back first is the one rrn_find_and_remove() picks, both   *)
(* counts stay exact, and a count of 0 says that nobody holds.             *)
(***************************************************************************)
EXTENDS Rrwlock, FiniteSetTheorems, TLAPS

\* The anonymous holds of a thread are below its linked ones.
HoldsInv ==
  /\ \A t \in Threads : nodes[t] <= depth[t]
  /\ \A t \in Threads, i \in Nat :
       /\ <<t, i>> \in anonHolds <=> 1 <= i /\ i <= depth[t] - nodes[t]
       /\ <<t, i>> \in linkedHolds <=> depth[t] - nodes[t] < i /\ i <= depth[t]
  /\ IsFiniteSet(anonHolds) /\ IsFiniteSet(linkedHolds)

\* A writer is alone, and linked holds are only taken while a writer waits.
ModeInv ==
  /\ writer # None => anon = 0 /\ linked = 0
  /\ ~wanted => linked = 0

CoreInv == TypeOK /\ HoldsInv /\ RcountsExact /\ ModeInv

IInv == CoreInv /\ WantedIsReal /\ SleepersMustWait

-----------------------------------------------------------------------------
\* A count is 0 exactly if no thread has a hold on it.
LEMMA ZeroCounts ==
  ASSUME CoreInv
  PROVE  /\ anon = 0 <=> \A t \in Threads : depth[t] = nodes[t]
         /\ linked = 0 <=> \A t \in Threads : nodes[t] = 0
         /\ anon \in Nat /\ linked \in Nat
  <1> USE DEF CoreInv
  <1>1. anon = 0 <=> anonHolds = {}
    BY FS_EmptySet DEF RcountsExact, HoldsInv
  <1>2. linked = 0 <=> linkedHolds = {}
    BY FS_EmptySet DEF RcountsExact, HoldsInv
  <1>3. ASSUME NEW t \in Threads
        PROVE  /\ depth[t] # nodes[t] => <<t, 1>> \in anonHolds
               /\ nodes[t] # 0 => <<t, depth[t]>> \in linkedHolds
               /\ nodes[t] = 0 => \A i \in Nat : <<t, i>> \notin linkedHolds
               /\ depth[t] = nodes[t] => \A i \in Nat : <<t, i>> \notin anonHolds
    BY DEF HoldsInv, TypeOK
  <1>4. anonHolds \subseteq Threads \X Nat /\ linkedHolds \subseteq Threads \X Nat
    BY DEF TypeOK
  <1>5. anonHolds = {} <=> \A t \in Threads : depth[t] = nodes[t]
    <2>1. ASSUME \A t \in Threads : depth[t] = nodes[t], NEW h \in anonHolds
          PROVE  FALSE
      <3>1. PICK t \in Threads, i \in Nat : h = <<t, i>>
        BY <1>4
      <3> QED
        BY <1>3, <2>1, <3>1
    <2>2. ASSUME anonHolds = {}, NEW t \in Threads
          PROVE  depth[t] = nodes[t]
      BY <1>3, <2>2
    <2> QED
      BY <2>1, <2>2
  <1>6. linkedHolds = {} <=> \A t \in Threads : nodes[t] = 0
    <2>1. ASSUME \A t \in Threads : nodes[t] = 0, NEW h \in linkedHolds
          PROVE  FALSE
      <3>1. PICK t \in Threads, i \in Nat : h = <<t, i>>
        BY <1>4
      <3> QED
        BY <1>3, <2>1, <3>1
    <2>2. ASSUME linkedHolds = {}, NEW t \in Threads
          PROVE  nodes[t] = 0
      BY <1>3, <2>2
    <2> QED
      BY <2>1, <2>2
  <1> QED
    BY <1>1, <1>2, <1>5, <1>6 DEF TypeOK

\* The writer and the readers exclude each other.
LEMMA CoreExcludes == CoreInv => Exclusion
  <1> SUFFICES ASSUME CoreInv PROVE Exclusion
    OBVIOUS
  <1>1. \A t \in Threads : depth[t] \in Nat /\ nodes[t] \in Nat /\ nodes[t] <= depth[t]
    BY DEF CoreInv, HoldsInv, TypeOK
  <1>2. RrwReadHeld <=> \E r \in Threads : depth[r] > 0
    BY <1>1, ZeroCounts DEF RrwReadHeld
  <1>3. \A t \in Threads : RrwWriteHeld(t) => ~RrwReadHeld
    BY ThreadsAssumption DEF RrwReadHeld, RrwWriteHeld, CoreInv, ModeInv
  <1> QED
    BY <1>1, <1>2, <1>3 DEF Exclusion

\* A thread that reads passes the loop of rrw_enter_read().
LEMMA CorePasses == CoreInv => ReentrantReadPasses
  <1> SUFFICES ASSUME CoreInv, NEW t \in Threads, depth[t] > 0
               PROVE  ~ReadMustWait(t)
    BY DEF ReentrantReadPasses
  <1>1. depth[t] \in Nat /\ nodes[t] \in Nat
    BY DEF CoreInv, TypeOK
  <1>2. writer = None
    BY <1>1, ZeroCounts DEF CoreInv, ModeInv
  <1>3. anon = 0 => HasNode(t)
    BY <1>1, ZeroCounts DEF HasNode
  <1> QED
    BY <1>2, <1>3 DEF ReadMustWait

-----------------------------------------------------------------------------
\* rrw_enter_read() without a waiting writer keeps the counts exact.
LEMMA AnonymousStep ==
  ASSUME CoreInv, NEW t \in Threads, ReadAnonymous(t)
  PROVE  CoreInv'
  <1> USE DEF ReadAnonymous, Goto
  <1> DEFINE h == <<t, depth[t] + 1>>
  <1>1. depth \in [Threads -> Nat] /\ nodes \in [Threads -> Nat] /\ nodes[t] = 0
    BY ZeroCounts DEF CoreInv, TypeOK, ModeInv
  <1>2. TypeOK'
    BY <1>1 DEF CoreInv, TypeOK, Labels
  <1>3. h \notin anonHolds
    BY <1>1 DEF CoreInv, HoldsInv
  <1>4. IsFiniteSet(anonHolds') /\ Cardinality(anonHolds') = Cardinality(anonHolds) + 1
    BY <1>3, FS_AddElement DEF CoreInv, HoldsInv
  <1>5. HoldsInv'
    <2>1. \A u \in Threads : nodes'[u] <= depth'[u]
      BY <1>1 DEF CoreInv, HoldsInv
    <2>2. ASSUME NEW u \in Threads, NEW i \in Nat
          PROVE  <<u, i>> \in anonHolds' <=> 1 <= i /\ i <= depth'[u] - nodes'[u]
      BY <1>1 DEF CoreInv, HoldsInv
    <2>3. ASSUME NEW u \in Threads, NEW i \in Nat
          PROVE  <<u, i>> \in linkedHolds' <=>
                   depth'[u] - nodes'[u] < i /\ i <= depth'[u]
      BY <1>1 DEF CoreInv, HoldsInv
    <2> QED
      BY <1>4, <2>1, <2>2, <2>3 DEF CoreInv, HoldsInv
  <1>6. RcountsExact'
    BY <1>4 DEF CoreInv, RcountsExact
  <1>7. ModeInv'
    BY DEF CoreInv, ModeInv, ReadMustWait
  <1> QED
    BY <1>2, <1>5, <1>6, <1>7 DEF CoreInv

\* rrw_enter_read() with a waiting writer keeps the counts exact.
LEMMA LinkedStep ==
  ASSUME CoreInv, NEW t \in Threads, ReadLinked(t)
  PROVE  CoreInv'
  <1> USE DEF ReadLinked, Goto
  <1> DEFINE h == <<t, depth[t] + 1>>
  <1>1. depth \in [Threads -> Nat] /\ nodes \in [Threads -> Nat]
    BY DEF CoreInv, TypeOK
  <1>2. TypeOK'
    BY <1>1 DEF CoreInv, TypeOK, Labels
  <1>3. h \notin linkedHolds
    BY <1>1 DEF CoreInv, HoldsInv
  <1>4. IsFiniteSet(linkedHolds')
        /\ Cardinality(linkedHolds') = Cardinality(linkedHolds) + 1
    BY <1>3, FS_AddElement DEF CoreInv, HoldsInv
  <1>5. HoldsInv'
    <2>1. \A u \in Threads : nodes'[u] <= depth'[u]
      BY <1>1 DEF CoreInv, HoldsInv
    <2>2. ASSUME NEW u \in Threads, NEW i \in Nat
          PROVE  <<u, i>> \in anonHolds' <=> 1 <= i /\ i <= depth'[u] - nodes'[u]
      BY <1>1 DEF CoreInv, HoldsInv
    <2>3. ASSUME NEW u \in Threads, NEW i \in Nat
          PROVE  <<u, i>> \in linkedHolds' <=>
                   depth'[u] - nodes'[u] < i /\ i <= depth'[u]
      BY <1>1 DEF CoreInv, HoldsInv
    <2> QED
      BY <1>4, <2>1, <2>2, <2>3 DEF CoreInv, HoldsInv
  <1>6. RcountsExact'
    BY <1>4 DEF CoreInv, RcountsExact
  <1>7. ModeInv'
    BY DEF CoreInv, ModeInv, ReadMustWait
  <1> QED
    BY <1>2, <1>5, <1>6, <1>7 DEF CoreInv

\* rrw_exit() by a reader gives back the hold that was taken last.
LEMMA ReadExitStep ==
  ASSUME CoreInv, NEW t \in Threads, ReadExit(t)
  PROVE  CoreInv'
  <1> DEFINE h == <<t, depth[t]>>
  <1>1. depth \in [Threads -> Nat] /\ nodes \in [Threads -> Nat]
        /\ depth[t] > 0 /\ nodes[t] <= depth[t]
    BY DEF CoreInv, TypeOK, HoldsInv, ReadExit
  <1>2. HasNode(t) <=> nodes[t] > 0
    BY <1>1, ZeroCounts DEF HasNode
  <1>3. /\ nodes[t] > 0 => h \in linkedHolds /\ h \notin anonHolds
        /\ nodes[t] = 0 => h \in anonHolds /\ h \notin linkedHolds
    BY <1>1 DEF CoreInv, HoldsInv
  <1>4. /\ IsFiniteSet(anonHolds') /\ IsFiniteSet(linkedHolds')
        /\ Cardinality(anonHolds') =
             IF h \in anonHolds THEN Cardinality(anonHolds) - 1
                                ELSE Cardinality(anonHolds)
        /\ Cardinality(linkedHolds') =
             IF h \in linkedHolds THEN Cardinality(linkedHolds) - 1
                                  ELSE Cardinality(linkedHolds)
    BY FS_RemoveElement DEF CoreInv, HoldsInv, ReadExit
  <1>5. RcountsExact'
    BY <1>1, <1>2, <1>3, <1>4 DEF CoreInv, RcountsExact, ReadExit, FindAndRemove
  <1>6. HoldsInv'
    <2>1. depth' = [depth EXCEPT ![t] = @ - 1]
          /\ nodes' = IF nodes[t] > 0 THEN [nodes EXCEPT ![t] = @ - 1] ELSE nodes
      BY <1>2 DEF ReadExit, FindAndRemove
    <2>2. \A u \in Threads : nodes'[u] <= depth'[u]
      BY <1>1, <2>1 DEF CoreInv, HoldsInv
    <2>3. anonHolds' = anonHolds \ {h} /\ linkedHolds' = linkedHolds \ {h}
      BY DEF ReadExit
    <2>4. ASSUME NEW u \in Threads, NEW i \in Nat
          PROVE  <<u, i>> \in anonHolds' <=> 1 <= i /\ i <= depth'[u] - nodes'[u]
      BY <1>1, <1>3, <2>1, <2>3 DEF CoreInv, HoldsInv
    <2>5. ASSUME NEW u \in Threads, NEW i \in Nat
          PROVE  <<u, i>> \in linkedHolds' <=>
                   depth'[u] - nodes'[u] < i /\ i <= depth'[u]
      BY <1>1, <1>3, <2>1, <2>3 DEF CoreInv, HoldsInv
    <2> QED
      BY <1>4, <2>2, <2>4, <2>5 DEF HoldsInv
  <1>7. TypeOK'
    <2>1. anon' \in Nat /\ linked' \in Nat
      BY <1>4, <1>5, FS_CardinalityType DEF RcountsExact
    <2>2. nodes' \in [Threads -> Nat] /\ depth' \in [Threads -> Nat]
      BY <1>1, <1>2 DEF ReadExit, FindAndRemove
    <2>3. asleep' \subseteq Threads
      BY DEF ReadExit, WakeAtZero, CoreInv, TypeOK
    <2> QED
      BY <2>1, <2>2, <2>3 DEF ReadExit, CoreInv, TypeOK
  <1>8. ModeInv'
    BY <1>2, ZeroCounts DEF CoreInv, ModeInv, ReadExit, FindAndRemove, HasNode
  <1> QED
    BY <1>5, <1>6, <1>7, <1>8 DEF CoreInv

\* Every other step leaves the holds alone.
LEMMA OtherStep ==
  ASSUME CoreInv, NEW t \in Threads,
         \/ RrwEnterReader(t) \/ RrwEnterWriter(t) \/ ReadWait(t)
         \/ WriteWait(t) \/ WriteAcquire(t) \/ WriteExit(t)
  PROVE  CoreInv'
  <1>1. UNCHANGED <<counts, history>>
    BY DEF RrwEnterReader, RrwEnterWriter, ReadWait, WriteWait, WriteAcquire,
           WriteExit
  <1>2. HoldsInv' /\ RcountsExact'
    BY <1>1 DEF CoreInv, HoldsInv, RcountsExact, counts, history
  <1>3. ModeInv'
    BY <1>1, ZeroCounts
    DEF CoreInv, ModeInv, counts, RrwEnterReader, RrwEnterWriter, ReadWait,
        WriteWait, WriteAcquire, WriteExit, WantedAfterEntry, Busy
  <1>4. TypeOK'
    BY <1>1
    DEF CoreInv, TypeOK, counts, history, RrwEnterReader, RrwEnterWriter,
        ReadWait, WriteWait, WriteAcquire, WriteExit, WantedAfterEntry,
        AfterWriter, Goto, Labels
  <1> QED
    BY <1>2, <1>3, <1>4 DEF CoreInv

\* Every step keeps the counts exact and the writer alone.
LEMMA CoreStep == CoreInv /\ [Next]_vars => CoreInv'
  <1> SUFFICES ASSUME CoreInv, [Next]_vars PROVE CoreInv'
    OBVIOUS
  <1>1. CASE UNCHANGED vars
    BY <1>1 DEF vars, CoreInv, TypeOK, HoldsInv, RcountsExact, ModeInv
  <1>2. CASE Next
    BY <1>2, AnonymousStep, LinkedStep, ReadExitStep, OtherStep
    DEF Next, EnterStep, ExitStep
  <1> QED
    BY <1>1, <1>2

-----------------------------------------------------------------------------
\* The flag rr_writer_wanted is set only while a writer waits.
LEMMA WantedStep == TypeOK /\ WantedIsReal /\ [Next]_vars => WantedIsReal'
  <1> SUFFICES ASSUME TypeOK, WantedIsReal, [Next]_vars, wanted'
               PROVE  \E u \in Threads : pc'[u] = "writewait"
    BY DEF WantedIsReal
  <1>1. CASE UNCHANGED vars
    BY <1>1 DEF vars, WantedIsReal
  <1>2. ASSUME NEW t \in Threads,
               \/ RrwEnterReader(t) \/ RrwEnterWriter(t) \/ ReadWait(t)
               \/ ReadAnonymous(t) \/ ReadLinked(t) \/ ReadExit(t) \/ WriteExit(t)
        PROVE  \E u \in Threads : pc'[u] = "writewait"
    BY <1>2
    DEF TypeOK, WantedIsReal, RrwEnterReader, RrwEnterWriter, ReadWait,
        ReadAnonymous, ReadLinked, ReadExit, WriteExit, Goto
  <1>3. ASSUME NEW t \in Threads, WriteWait(t) \/ WriteAcquire(t)
        PROVE  \E u \in Threads : pc'[u] = "writewait"
    BY <1>3 DEF TypeOK, WriteWait, WriteAcquire, WantedAfterEntry, Goto
  <1> QED
    BY <1>1, <1>2, <1>3 DEF Next, EnterStep, ExitStep

\* Every step that lets a sleeper go on wakes it.
LEMMA SleepStep == CoreInv /\ SleepersMustWait /\ [Next]_vars => SleepersMustWait'
  <1> SUFFICES ASSUME CoreInv, SleepersMustWait, [Next]_vars, NEW u \in asleep'
               PROVE  \/ pc'[u] = "read" /\ ReadMustWait(u)'
                      \/ pc'[u] = "writewait" /\ Busy'
    BY DEF SleepersMustWait
  <1> DEFINE Waits == \/ pc'[u] = "read" /\ ReadMustWait(u)'
                      \/ pc'[u] = "writewait" /\ Busy'
  <1>0. /\ anon \in Nat /\ linked \in Nat /\ pc \in [Threads -> Labels]
        /\ asleep \subseteq Threads /\ nodes \in [Threads -> Nat]
    BY DEF CoreInv, TypeOK
  <1>1. CASE UNCHANGED vars
    BY <1>1 DEF vars, SleepersMustWait, ReadMustWait, HasNode, Busy
  <1>2. ASSUME NEW t \in Threads, RrwEnterReader(t) \/ RrwEnterWriter(t)
        PROVE  Waits
    BY <1>0, <1>2
    DEF SleepersMustWait, RrwEnterReader, RrwEnterWriter, Goto, ReadMustWait,
        HasNode, Busy, counts
  <1>3. ASSUME NEW t \in Threads, ReadWait(t)
        PROVE  Waits
    BY <1>0, <1>3 DEF SleepersMustWait, ReadWait, ReadMustWait, HasNode, Busy, counts
  <1>4. ASSUME NEW t \in Threads, ReadAnonymous(t)
        PROVE  Waits
    BY <1>0, <1>4 DEF SleepersMustWait, ReadAnonymous, ReadMustWait, HasNode, Busy,
                      Goto
  <1>5. ASSUME NEW t \in Threads, ReadLinked(t)
        PROVE  Waits
    <2>1. nodes[u] > 0 => linked # 0
      BY <1>0, <1>5, ZeroCounts DEF ReadLinked
    <2> QED
      BY <1>0, <1>5, <2>1 DEF SleepersMustWait, ReadLinked, ReadMustWait, HasNode,
                              Busy, Goto
  <1>6. ASSUME NEW t \in Threads, WriteWait(t)
        PROVE  Waits
    BY <1>0, <1>6 DEF SleepersMustWait, WriteWait, ReadMustWait, HasNode, Busy, Goto,
                      counts
  <1>7. ASSUME NEW t \in Threads, WriteAcquire(t)
        PROVE  Waits
    BY <1>0, <1>7, ThreadsAssumption
    DEF SleepersMustWait, WriteAcquire, ReadMustWait, HasNode, Busy, Goto
  <1>8. ASSUME NEW t \in Threads, ReadExit(t)
        PROVE  Waits
    <2>1. u \in asleep /\ u # t /\ pc' = pc /\ writer' = writer /\ wanted' = wanted
      BY <1>8 DEF SleepersMustWait, ReadExit, WakeAtZero
    <2>2. /\ linked' # 0 \/ linked' = linked
          /\ anon' # 0 \/ anon' = anon
          /\ linked' # linked \/ anon' # anon => linked' # 0 \/ anon' # 0
      BY <1>0, <1>8 DEF ReadExit, WakeAtZero
    <2>3. anon' \in Nat /\ linked' \in Nat
      BY CoreStep DEF CoreInv, TypeOK
    <2>4. CASE pc[u] = "writewait" /\ Busy
      BY <1>0, <2>1, <2>2, <2>3, <2>4 DEF Busy
    <2>5. CASE pc[u] = "read" /\ ReadMustWait(u)
      <3>1. nodes'[u] = nodes[u]
        BY <1>0, <1>8, <2>1 DEF ReadExit
      <3>2. writer = None /\ wanted /\ anon = 0 /\ ~HasNode(u)
        BY <1>8, <2>5 DEF ReadExit, ReadMustWait
      <3>3. anon' = 0
        BY <1>0, <1>8, <2>3, <3>2 DEF ReadExit
      <3>4. nodes[u] > 0 => linked # 0
        BY <1>0, <2>1, ZeroCounts
      <3> QED
        BY <1>0, <2>1, <2>5, <3>1, <3>2, <3>3, <3>4 DEF ReadMustWait, HasNode
    <2> QED
      BY <2>1, <2>4, <2>5 DEF SleepersMustWait
  <1>9. ASSUME NEW t \in Threads, WriteExit(t)
        PROVE  Waits
    BY <1>9 DEF WriteExit, AfterWriter
  <1> QED
    BY <1>1, <1>2, <1>3, <1>4, <1>5, <1>6, <1>7, <1>8, <1>9
    DEF Next, EnterStep, ExitStep

\* rrw_init() establishes the invariant.
LEMMA Initially == Init => IInv
  <1> SUFFICES ASSUME Init PROVE IInv
    OBVIOUS
  <1>1. TypeOK
    BY DEF Init, TypeOK, Labels
  <1>2. HoldsInv
    <2>1. \A t \in Threads : nodes[t] = 0 /\ depth[t] = 0
      BY DEF Init
    <2> QED
      BY <2>1, FS_EmptySet DEF Init, HoldsInv
  <1>3. RcountsExact
    BY FS_EmptySet DEF Init, RcountsExact
  <1> QED
    BY <1>1, <1>2, <1>3 DEF Init, IInv, CoreInv, ModeInv, WantedIsReal, SleepersMustWait

\* The invariant holds in every state of every behaviour of the lock.
THEOREM Invariance == Spec => []IInv
  <1>1. IInv /\ [Next]_vars => IInv'
    BY CoreStep, WantedStep, SleepStep DEF IInv, CoreInv
  <1> QED
    BY <1>1, Initially, PTL DEF Spec

\* Readers and the writer exclude each other.
THEOREM ExclusionCorrect == Spec => []Exclusion
  <1>1. IInv => Exclusion
    BY CoreExcludes DEF IInv
  <1> QED
    BY <1>1, Invariance, PTL

\* Every hold is given back to the count that it was taken from.
THEOREM RcountsCorrect == Spec => []RcountsExact
  <1>1. IInv => RcountsExact
    BY DEF IInv, CoreInv
  <1> QED
    BY <1>1, Invariance, PTL

\* A thread that already reads never waits for a writer.
THEOREM ReentrantCorrect == Spec => []ReentrantReadPasses
  <1>1. IInv => ReentrantReadPasses
    BY CorePasses DEF IInv
  <1> QED
    BY <1>1, Invariance, PTL

\* No wakeup is lost, and the flag that keeps readers out is never left over.
THEOREM WakeupCorrect == Spec => [](SleepersMustWait /\ WantedIsReal)
  <1>1. IInv => SleepersMustWait /\ WantedIsReal
    BY DEF IInv
  <1> QED
    BY <1>1, Invariance, PTL
=============================================================================

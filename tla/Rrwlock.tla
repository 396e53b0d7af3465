------------------------------- MODULE Rrwlock -------------------------------
(***************************************************************************)
(* The re-entrant reader/writer lock of ZFS (uts/common/fs/zfs/rrwlock.c), *)
(* which every file system operation holds as a reader (ZFS_ENTER) and     *)
(* which unmounting and rolling back take as a writer.                     *)
(*                                                                         *)
(* Readers are anonymous (a mere count) while no writer wants the lock.    *)
(* Once a writer waits, a reader leaves a node in its thread specific data *)
(* so that it can be told from a new reader, which has to wait.  A thread  *)
(* that already reads must never wait: the writer waits for it.            *)
(*                                                                         *)
(* Each function runs under rr_lock up to its return or to cv_wait(), so   *)
(* it is one step; a thread in cv_wait() runs again after a broadcast.     *)
(***************************************************************************)
EXTENDS Integers, FiniteSets

CONSTANT Threads

None == "none"

ASSUME ThreadsAssumption == IsFiniteSet(Threads) /\ None \notin Threads

VARIABLES
  writer,                   \* rr_writer
  anon, linked,             \* rr_anon_rcount, rr_linked_rcount
  wanted,                   \* rr_writer_wanted
  nodes,                    \* nodes for this lock in each thread's tsd list
  asleep,                   \* threads in cv_wait(rr_cv)
  pc,                       \* what each thread is calling
  depth,                    \* read holds of each thread
  anonHolds, linkedHolds    \* the holds <<thread, depth>> taken on each count

counts == <<anon, linked, nodes>>
history == <<depth, anonHolds, linkedHolds>>
vars == <<writer, anon, linked, wanted, nodes, asleep, pc, depth, anonHolds,
          linkedHolds>>

\* "read", "write": in the loop of rrw_enter(); "writewait": has waited there
Labels == {"run", "read", "write", "writewait"}

Goto(t, l) == pc' = [pc EXCEPT ![t] = l]

\* rrw_init()
Init ==
  /\ writer = None
  /\ anon = 0 /\ linked = 0
  /\ wanted = FALSE
  /\ nodes = [t \in Threads |-> 0]
  /\ asleep = {}
  /\ pc = [t \in Threads |-> "run"]
  /\ depth = [t \in Threads |-> 0]
  /\ anonHolds = {} /\ linkedHolds = {}

-----------------------------------------------------------------------------
\* rrn_find()
HasNode(t) == linked # 0 /\ nodes[t] > 0

\* rrw_enter(): a call that the rules for callers allow (no write hold, and
\* for a writer no read hold either)
RrwEnterReader(t) ==
  /\ pc[t] = "run" /\ writer # t
  /\ Goto(t, "read")
  /\ UNCHANGED <<writer, wanted, asleep, counts, history>>

RrwEnterWriter(t) ==
  /\ pc[t] = "run" /\ writer # t /\ depth[t] = 0
  /\ Goto(t, "write")
  /\ UNCHANGED <<writer, wanted, asleep, counts, history>>

\* the condition of the loop of rrw_enter_read()
BusyReadersPass(t) ==                                         \* mutant
  writer # None \/ (wanted /\ anon = 0 /\ linked = 0 /\ ~HasNode(t))
ReadMustWait(t) ==
  writer # None \/ (wanted /\ anon = 0 /\ ~HasNode(t))

ReadWait(t) ==
  /\ pc[t] = "read" /\ t \notin asleep
  /\ ReadMustWait(t)
  /\ asleep' = asleep \cup {t}
  /\ UNCHANGED <<writer, wanted, pc, counts, history>>

\* the rest of rrw_enter_read(), with rrn_add()
ReadAnonymous(t) ==
  /\ pc[t] = "read" /\ t \notin asleep
  /\ ~ReadMustWait(t) /\ ~wanted
  /\ anon' = anon + 1
  /\ anonHolds' = anonHolds \cup {<<t, depth[t] + 1>>}
  /\ depth' = [depth EXCEPT ![t] = @ + 1]
  /\ Goto(t, "run")
  /\ UNCHANGED <<writer, wanted, asleep, linked, nodes, linkedHolds>>

ReadLinked(t) ==
  /\ pc[t] = "read" /\ t \notin asleep
  /\ ~ReadMustWait(t) /\ wanted
  /\ nodes' = [nodes EXCEPT ![t] = @ + 1]
  /\ linked' = linked + 1
  /\ linkedHolds' = linkedHolds \cup {<<t, depth[t] + 1>>}
  /\ depth' = [depth EXCEPT ![t] = @ + 1]
  /\ Goto(t, "run")
  /\ UNCHANGED <<writer, wanted, asleep, anon, anonHolds>>

\* the condition of the loop of rrw_enter_write()
BusyAnonymous == anon > 0 \/ writer # None                    \* mutant
Busy == anon > 0 \/ linked > 0 \/ writer # None

WriteWait(t) ==
  /\ pc[t] \in {"write", "writewait"} /\ t \notin asleep
  /\ Busy
  /\ wanted' = TRUE
  /\ asleep' = asleep \cup {t}
  /\ Goto(t, "writewait")
  /\ UNCHANGED <<writer, counts, history>>

WantedAfterEntry == FALSE

WriteAcquire(t) ==
  /\ pc[t] \in {"write", "writewait"} /\ t \notin asleep
  /\ ~Busy
  /\ wanted' = WantedAfterEntry
  /\ writer' = t
  /\ Goto(t, "run")
  /\ UNCHANGED <<asleep, counts, history>>

\* cv_broadcast() when the count that was just decremented is 0
WakeAtOne(n) == IF n = 1 THEN {} ELSE asleep                  \* mutant
WakeAtZero(n) == IF n = 0 THEN {} ELSE asleep

\* rrn_find_and_remove() finds a node to give back
AnonymousFirst(t) == anon = 0 /\ HasNode(t)                   \* mutant
FindAndRemove(t) == HasNode(t)

\* rrw_exit() by a reader, which gives back its latest hold
ReadExit(t) ==
  /\ pc[t] = "run" /\ depth[t] > 0 /\ writer = None
  /\ IF FindAndRemove(t)
     THEN /\ nodes' = [nodes EXCEPT ![t] = @ - 1]
          /\ linked' = linked - 1
          /\ asleep' = WakeAtZero(linked')
          /\ UNCHANGED anon
     ELSE /\ anon' = anon - 1
          /\ asleep' = WakeAtZero(anon')
          /\ UNCHANGED <<nodes, linked>>
  /\ anonHolds' = anonHolds \ {<<t, depth[t]>>}
  /\ linkedHolds' = linkedHolds \ {<<t, depth[t]>>}
  /\ depth' = [depth EXCEPT ![t] = @ - 1]
  /\ UNCHANGED <<writer, wanted, pc>>

\* rrw_exit() by the writer wakes readers and writers
WritersOnly == {t \in asleep : pc[t] = "read"}                \* mutant
AfterWriter == {}

WriteExit(t) ==
  /\ pc[t] = "run" /\ writer = t
  /\ writer' = None
  /\ asleep' = AfterWriter
  /\ UNCHANGED <<wanted, pc, counts, history>>

\* rrw_held()
RrwReadHeld == anon # 0 \/ linked # 0
RrwWriteHeld(t) == writer = t

-----------------------------------------------------------------------------
\* The steps of a thread that is inside rrw_enter().
EnterStep(t) ==
  \/ ReadWait(t) \/ ReadAnonymous(t) \/ ReadLinked(t)
  \/ WriteWait(t) \/ WriteAcquire(t)

ExitStep(t) == ReadExit(t) \/ WriteExit(t)

Next ==
  \E t \in Threads :
    RrwEnterReader(t) \/ RrwEnterWriter(t) \/ EnterStep(t) \/ ExitStep(t)

Spec == Init /\ [][Next]_vars

-----------------------------------------------------------------------------
(* Properties *)

\* The fields of rrwlock_t have values of their types; the refcounts and the
\* number of nodes of a thread never go below 0.
TypeOK ==
  /\ writer \in Threads \cup {None}
  /\ anon \in Nat /\ linked \in Nat
  /\ wanted \in BOOLEAN
  /\ nodes \in [Threads -> Nat]
  /\ asleep \subseteq Threads
  /\ pc \in [Threads -> Labels]
  /\ depth \in [Threads -> Nat]
  /\ anonHolds \subseteq Threads \X Nat /\ linkedHolds \subseteq Threads \X Nat

\* A writer excludes readers, in spite of the readers that enter while it
\* waits, and rrw_held() tells the truth about both.
Exclusion ==
  /\ \A t \in Threads : RrwWriteHeld(t) =>
       (\A r \in Threads : depth[r] = 0) /\ ~RrwReadHeld
  /\ RrwReadHeld <=> \E r \in Threads : depth[r] > 0

\* rrw_exit() gives a hold back to the count that rrw_enter() took it from,
\* although it only looks for a node: otherwise refcount_remove() would not
\* find the tag of the hold, and panic.
RcountsExact ==
  anon = Cardinality(anonHolds) /\ linked = Cardinality(linkedHolds)

\* A thread that already reads never has to wait in rrw_enter_read(), whoever
\* waits to write: the writer waits for that very thread.
ReentrantReadPasses ==
  \A t \in Threads : depth[t] > 0 => ~ReadMustWait(t)

\* rr_writer_wanted stands for a writer that is waiting: a flag left over
\* would keep new readers out for ever.
WantedIsReal == wanted => \E t \in Threads : pc[t] = "writewait"

\* Whoever sleeps on rr_cv has something to wait for: no wakeup is lost.
SleepersMustWait ==
  \A t \in asleep :
    \/ pc[t] = "read" /\ ReadMustWait(t)
    \/ pc[t] = "writewait" /\ Busy

\* "Callers who have not obtained a read lock give waiting writers priority"
\* (rrwlock.c:40): a thread without a hold gets one while a writer waits only
\* if there are anonymous readers, one of which it may be.
WaitingWritersFirst ==
  [][\A t, w \in Threads :
       depth[t] = 0 /\ depth'[t] = 1 /\ pc[w] = "writewait" => anon > 0]_vars

=============================================================================

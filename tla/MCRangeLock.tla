---------------------------- MODULE MCRangeLock ----------------------------
(***************************************************************************)
(* A small file: offsets and sizes go up to MaxOffset, the block size is   *)
(* first one of InitBlksz.  A thread asks for the types in TypesOf[t] with *)
(* the ranges in Asks; those in Resizers extend and truncate the file.     *)
(***************************************************************************)
EXTENDS ZfsFile, TLC

CONSTANTS Asks, TypesOf, Resizers, InitBlksz

AllTypes == [t \in Threads |-> {"reader", "writer", "append"}]
OneWriter == LET w == CHOOSE t \in Threads : TRUE
             IN  [t \in Threads |-> IF t = w THEN {"writer"} ELSE {"reader"}]

\* type, offset and length: one range inside another, across its end, next to it
AllPairs ==
  {<<"reader", 0, 3>>, <<"append", 0, 3>>}
    \cup ({"reader", "writer"} \X {1} \X {1}) \cup ({"reader", "writer"} \X {2} \X {2})
OneRange == {"reader", "writer"} \X {0} \X {1}
NoLimit == [t \in Threads |-> MaxOffset]

Sym == Permutations(Threads)

MCInit == FileInit /\ blksz \in InitBlksz

Asked(t, r) ==
  \/ r.len = Infinity /\ t \in Resizers
  \/ r.type \in TypesOf[t] /\ <<r.type, r.off, r.len>> \in Asks

MCCall(t) == Call(t) /\ Asked(t, req'[t])

MCNext ==
  \E t \in Threads : MCCall(t) \/ Lock(t) \/ Broadcast(t) \/ Unlock(t) \/ FileStep(t)

MCSpec == MCInit /\ [][MCNext]_fvars

\* Threads that are inside a function or hold a lock go on, and a thread that
\* could be granted its lock again and again gets z_range_lock at last.
FairSpec ==
  /\ MCSpec
  /\ \A t \in Threads : WF_fvars(Broadcast(t)) /\ WF_fvars(Unlock(t))
  /\ \A t \in Threads : WF_fvars(Lock(t)) /\ WF_fvars(ReduceLock(t))
  /\ \A t \in Threads : SF_fvars(Lock(t) /\ pc'[t] = "held")

-----------------------------------------------------------------------------
\* "Multiple continuous readers on a range don't starve a writer for the same
\* range lock" (zfs_rlock.c:73), and no reader is left asleep: everybody who
\* asks for the range gets it, while the others come back for ever.
LockGranted == \A t \in Threads : pc[t] = "locking" ~> pc[t] = "held"
=============================================================================

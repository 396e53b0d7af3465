------------------------------ MODULE MCRrwlock ------------------------------
(***************************************************************************)
(* Rrwlock with threads that nest at most MaxDepth reads and that enter as *)
(* writers at most MaxWrites times each; they read as often as they like.  *)
(***************************************************************************)
EXTENDS Rrwlock

CONSTANTS MaxDepth, MaxWrites

VARIABLE writes

mcvars == <<vars, writes>>

MCInit == Init /\ writes = [t \in Threads |-> MaxWrites]

StartRead(t) ==
  /\ depth[t] < MaxDepth
  /\ RrwEnterReader(t)
  /\ UNCHANGED writes

StartWrite(t) ==
  /\ writes[t] > 0
  /\ RrwEnterWriter(t)
  /\ writes' = [writes EXCEPT ![t] = @ - 1]

Enter(t) == EnterStep(t) /\ UNCHANGED writes
Exit(t) == ExitStep(t) /\ UNCHANGED writes

MCNext == \E t \in Threads : StartRead(t) \/ StartWrite(t) \/ Enter(t) \/ Exit(t)

MCSpec == MCInit /\ [][MCNext]_mcvars

\* A thread in rrw_enter() that is not asleep gets rr_lock and goes on; the
\* writer leaves; and a reader, which may nest reads as often as it likes,
\* keeps none of its holds for ever.
ExitFrom(t, k) == depth[t] = k /\ Exit(t)

FairSpec ==
  /\ MCSpec
  /\ \A t \in Threads : WF_mcvars(Enter(t)) /\ WF_mcvars(Exit(t))
  /\ \A t \in Threads, k \in 1..MaxDepth : SF_mcvars(ExitFrom(t, k))

-----------------------------------------------------------------------------
\* A waiting writer gets the lock although threads come and read for ever.
WritersNotStarved ==
  \A t \in Threads : pc[t] = "writewait" ~> writer = t

\* A reader gets the lock once no more writers come.
ReadersGetIn ==
  \A t \in Threads : pc[t] = "read" ~> pc[t] = "run"
=============================================================================

-------------------------------- MODULE MCTxg --------------------------------
(***************************************************************************)
(* Txg with a bounded number of client operations.  Each client may start  *)
(* MaxOps operations; the clients in Suspending may also suspend and       *)
(* resume the pool as often as they like.  The sync timer fires as long as *)
(* the open txg is below MaxTxg: without that bound an idle pool opens     *)
(* txgs for ever.                                                          *)
(***************************************************************************)
EXTENDS Txg, TLC

CONSTANTS MaxOps, MaxTxg, Suspending

VARIABLE ops

mcvars == <<vars, ops>>

ClientSymmetry == Permutations(Clients)

MCInit == Init /\ ops = [cl \in Clients |-> MaxOps]

Start(cl) ==
  /\ ops[cl] > 0
  /\ StartWork(cl)
  /\ ops' = [ops EXCEPT ![cl] = @ - 1]

Free(cl) ==
  /\ ClientStep(cl) \/ ClientChoice(cl) \/ (cl \in Suspending /\ TxgSuspend(cl))
  /\ UNCHANGED ops

Timer == open < MaxTxg /\ SyncTimer /\ UNCHANGED ops

System ==
  /\ TxgSyncStart \/ SyncThreadStep \/ QuiesceThreadStep
  /\ UNCHANGED ops

\* nothing is left to do: the clients are done, or the engine was stopped
Rest ==
  /\ \/ \A cl \in Clients : cpc[cl] = "idle" /\ ops[cl] = 0
     \/ \E cl \in Clients : cpc[cl] = "stopped"
  /\ UNCHANGED mcvars

MCNext ==
  Timer \/ System \/ (\E cl \in Clients : Start(cl) \/ Free(cl)) \/ Rest

MCSpec == MCInit /\ [][MCNext]_mcvars

\* The scheduler runs both threads, and a client that has started an operation
\* goes on with it.  No timeout has to fire, and no client has to start anything.
FairSpec ==
  /\ MCSpec
  /\ WF_mcvars(SyncThreadStep /\ UNCHANGED ops)
  /\ WF_mcvars(QuiesceThreadStep /\ UNCHANGED ops)
  /\ \A cl \in Clients : WF_mcvars(ClientStep(cl) /\ UNCHANGED ops)

\* The cv_timedwait() of txg_delay() ends, which the waits need: a thread delayed
\* in the open txg holds a tc_lock that the quiesce thread takes to look for
\* threads in the txg before.
DelaysEnd == \A cl \in Clients : WF_mcvars(TxgDelayTimeout(cl) /\ UNCHANGED ops)

\* Every cv_timedwait() ends, that of the sync thread too.
TimeoutsFire == WF_mcvars(Timer) /\ DelaysEnd

-----------------------------------------------------------------------------
\* A thread in txg_wait_synced() returns, even if other threads suspend and
\* resume the pool for ever: the waiting writer of tx_suspend is not starved,
\* no wakeup is lost and the threads do not wait for each other.
WaitSyncedReturns ==
  DelaysEnd => \A cl \in Clients : cpc[cl] = "waitsync" ~> cpc[cl] = "idle"

\* txg_sync_stop() returns: both threads see tx_exiting wherever they sleep.
SyncStopReturns ==
  DelaysEnd => \A cl \in Clients : cpc[cl] = "stopsync" ~> cpc[cl] = "stopped"

\* A thread that delays in txg_delay() with tc_lock held leaves once its txg
\* stalls, without its timeout: the quiesce thread needs that lock.
DelayEndsWhenStalled ==
  \A cl \in Clients :
    cpc[cl] = "delay" /\ Stalled ~> cpc[cl] # "delay"

\* What is dirtied reaches the disk although nobody waits for it, provided that
\* the timeouts fire: the timer of the sync thread pushes its txg out (below the
\* bound on the timer).
DirtyReachesDisk ==
  TimeoutsFire =>
  \A o \in Objs, t \in TxgInit..(MaxTxg - 1) :
    <<o, t>> \in written ~> <<o, t>> \in persisted
=============================================================================

----------------------------- MODULE MCSyncTask -----------------------------
(***************************************************************************)
(* Sync tasks with a small set of groups: two callers that make the same   *)
(* snapshot of overlapping sets of datasets, and a history record that     *)
(* nobody waits for.  MaxTxg bounds the txgs and MaxNoSpace how often the  *)
(* reservation of space fails.                                             *)
(***************************************************************************)
EXTENDS Snapshot

CONSTANTS MaxTxg, MaxNoSpace

VARIABLE noSpace

mcvars == <<vars, noSpace>>

SnapshotOf(g, d, n) == [ds |-> d, name |-> n, by |-> g]

MCTasksOf == [g \in Groups |->
  CASE g = "g1" -> <<SnapshotOf(g, "d1", "snap"), SnapshotOf(g, "d2", "snap")>>
    [] g = "g2" -> <<SnapshotOf(g, "d1", "snap")>>
    [] OTHER -> <<SnapshotOf(g, NoDataset, "record")>>]

MCInit == Init /\ noSpace = MaxNoSpace

Open == open < MaxTxg /\ OpenTxg /\ UNCHANGED noSpace
Sync == SyncStep /\ UNCHANGED noSpace
Caller(g) == CallerStep(g) /\ UNCHANGED noSpace
Enter(g) == Assign(g) /\ UNCHANGED noSpace

Space == noSpace > 0 /\ SpaceStep /\ noSpace' = noSpace - 1

MCNext ==
  Open \/ Sync \/ Space \/ \E g \in Groups : Caller(g) \/ Enter(g)

MCSpec == MCInit /\ [][MCNext]_mcvars

\* The sync and quiesce threads run, and so do the callers.
FairSpec ==
  /\ MCSpec
  /\ WF_mcvars(Open) /\ WF_mcvars(Sync \/ Space)
  /\ \A g \in Groups : WF_mcvars(Caller(g))

-----------------------------------------------------------------------------
\* A caller in dsl_sync_task_group_wait() gets an answer or tries again, also
\* when the preliminary check of another caller fails inside the same txg.
WaitAnswered ==
  \A g \in Groups :
    gpc[g] = "waiting" /\ gtxg[g] < MaxTxg ~> gpc[g] \in {"returned", "top"}
=============================================================================

---------------------------- MODULE MCVdevLabel ----------------------------
(***************************************************************************)
(* A disk, and one just added that is not visible yet.  The ring has two   *)
(* slots, so a txg uses that of the last but one again, or that of the     *)
(* last after a txg that changed nothing.  MaxTxg bounds the txgs, and     *)
(* MaxEvents the writes that fail together with the times that vdevs       *)
(* are marked dirty: one with a change of its configuration, or all as     *)
(* they are (spa_config_update()).  Crashes are not bounded.               *)
(***************************************************************************)
EXTENDS VdevLabel

CONSTANTS MaxTxg, MaxEvents

VARIABLE events

mcvars == <<vars, events>>

MCTopOf == [f \in Leaves |-> IF f = "d1" THEN "old" ELSE "new"]

\* the first configuration is as good as any other
First == CHOOSE c \in Configs : TRUE
MCInit == Init /\ config = [v \in Tops |-> First] /\ events = 0

Event == events < MaxEvents /\ events' = events + 1

Sync == SyncStep /\ txg <= MaxTxg /\ UNCHANGED events
Nothing == SyncNothing /\ txg < MaxTxg /\ UNCHANGED events
Down == Crash /\ UNCHANGED events
MCFail == Event /\ Fail
Change == Event /\ \E v \in Tops : ConfigDirty({v}) /\ config' # config
Update == Event /\ ConfigDirty(Tops) /\ config' = config

MCNext == Sync \/ Nothing \/ Down \/ MCFail \/ Change \/ Update

MCSpec == MCInit /\ [][MCNext]_mcvars
=============================================================================

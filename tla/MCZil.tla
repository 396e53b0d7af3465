------------------------------- MODULE MCZil -------------------------------
(***************************************************************************)
(* A small intent log.  MaxRecs bounds the records, and MaxCalls the       *)
(* fsync()s and the suspensions of a log that is suspended already.  What  *)
(* disturbs them happens once: a txg that is opened although no thread     *)
(* waits for one, an allocation or a write that fails, and, in a behaviour *)
(* without these and without records larger than a log block, a suspension.*)
(***************************************************************************)
EXTENDS Zil, TLC

CONSTANTS MaxRecs, MaxCalls

VARIABLES calls, events

budget == <<calls, events>>
mcvars == <<vars, budget>>

Symmetry == Permutations(DVAs) \cup Permutations(Threads) \cup Permutations(Suspenders)

MCInit == Init /\ calls = 0 /\ events = {}

OneCall == calls < MaxCalls /\ calls' = calls + 1 /\ UNCHANGED events
Event(e) == e \notin events /\ events' = events \cup {e} /\ UNCHANGED calls

\* a thread in txg_wait_synced() needs another txg
Demand ==
  \/ \E c \in Callers :
       /\ pc[c] \in {"createwait", "bigwait", "finish", "destroy"}
       /\ until[c] >= open
  \/ destroyTxg >= open /\ \E c \in Callers : pc[c] = "create"

Open == Demand /\ OpenTxg /\ UNCHANGED budget
Timer == OpenTxg /\ "suspend" \notin events /\ Event("timer")
Sync == SyncStep /\ UNCHANGED budget
Clean == ItxClean /\ UNCHANGED budget
Disk == DiskStep /\ UNCHANGED budget
Fail == (DiskError \/ \E c \in Callers : NoSpace(c)) /\ "suspend" \notin events /\ Event("fail")
Write(c) ==
  /\ Len(itxs) + Cardinality({t \in Threads : pc[t] = "tx"}) < MaxRecs
  /\ Begin(c) /\ UNCHANGED budget
Log(c) ==
  /\ \E f \in Files \cup {AnyFile} :
       ItxAssign(c, f) /\ (f \in BigFiles => "suspend" \notin events)
  /\ UNCHANGED budget
Call(c) == (\E f \in Files \cup {AnyFile} : Fsync(c, f)) /\ OneCall
Snap(c) ==
  /\ Suspend(c) /\ \A n \in Seqs : itxs[n].file \notin BigFiles
  /\ IF suspend > 0 THEN OneCall ELSE events = {} /\ Event("suspend")
Work(c) == (WriterStep(c) \/ (c \in Suspenders /\ (SuspendStep(c) \/ Resume(c)))) /\ UNCHANGED budget

MCNext == ~Panic /\
  \/ Open \/ Timer \/ Sync \/ Clean \/ Disk \/ Fail
  \/ \E c \in Threads : Write(c) \/ Log(c) \/ Call(c)
  \/ \E c \in Suspenders : Snap(c)
  \/ \E c \in Callers : Work(c)

MCSpec == MCInit /\ [][MCNext]_mcvars
=============================================================================

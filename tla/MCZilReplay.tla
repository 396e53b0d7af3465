---------------------------- MODULE MCZilReplay ----------------------------
(***************************************************************************)
(* Recovery of a small log.  MaxCrashes bounds the crashes after the first *)
(* one, MaxErrors the errors of the replay, and MaxTimer the txgs that     *)
(* are opened although no thread waits for one.                            *)
(***************************************************************************)
EXTENDS ZilReplay

CONSTANTS MaxCrashes, MaxErrors, MaxTimer

VARIABLES crashes, errors, timer

budget == <<crashes, errors, timer>>
mcvars == <<vars, budget>>

MCBlockOf == [r \in Recs |-> IF r < NRecs THEN 1 ELSE NBlocks]

\* records of the first block share their data block
MCDataOf == [r \in Indirect |-> MCBlockOf[r]]

MCInit == Init /\ crashes = 0 /\ errors = 0 /\ timer = 0

\* a thread in txg_wait_synced() or txg_wait_open() needs another txg
Demand ==
  \/ pc \in {"claimed", "start", "waitsync", "keep", "destroy", "destroyed"} /\ until >= open
  \/ pc = "waitopen" /\ until > open

Open == Demand /\ OpenTxg /\ UNCHANGED budget
Timer == timer < MaxTimer /\ OpenTxg /\ timer' = timer + 1 /\ UNCHANGED <<crashes, errors>>
Sync == SyncStep /\ UNCHANGED budget
MCMount == MountStep /\ UNCHANGED budget
Error == errors < MaxErrors /\ (AssignError \/ ReplayError) /\ errors' = errors + 1 /\ UNCHANGED <<crashes, timer>>
GoDown == crashes < MaxCrashes /\ CrashStep /\ crashes' = crashes + 1 /\ UNCHANGED <<errors, timer>>
MCDrain == Drain /\ UNCHANGED budget

MCNext == Open \/ Timer \/ Sync \/ MCMount \/ Error \/ GoDown

\* The sync and quiesce threads run, and so does the thread that imports the
\* pool and mounts the dataset.
FairSpec ==
  /\ MCInit /\ [][MCNext]_mcvars
  /\ WF_mcvars(Open) /\ WF_mcvars(Sync) /\ WF_mcvars(MCMount \/ Error)

\* A file system, whose mount drains the unlinked set first.
DrainSpec == MCInit /\ [][MCNext \/ MCDrain]_mcvars

-----------------------------------------------------------------------------
\* However often the machine goes down on the way, the dataset is mounted in
\* the end: replay, retries and waits do not block each other.
Recovers == pc = "import" ~> pc = "mounted"
=============================================================================

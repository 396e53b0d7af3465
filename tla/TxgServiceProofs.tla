-------------------------- MODULE TxgServiceProofs --------------------------
(***************************************************************************)
(* The transaction group engine implements TxgService, for any number of   *)
(* clients, CPUs and objects.  Only five of its actions are steps of the   *)
(* service; the invariant of TxgProofs gives their guards.                 *)
(***************************************************************************)
EXTENDS TxgProofs

\* The mapping: who is inside which txg, and what is on disk for good.
Holders == {<<cl, th[cl].txg>> : cl \in {d \in Clients : Inside(d)}}
Durable == {w \in persisted : w[2] # syncing}
Prefix == {w \in written : w[2] <= Floor}

USE DEF pipe, waits, life, suspend, percpu, svars, qvars, cvars, data,
        engine, clientSide

\* The invariant says what is on disk after a step as well.
LEMMA DiskNext == IInv' => DiskIsPrefix'
  BY DiskNow, PTL

\* What is on disk for good is what was written up to the last synced txg.
LEMMA DurableIsPrefix ==
  ASSUME IInv, IInv'
  PROVE  Durable = Prefix /\ Durable' = Prefix'
  BY DiskNow, DiskNext DEF DiskIsPrefix, Durable, Prefix

\* A step that changes nothing the mapping speaks of is no step of the service.
LEMMA Stutter ==
  ASSUME IInv, IInv', UNCHANGED <<open, synced, written>>, Holders' = Holders
  PROVE  UNCHANGED <<open, Floor, Holders, written, Durable>>
  BY DurableIsPrefix DEF Floor, Prefix

\* The threads do not move the clients into or out of a txg.
LEMMA ThreadsStutter ==
  ASSUME IInv, IInv',
         \/ UNCHANGED core \/ ThreadMove \/ SyncConsume \/ SpaSyncDone
         \/ (\E o \in Objs : SpaSyncObject(o))
         \/ QuiesceBegin \/ QuiesceGrab \/ QuiesceDrained \/ QuiesceHandoff
  PROVE  UNCHANGED <<open, Floor, Holders, written, Durable>>
  <1>1. UNCHANGED <<open, synced, written, cpc, th>>
    BY DEF core, ThreadMove, SyncConsume, SpaSyncDone, SpaSyncObject,
           QuiesceBegin, QuiesceGrab, QuiesceDrained, QuiesceHandoff
  <1>2. Holders' = Holders
    BY <1>1 DEF Holders, Inside, Counted
  <1> QED
    BY <1>1, <1>2, Stutter

\* Inside its txg a client moves without leaving it.
LEMMA ClientsStutter ==
  ASSUME IInv, IInv', NEW cl \in Clients,
         ClientMove(cl) \/ TxgHoldOpenCount(cl) \/ TxgReleToQuiesce(cl)
  PROVE  UNCHANGED <<open, Floor, Holders, written, Durable>>
  <1>1. UNCHANGED <<open, synced, written, th>>
    BY DEF ClientMove, TxgHoldOpenCount, TxgReleToQuiesce
  <1>2. \A d \in Clients : Inside(d)' <=> Inside(d)
    BY DEF IInv, TypeOK, ClientMove, TxgHoldOpenCount, TxgReleToQuiesce, Goto,
           Inside, Counted
  <1>3. Holders' = Holders
    BY <1>1, <1>2 DEF Holders
  <1> QED
    BY <1>1, <1>3, Stutter

-----------------------------------------------------------------------------
\* txg_hold_open() enters the open txg.
LEMMA HoldOpenEnters ==
  ASSUME IInv, IInv', NEW cl \in Clients, NEW c \in Cpus, TxgHoldOpen(cl, c)
  PROVE  Service!Enter(cl)
  <1>1. UNCHANGED <<open, synced, written>> /\ ~Inside(cl) /\ Inside(cl)'
        /\ th'[cl].txg = open
    BY DEF IInv, TypeOK, TxgHoldOpen, MayStart, Goto, Inside, Counted
  <1>2. \A d \in Clients : d # cl => (Inside(d)' <=> Inside(d)) /\ th'[d] = th[d]
    BY DEF IInv, TypeOK, TxgHoldOpen, Goto, Inside, Counted
  <1>3. Holders' = Holders \cup {<<cl, open>>} /\ \A h \in Holders : h[1] # cl
    BY <1>1, <1>2 DEF Holders
  <1>4. UNCHANGED <<Floor, Durable>>
    BY <1>1, DurableIsPrefix DEF Floor, Prefix
  <1> QED
    BY <1>1, <1>3, <1>4 DEF Service!Enter, Holders, Durable

\* txg_rele_to_sync() leaves it.
LEMMA ReleToSyncLeaves ==
  ASSUME IInv, IInv', NEW cl \in Clients, TxgReleToSync(cl)
  PROVE  Service!Leave(cl)
  <1>1. UNCHANGED <<open, synced, written>> /\ Inside(cl) /\ ~Inside(cl)'
    BY DEF IInv, TypeOK, TxgReleToSync, Goto, Inside, Counted
  <1>2. \A d \in Clients : d # cl => (Inside(d)' <=> Inside(d)) /\ th'[d] = th[d]
    BY DEF IInv, TypeOK, TxgReleToSync, Goto, Inside, Counted
  <1>3. <<cl, th[cl].txg>> \in Holders /\ <<cl, th[cl].txg>>[1] = cl
    BY <1>1 DEF Holders
  <1>4. \A h : h \in Holders' <=> h \in Holders /\ h[1] # cl
    BY <1>1, <1>2 DEF Holders
  <1>5. UNCHANGED <<Floor, Durable>>
    BY <1>1, DurableIsPrefix DEF Floor, Prefix
  <1> QED
    BY <1>1, <1>3, <1>4, <1>5 DEF Service!Leave, Holders, Durable

\* txg_list_add() dirties an object in a txg that is not on disk.
LEMMA ListAddDirties ==
  ASSUME IInv, IInv', NEW cl \in Clients, NEW o \in Objs, TxgListAdd(cl, o)
  PROVE  Service!Dirty(cl, o)
  <1>1. /\ UNCHANGED <<open, synced, syncing, cpc, th>>
        /\ written' = written \cup {<<o, th[cl].txg>>}
        /\ Inside(cl)
    BY DEF TxgListAdd, Inside, Counted
  <1>2. Live(th[cl].txg)
    BY <1>1, HolderLive DEF IInv
  <1>3. Holders' = Holders /\ <<cl, th[cl].txg>> \in Holders
    BY <1>1 DEF Holders, Inside, Counted
  <1>4. Floor' = Floor /\ Floor \in Int /\ th[cl].txg \in Nat
    BY <1>1, TxgInitAssumption DEF Floor, IInv, TypeOK
  <1>5. Durable' = Durable
    <2>1. ~(th[cl].txg <= Floor)
      BY <1>2, <1>4 DEF Live
    <2> QED
      BY <1>1, <1>4, <2>1, DurableIsPrefix DEF Prefix
  <1> QED
    BY <1>1, <1>3, <1>4, <1>5 DEF Service!Dirty, Holders, Durable

\* txg_quiesce() opens the next txg, which makes three live ones at most.
LEMMA AdvanceOpens ==
  ASSUME IInv, IInv', QuiesceAdvance
  PROVE  Service!OpenNext
  <1>1. UNCHANGED <<synced, written, cpc, th>> /\ open' = open + 1
    BY DEF QuiesceAdvance
  <1>2. Holders' = Holders
    BY <1>1 DEF Holders, Inside, Counted
  <1>3. UNCHANGED <<Floor, Durable>>
    BY <1>1, DurableIsPrefix DEF Floor, Prefix
  <1>4. open - Floor < 3
    BY TxgInitAssumption
    DEF QuiesceAdvance, IInv, TypeOK, PipeInv, PipelineConsecutive, Floor
  <1> QED
    BY <1>1, <1>2, <1>3, <1>4
    DEF Service!OpenNext, Service!TXG_CONCURRENT_STATES, Holders, Durable

\* The end of a sync commits the txg, with nobody inside it.
LEMMA FinishCommits ==
  ASSUME IInv, IInv', SyncFinish
  PROVE  Service!Commit
  <1>1. UNCHANGED <<open, written, cpc, th>> /\ synced' = syncing
        /\ spc = "finish"
    BY DEF SyncFinish
  <1>2. Holders' = Holders
    BY <1>1 DEF Holders, Inside, Counted
  <1>3. syncing # 0 /\ syncing = Floor + 1 /\ syncing < open /\ Floor \in Int
        /\ syncing \in Nat
    BY <1>1, TxgInitAssumption
    DEF IInv, TypeOK, PipeInv, PipelineConsecutive, Floor
  <1>4. Floor' = Floor + 1
    BY <1>1, <1>3 DEF Floor
  <1>5. Durable' = {w \in written : w[2] <= Floor + 1}
    BY <1>1, <1>4, DurableIsPrefix DEF Prefix
  <1>6. ASSUME NEW h \in Holders PROVE h[2] > Floor + 1
    <2>1. PICK cl \in Clients : Inside(cl) /\ h = <<cl, th[cl].txg>>
      BY DEF Holders
    <2>2. th[cl].txg > syncing
      BY <1>3, <2>1, TxgInitAssumption
      DEF IInv, TypeOK, PipeInv, PipelineConsecutive, HoldersNotQuiesced, Floor
    <2> QED
      BY <1>3, <2>1, <2>2
  <1> QED
    BY <1>1, <1>2, <1>3, <1>4, <1>5, <1>6 DEF Service!Commit, Holders, Durable

-----------------------------------------------------------------------------
\* The transaction group engine implements its abstract specification.
THEOREM Refinement == Spec => ImplementsService
  <1>1. Init => Service!Init
    BY DEF Init, Service!Init, Floor, Inside, Counted
  <1>2. ASSUME IInv, IInv', [Next]_vars
        PROVE  [Service!Next]_Service!svc
    <2>1. CoreEffect
      BY <1>2, Effect DEF IInv
    <2>2. UNCHANGED <<open, Floor, Holders, written, Durable>>
            => UNCHANGED Service!svc
      BY DEF Service!svc, Holders, Durable
    <2> QED
      BY <1>2, <2>1, <2>2, ThreadsStutter, ClientsStutter, HoldOpenEnters,
         ReleToSyncLeaves, ListAddDirties, AdvanceOpens, FinishCommits
      DEF CoreEffect, Service!Next
  <1> QED
    BY <1>1, <1>2, Invariance, PTL DEF Spec, ImplementsService, Service!Spec
=============================================================================

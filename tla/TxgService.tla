----------------------------- MODULE TxgService -----------------------------
(***************************************************************************)
(* What the transaction group engine promises to the rest of ZFS, without  *)
(* threads, locks or slots: threads enter the open txg, dirty objects in   *)
(* it and leave; txgs are committed one after the other, each one whole    *)
(* and only when nobody is inside it; and there are never more than three  *)
(* live txgs (TXG_CONCURRENT_STATES).                                      *)
(***************************************************************************)
EXTENDS Integers

CONSTANTS Clients, Objs, TxgInit

VARIABLES
  open,         \* the txg that threads enter
  floor,        \* the last txg that is completely on disk
  holders,      \* <<client, txg>>: the client is inside the txg
  dirtied,      \* <<object, txg>>: the object was dirtied in the txg
  durable       \* the part of dirtied that is on disk for good

svc == <<open, floor, holders, dirtied, durable>>

TXG_CONCURRENT_STATES == 3

Init ==
  /\ open = TxgInit /\ floor = TxgInit - 1
  /\ holders = {} /\ dirtied = {} /\ durable = {}

Enter(cl) ==
  /\ \A h \in holders : h[1] # cl
  /\ holders' = holders \cup {<<cl, open>>}
  /\ UNCHANGED <<open, floor, dirtied, durable>>

Dirty(cl, o) ==
  /\ \E h \in holders : h[1] = cl /\ dirtied' = dirtied \cup {<<o, h[2]>>}
  /\ UNCHANGED <<open, floor, holders, durable>>

Leave(cl) ==
  /\ \E h \in holders : h[1] = cl
  /\ holders' = {h \in holders : h[1] # cl}
  /\ UNCHANGED <<open, floor, dirtied, durable>>

OpenNext ==
  /\ open - floor < TXG_CONCURRENT_STATES
  /\ open' = open + 1
  /\ UNCHANGED <<floor, holders, dirtied, durable>>

Commit ==
  /\ floor + 1 < open
  /\ \A h \in holders : h[2] > floor + 1
  /\ floor' = floor + 1
  /\ durable' = {w \in dirtied : w[2] <= floor + 1}
  /\ UNCHANGED <<open, holders, dirtied>>

Next ==
  \/ \E cl \in Clients : Enter(cl) \/ Leave(cl) \/ \E o \in Objs : Dirty(cl, o)
  \/ OpenNext
  \/ Commit

Spec == Init /\ [][Next]_svc
=============================================================================

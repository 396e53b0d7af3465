--------------------------- MODULE SyncTaskProofs ---------------------------
(***************************************************************************)
(* Proofs about SyncTask, for any groups of tasks and any check and sync   *)
(* functions, and about Snapshot, for any groups of snapshots.             *)
(***************************************************************************)
EXTENDS Snapshot, WellFoundedInduction, TLAPS

Labels == {"top", "assigned", "checked", "failed", "listed", "waiting",
           "returned", "gone"}

\* the caller is between dmu_tx_assign() and dmu_tx_commit()
Inside == {"assigned", "checked", "failed", "listed"}

Pending(g) == \E s \in Slots : \E i \in 1..Len(pending[s]) : pending[s][i] = g

\* The fields have their types.
FieldsOK ==
  /\ gpc \in [Groups -> Labels]
  /\ gtxg \in [Groups -> Nat]
  /\ err = [g \in Groups |-> err[g]]
  /\ pending \in [Slots -> Seq(Groups)]
  /\ freed \subseteq Groups

\* There are at most three live txgs, and the callers inside are in live ones.
EngineOK ==
  /\ open \in Nat /\ floor \in Nat
  /\ floor < open /\ open - floor <= 3
  /\ \A g \in Groups : gpc[g] \in Inside =>
       <<g, gtxg[g]>> \in holders /\ floor < gtxg[g] /\ gtxg[g] <= open
  /\ \A h \in holders : \E g \in Groups :
       h = <<g, gtxg[g]>> /\ gpc[g] \in Inside

\* The groups on a list belong to the live txg of that slot.
GroupOK(g, s) ==
  /\ gpc[g] \in {"listed", "waiting", "gone"}
  /\ Slot(gtxg[g]) = s /\ floor < gtxg[g] /\ gtxg[g] <= open
  /\ err[g] = "ok" /\ g \notin freed

ListOK ==
  \A s \in Slots : \A i \in 1..Len(pending[s]) :
    /\ GroupOK(pending[s][i], s)
    /\ \A j \in 1..Len(pending[s]) : pending[s][j] = pending[s][i] => i = j

\* What the position of a caller says about its group.
CallerOK ==
  \A g \in Groups :
    /\ gpc[g] = "checked" => err[g] = "ok"
    /\ gpc[g] = "failed" => err[g] # "ok"
    /\ gpc[g] = "listed" => Pending(g)
    /\ g \in NoWait => gpc[g] \in {"top", "assigned", "listed", "gone"}
    /\ g \in NoWait /\ gpc[g] \in {"top", "assigned"} => err[g] = "ok"
    /\ g \in freed => gpc[g] = "gone"

\* Which groups have run, and what their callers know of it.
HasRun(g) ==
  /\ gpc[g] \in {"waiting", "returned", "gone"}
  /\ err[g] = "ok" /\ ~Pending(g)
  /\ gtxg[g] <= floor + 1

RanOK ==
  /\ ran \subseteq Groups \X Nat
  /\ \A g \in Groups, t \in Nat : <<g, t>> \in ran => t = gtxg[g] /\ HasRun(g)
  /\ \A g \in Groups : gpc[g] = "waiting" /\ err[g] = "ok" /\ ~Pending(g)
                       => <<g, gtxg[g]>> \in ran
  /\ \A g \in Groups : gpc[g] = "returned" /\ err[g] = "ok"
                       => <<g, gtxg[g]>> \in ran /\ gtxg[g] <= floor

IInv == FieldsOK /\ EngineOK /\ ListOK /\ CallerOK /\ RanOK

-----------------------------------------------------------------------------
(* Lists *)

\* What txg_list_add() does to the list of a slot.
LEMMA Adding ==
  ASSUME NEW q \in Seq(Groups), NEW g \in Groups
  PROVE  /\ <<g>> \o q \in Seq(Groups)
         /\ Len(<<g>> \o q) = Len(q) + 1
         /\ (<<g>> \o q)[1] = g
         /\ \A i \in 2..(Len(q) + 1) : (<<g>> \o q)[i] = q[i - 1]
OBVIOUS

\* What txg_list_remove() does to the list of a slot.
LEMMA Removing ==
  ASSUME NEW q \in Seq(Groups), q # << >>
  PROVE  /\ Len(q) \in Nat \ {0}
         /\ Head(q) = q[1] /\ Head(q) \in Groups
         /\ Tail(q) \in Seq(Groups)
         /\ Len(Tail(q)) = Len(q) - 1
         /\ \A i \in 1..(Len(q) - 1) : Tail(q)[i] = q[i + 1]
OBVIOUS

-----------------------------------------------------------------------------
(* The inductive invariant *)

\* The members of the lists are groups.
LEMMA Members ==
  ASSUME FieldsOK, NEW s \in Slots, NEW i \in 1..Len(pending[s])
  PROVE  pending[s][i] \in Groups
BY DEF FieldsOK

\* The lists stay good if they do not change and their groups stay good.
LEMMA ListKept ==
  ASSUME ListOK, FieldsOK, pending' = pending,
         \A g \in Groups, s \in Slots : GroupOK(g, s) => GroupOK(g, s)'
  PROVE  ListOK'
<1> SUFFICES ASSUME NEW s \in Slots, NEW i \in 1..Len(pending[s])
             PROVE  /\ GroupOK(pending[s][i], s)'
                    /\ \A j \in 1..Len(pending[s]) :
                         pending[s][j] = pending[s][i] => i = j
  BY DEF ListOK
<1>1. pending[s][i] \in Groups /\ GroupOK(pending[s][i], s)
  BY Members DEF ListOK
<1> QED
  BY <1>1 DEF ListOK

\* A group on a list belongs to a live txg, and has a caller that is past
\* txg_list_add().
LEMMA PendingOK ==
  ASSUME FieldsOK, ListOK, NEW g \in Groups, Pending(g)
  PROVE  \E s \in Slots : GroupOK(g, s)
BY DEF FieldsOK, ListOK, Pending

\* In the initial states nothing is listed and nothing has run.
LEMMA InitIInv == Init => IInv
<1> SUFFICES ASSUME Init PROVE IInv
  OBVIOUS
<1> USE DEF Init, Engine!Init, Slots, TXG_SIZE
<1>1. FieldsOK
  BY DEF FieldsOK, Labels
<1>2. EngineOK
  BY TxgInitAssumption DEF EngineOK, Inside
<1>3. ListOK
  BY DEF ListOK
<1>4. CallerOK
  BY DEF CallerOK
<1>5. RanOK
  BY DEF RanOK
<1> QED
  BY <1>1, <1>2, <1>3, <1>4, <1>5 DEF IInv

\* The caller enters the open txg.
LEMMA AssignIInv ==
  ASSUME IInv, NEW g \in Groups, Assign(g)
  PROVE  IInv'
<1> USE DEF IInv, Assign, Engine!Enter, Goto
<1>1. FieldsOK'
  BY DEF FieldsOK, EngineOK, Labels
<1>2. EngineOK'
  BY DEF FieldsOK, EngineOK, Inside, Labels
<1>3. ListOK'
  <2>1. \A x \in Groups, s \in Slots : GroupOK(x, s) => GroupOK(x, s)'
    BY DEF FieldsOK, GroupOK
  <2> QED
    BY <2>1, ListKept
<1> \A x : Pending(x)' <=> Pending(x)
  BY DEF Pending
<1>4. CallerOK'
  BY PendingOK DEF FieldsOK, CallerOK, GroupOK
<1>5. RanOK'
  BY PendingOK DEF FieldsOK, RanOK, HasRun, CallerOK, EngineOK, GroupOK
<1> QED
  BY <1>1, <1>2, <1>3, <1>4, <1>5

\* The preliminary check sets dstg_err.
LEMMA PrelimCheckIInv ==
  ASSUME IInv, NEW g \in Groups, PrelimCheck(g)
  PROVE  IInv'
<1> USE DEF IInv, PrelimCheck, Goto, SetErr, svc
<1>1. FieldsOK'
  BY DEF FieldsOK, Labels
<1>2. EngineOK'
  BY DEF FieldsOK, EngineOK, Inside, Labels
<1>3. ListOK'
  <2>1. \A x \in Groups, s \in Slots : GroupOK(x, s) => GroupOK(x, s)'
    BY DEF FieldsOK, EngineOK, GroupOK
  <2> QED
    BY <2>1, ListKept
<1> \A x : Pending(x)' <=> Pending(x)
  BY DEF Pending
<1>4. CallerOK'
  BY PendingOK DEF FieldsOK, CallerOK, GroupOK
<1>5. RanOK'
  BY PendingOK DEF FieldsOK, RanOK, HasRun, CallerOK, EngineOK, GroupOK
<1> QED
  BY <1>1, <1>2, <1>3, <1>4, <1>5

\* The caller leaves its txg.
LEMMA TxCommitIInv ==
  ASSUME IInv, NEW g \in Groups, TxCommit(g)
  PROVE  IInv'
<1> USE DEF IInv, TxCommit, Goto, Engine!Leave, CommitFrom, svc
<1>1. FieldsOK'
  BY DEF FieldsOK, Labels
<1>2. EngineOK'
  BY DEF FieldsOK, EngineOK, Inside, Labels
<1>3. ListOK'
  <2>1. \A x \in Groups, s \in Slots : GroupOK(x, s) => GroupOK(x, s)'
    BY DEF FieldsOK, EngineOK, GroupOK
  <2> QED
    BY <2>1, ListKept
<1> \A x : Pending(x)' <=> Pending(x)
  BY DEF Pending
<1>4. CallerOK'
  BY PendingOK DEF FieldsOK, CallerOK, GroupOK
<1>5. RanOK'
  BY PendingOK DEF FieldsOK, RanOK, HasRun, CallerOK, EngineOK, GroupOK
<1> QED
  BY <1>1, <1>2, <1>3, <1>4, <1>5

\* The caller starts again in another txg.
LEMMA AgainIInv ==
  ASSUME IInv, NEW g \in Groups, Again(g)
  PROVE  IInv'
<1> USE DEF IInv, Again, Goto, TxgDone, svc
<1>1. FieldsOK'
  BY DEF FieldsOK, Labels
<1>2. EngineOK'
  BY DEF FieldsOK, EngineOK, Inside, Labels
<1>3. ListOK'
  <2>1. \A x \in Groups, s \in Slots : GroupOK(x, s) => GroupOK(x, s)'
    BY DEF FieldsOK, EngineOK, GroupOK
  <2> QED
    BY <2>1, ListKept
<1> \A x : Pending(x)' <=> Pending(x)
  BY DEF Pending
<1>4. CallerOK'
  BY PendingOK DEF FieldsOK, CallerOK, GroupOK
<1>5. RanOK'
  BY PendingOK DEF FieldsOK, RanOK, HasRun, CallerOK, EngineOK, GroupOK
<1> QED
  BY <1>1, <1>2, <1>3, <1>4, <1>5

\* The caller returns.
LEMMA ReturnIInv ==
  ASSUME IInv, NEW g \in Groups, Return(g)
  PROVE  IInv'
<1> USE DEF IInv, Return, Goto, TxgDone, svc
<1>1. FieldsOK'
  BY DEF FieldsOK, Labels
<1>2. EngineOK'
  BY DEF FieldsOK, EngineOK, Inside, Labels
<1>3. ListOK'
  <2>1. \A x \in Groups, s \in Slots : GroupOK(x, s) => GroupOK(x, s)'
    BY DEF FieldsOK, EngineOK, GroupOK
  <2> QED
    BY <2>1, ListKept
<1> \A x : Pending(x)' <=> Pending(x)
  BY DEF Pending
<1>4. CallerOK'
  BY PendingOK DEF FieldsOK, CallerOK, GroupOK
<1>5. RanOK'
  BY PendingOK DEF FieldsOK, RanOK, HasRun, CallerOK, EngineOK, GroupOK
<1> QED
  BY <1>1, <1>2, <1>3, <1>4, <1>5

\* The caller frees the group.
LEMMA DestroyIInv ==
  ASSUME IInv, NEW g \in Groups, Destroy(g)
  PROVE  IInv'
<1> USE DEF IInv, Destroy, Goto, svc
<1>1. FieldsOK'
  BY DEF FieldsOK, Labels
<1>2. EngineOK'
  BY DEF FieldsOK, EngineOK, Inside, Labels
<1>3. ListOK'
  <2>1. \A x \in Groups, s \in Slots : GroupOK(x, s) => GroupOK(x, s)'
    BY DEF FieldsOK, EngineOK, GroupOK
  <2> QED
    BY <2>1, ListKept
<1> \A x : Pending(x)' <=> Pending(x)
  BY DEF Pending
<1>4. CallerOK'
  BY PendingOK DEF FieldsOK, CallerOK, GroupOK
<1>5. RanOK'
  BY PendingOK DEF FieldsOK, RanOK, HasRun, CallerOK, EngineOK, GroupOK
<1> QED
  BY <1>1, <1>2, <1>3, <1>4, <1>5

-----------------------------------------------------------------------------
(* Steps that change the lists *)

\* The slot of a txg is one of the heads of the lists.
LEMMA SlotInRange ==
  ASSUME NEW t \in Nat
  PROVE  Slot(t) \in Slots
BY DEF Slot, Slots, TXG_SIZE

\* Two live txgs have different slots: there are fewer of them than slots.
LEMMA SlotsDiffer ==
  ASSUME EngineOK, NEW t \in Nat, floor < t, t <= open, Slot(t) = Slot(Syncing)
  PROVE  t = Syncing
BY DEF EngineOK, Slot, TXG_SIZE, Syncing

\* The group is put on the list of the txg that its caller is in.
LEMMA ListAddIInv ==
  ASSUME IInv, NEW g \in Groups, ListAdd(g)
  PROVE  IInv'
<1> USE DEF IInv, ListAdd, Goto, Engine!Dirty, svc
<1> DEFINE s0 == Slot(gtxg[g])
           q0 == pending[s0]
<1>1. s0 \in Slots /\ q0 \in Seq(Groups)
  BY SlotInRange DEF FieldsOK
<1>2. /\ <<g>> \o q0 \in Seq(Groups)
      /\ Len(<<g>> \o q0) = Len(q0) + 1
      /\ (<<g>> \o q0)[1] = g
      /\ \A i \in 2..(Len(q0) + 1) : (<<g>> \o q0)[i] = q0[i - 1]
  BY <1>1, Adding
<1>3. pending' = [pending EXCEPT ![s0] = <<g>> \o q0]
  BY <1>1 DEF FieldsOK
<1>4. ~Pending(g)
  BY PendingOK DEF GroupOK
<1>5. \A s \in Slots : Len(pending[s]) \in Nat
  BY DEF FieldsOK
<1>6. \A x \in Groups : Pending(x)' <=> Pending(x) \/ x = g
  <2> SUFFICES ASSUME NEW x \in Groups PROVE Pending(x)' <=> Pending(x) \/ x = g
    OBVIOUS
  <2>1. pending'[s0][1] = g /\ 1 \in 1..Len(pending'[s0])
    BY <1>1, <1>2, <1>3, <1>5 DEF FieldsOK
  <2>2. x = g => Pending(x)'
    BY <2>1, <1>1 DEF Pending
  <2>3. Pending(x) => Pending(x)'
    <3> SUFFICES ASSUME NEW s \in Slots, NEW i \in 1..Len(pending[s]), pending[s][i] = x
                 PROVE  Pending(x)'
      BY DEF Pending
    <3>1. CASE s = s0
      <4>1. i + 1 \in 1..Len(pending'[s]) /\ pending'[s][i + 1] = x
        BY <1>1, <1>2, <1>3, <1>5, <3>1 DEF FieldsOK
      <4> QED
        BY <4>1 DEF Pending
    <3>2. CASE s # s0
      BY <1>3, <3>2 DEF Pending, FieldsOK
    <3> QED
      BY <3>1, <3>2
  <2>4. ASSUME Pending(x)', x # g PROVE Pending(x)
    <3> PICK s \in Slots : \E i \in 1..Len(pending'[s]) : pending'[s][i] = x
      BY <2>4 DEF Pending
    <3> PICK i \in 1..Len(pending'[s]) : pending'[s][i] = x
      OBVIOUS
    <3>1. CASE s = s0
      <4>1. i \in 2..(Len(q0) + 1) /\ q0[i - 1] = x
        BY <1>1, <1>2, <1>3, <1>5, <3>1, <2>4 DEF FieldsOK
      <4>2. i - 1 \in 1..Len(q0)
        BY <4>1, <1>1
      <4> QED
        BY <4>1, <4>2, <1>1 DEF Pending
    <3>2. CASE s # s0
      BY <1>3, <3>2 DEF Pending, FieldsOK
    <3> QED
      BY <3>1, <3>2
  <2> QED
    BY <2>2, <2>3, <2>4
<1>7. FieldsOK'
  BY <1>1, <1>2, <1>3 DEF FieldsOK, Labels
<1>8. EngineOK'
  BY DEF FieldsOK, EngineOK, Inside, Labels
<1>9. ListOK'
  <2>1. \A x \in Groups, s \in Slots : GroupOK(x, s) => GroupOK(x, s)'
    BY DEF FieldsOK, EngineOK, GroupOK
  <2>2. GroupOK(g, s0)'
    BY DEF FieldsOK, EngineOK, CallerOK, GroupOK, Inside
  <2> SUFFICES ASSUME NEW s \in Slots, NEW i \in 1..Len(pending'[s])
               PROVE  /\ GroupOK(pending[s][i], s)'
                      /\ \A j \in 1..Len(pending'[s]) :
                           pending'[s][j] = pending'[s][i] => i = j
    BY DEF ListOK
  <2>3. CASE s # s0
    BY <2>1, <2>3, <1>3, Members DEF FieldsOK, ListOK
  <2>4. CASE s = s0
    <3>1. pending'[s] = <<g>> \o q0
      BY <1>1, <1>3, <2>4 DEF FieldsOK
    <3>2. \A j \in 1..Len(q0) : q0[j] # g /\ q0[j] \in Groups /\ GroupOK(q0[j], s0)
      BY <1>1, <1>4, Members DEF Pending, ListOK
    <3>3. \A j \in 1..Len(pending'[s]) :
            \/ j = 1 /\ pending'[s][j] = g
            \/ j - 1 \in 1..Len(q0) /\ pending'[s][j] = q0[j - 1]
      <4>1. q0 \in Seq(Groups) /\ g \in Groups
        BY <1>1 DEF FieldsOK
      <4>2. /\ Len(<<g>> \o q0) = Len(q0) + 1
            /\ \A j \in 1..(Len(q0) + 1) :
                 (<<g>> \o q0)[j] = IF j = 1 THEN g ELSE q0[j - 1]
        BY ONLY <4>1, SMT
      <4>3. Len(q0) \in Nat
        BY <4>1
      <4> QED
        BY ONLY <3>1, <4>2, <4>3, SMT
    <3>4. GroupOK(pending[s][i], s)'
      <4>1. CASE pending'[s][i] = g
        BY <4>1, <2>2, <2>4
      <4>2. CASE i - 1 \in 1..Len(q0) /\ pending'[s][i] = q0[i - 1]
        BY <4>2, <3>2, <2>1, <2>4, <1>1
      <4> QED
        BY <4>1, <4>2, <3>3
    <3>5. \A j, k \in 1..Len(q0) : q0[j] = q0[k] => j = k
      BY <1>1 DEF ListOK
    <3>6. ASSUME NEW j \in 1..Len(pending'[s]), pending'[s][j] = pending'[s][i]
          PROVE  i = j
      <4>1. CASE i = 1 \/ j = 1
        BY <4>1, <3>6, <3>3, <3>2
      <4>2. CASE i # 1 /\ j # 1
        <5>1. i - 1 \in 1..Len(q0) /\ j - 1 \in 1..Len(q0) /\ q0[i - 1] = q0[j - 1]
          BY <4>2, <3>6, <3>3
        <5>2. i - 1 = j - 1
          BY <5>1, <3>5
        <5> QED
          BY <5>2
      <4> QED
        BY <4>1, <4>2
    <3> QED
      BY <3>4, <3>6
  <2> QED
    BY <2>3, <2>4
<1>10. CallerOK'
  BY <1>6 DEF FieldsOK, CallerOK
<1>11. RanOK'
  BY <1>6 DEF FieldsOK, RanOK, HasRun
<1> QED
  BY <1>7, <1>8, <1>9, <1>10, <1>11

\* What the removal of a group does to the lists.  The list of the txg that is
\* synced holds no group of another txg, and no group whose caller is still in
\* the txg, because the txg is quiesced.
LEMMA RemoveOK ==
  ASSUME IInv, NEW g \in Groups, Remove(g)
  PROVE  /\ gtxg[g] = Syncing /\ gpc[g] \in {"waiting", "gone"}
         /\ err[g] = "ok" /\ g \notin freed /\ Pending(g)
         /\ pending' \in [Slots -> Seq(Groups)]
         /\ \A x \in Groups : Pending(x)' <=> Pending(x) /\ x # g
         /\ \A s \in Slots : \A i \in 1..Len(pending'[s]) :
              /\ pending'[s][i] # g /\ pending'[s][i] \in Groups
              /\ GroupOK(pending'[s][i], s)
              /\ \A j \in 1..Len(pending'[s]) : pending'[s][j] = pending'[s][i] => i = j
<1> USE DEF IInv, Remove, Current, Unlisted
<1> DEFINE s0 == Slot(Syncing)
           q0 == pending[s0]
<1>1. s0 \in Slots /\ q0 \in Seq(Groups) /\ q0 # << >>
  <2>1. Syncing \in Nat
    BY DEF EngineOK, Syncing
  <2> QED
    BY <2>1, SlotInRange DEF FieldsOK
<1>2. /\ Len(q0) \in Nat \ {0}
      /\ Head(q0) = q0[1]
      /\ Tail(q0) \in Seq(Groups)
      /\ Len(Tail(q0)) = Len(q0) - 1
      /\ \A i \in 1..(Len(q0) - 1) : Tail(q0)[i] = q0[i + 1]
  BY <1>1, Removing
<1>3. pending' = [pending EXCEPT ![s0] = Tail(q0)]
  BY <1>1 DEF FieldsOK
<1>4. pending' \in [Slots -> Seq(Groups)]
  BY <1>1, <1>2, <1>3 DEF FieldsOK
<1>5. 1 \in 1..Len(q0) /\ q0[1] = g
  BY <1>2
<1>6. GroupOK(g, s0) /\ Pending(g)
  BY <1>1, <1>5 DEF ListOK, Pending
<1>7. gtxg[g] = Syncing
  <2>1. gtxg[g] \in Nat
    BY DEF FieldsOK
  <2> QED
    BY <1>6, <2>1, SlotsDiffer DEF GroupOK
<1>8. gpc[g] \in {"waiting", "gone"}
  <2>1. gpc[g] = "listed" => <<g, Syncing>> \in holders
    BY <1>7 DEF EngineOK, Inside
  <2>2. ~(Syncing > Syncing)
    BY DEF EngineOK, Syncing
  <2> QED
    BY <1>6, <2>1, <2>2 DEF GroupOK, InSync
<1>9. \A s \in Slots : s # s0 => pending'[s] = pending[s]
  BY <1>3 DEF FieldsOK
<1>10. pending'[s0] = Tail(q0)
  BY <1>1, <1>3 DEF FieldsOK
<1> \A i \in 1..Len(pending'[s0]) :
      i + 1 \in 1..Len(q0) /\ i + 1 # 1 /\ pending'[s0][i] = q0[i + 1]
  <2> SUFFICES ASSUME NEW i \in 1..Len(Tail(q0))
               PROVE  i + 1 \in 1..Len(q0) /\ i + 1 # 1 /\ Tail(q0)[i] = q0[i + 1]
    BY <1>10
  <2>1. i \in 1..(Len(q0) - 1)
    BY <1>2
  <2>2. Tail(q0)[i] = q0[i + 1]
    BY <2>1, <1>2
  <2> QED
    BY <2>1, <2>2, <1>2
<1>11. \A s \in Slots : s # s0 => \A i \in 1..Len(pending[s]) : pending[s][i] # g
  BY <1>6 DEF GroupOK, ListOK
<1>12. \A i \in 1..Len(q0) : i # 1 => q0[i] # g
  BY <1>1, <1>5 DEF ListOK
<1>13. ASSUME NEW x \in Groups PROVE Pending(x)' <=> Pending(x) /\ x # g
  <2>1. ASSUME Pending(x)' PROVE Pending(x) /\ x # g
    <3> PICK s \in Slots : \E i \in 1..Len(pending'[s]) : pending'[s][i] = x
      BY <2>1 DEF Pending
    <3> PICK i \in 1..Len(pending'[s]) : pending'[s][i] = x
      OBVIOUS
    <3>1. CASE s = s0
      <4>1. i + 1 \in 1..Len(q0) /\ i + 1 # 1 /\ q0[i + 1] = x
        BY <3>1
      <4> QED
        BY <4>1, <1>1, <1>12 DEF Pending
    <3>2. CASE s # s0
      BY <1>9, <1>11, <3>2 DEF Pending
    <3> QED
      BY <3>1, <3>2
  <2>2. ASSUME Pending(x), x # g PROVE Pending(x)'
    <3> PICK s \in Slots : \E i \in 1..Len(pending[s]) : pending[s][i] = x
      BY <2>2 DEF Pending
    <3> PICK i \in 1..Len(pending[s]) : pending[s][i] = x
      OBVIOUS
    <3>1. CASE s = s0
      <4>1. i - 1 \in 1..(Len(q0) - 1) /\ (i - 1) + 1 = i
        BY <1>2, <1>5, <2>2, <3>1
      <4>2. Tail(q0)[i - 1] = x
        BY <4>1, <1>2, <3>1
      <4> QED
        BY <4>1, <4>2, <1>1, <1>2, <1>10 DEF Pending
    <3>2. CASE s # s0
      BY <1>9, <3>2 DEF Pending
    <3> QED
      BY <3>1, <3>2
  <2> QED
    BY <2>1, <2>2
<1>14. ASSUME NEW s \in Slots, NEW i \in 1..Len(pending'[s])
       PROVE  /\ pending'[s][i] # g /\ pending'[s][i] \in Groups
              /\ GroupOK(pending'[s][i], s)
              /\ \A j \in 1..Len(pending'[s]) : pending'[s][j] = pending'[s][i] => i = j
  <2>1. CASE s # s0
    BY <2>1, <1>9, <1>11, Members DEF ListOK
  <2>2. CASE s = s0
    <3>1. \A j \in 1..Len(pending'[s]) :
            j + 1 \in 1..Len(q0) /\ j + 1 # 1 /\ pending'[s][j] = q0[j + 1]
      BY <2>2
    <3>2. \A j \in 1..Len(q0) : q0[j] \in Groups /\ GroupOK(q0[j], s0)
      BY <1>1, Members DEF ListOK
    <3>3. pending'[s][i] # g /\ pending'[s][i] \in Groups /\ GroupOK(pending'[s][i], s)
      BY <2>2, <3>1, <3>2, <1>12
    <3>4. ASSUME NEW j \in 1..Len(pending'[s]), pending'[s][j] = pending'[s][i]
          PROVE  i = j
      <4>1. j + 1 = i + 1
        BY <3>1, <3>4, <1>1 DEF ListOK
      <4> QED
        BY <4>1
    <3> QED
      BY <3>3, <3>4
  <2> QED
    BY <2>1, <2>2
<1> QED
  BY <1>4, <1>6, <1>7, <1>8, <1>13, <1>14 DEF GroupOK

\* The lists stay good when a group is removed and the others do not change.
LEMMA ListRemoved ==
  ASSUME IInv, NEW g \in Groups, Remove(g),
         \A x \in Groups, s \in Slots : x # g /\ GroupOK(x, s) => GroupOK(x, s)'
  PROVE  ListOK'
<1> SUFFICES ASSUME NEW s \in Slots, NEW i \in 1..Len(pending'[s])
             PROVE  /\ GroupOK(pending[s][i], s)'
                    /\ \A j \in 1..Len(pending'[s]) :
                         pending'[s][j] = pending'[s][i] => i = j
  BY DEF ListOK
<1> QED
  BY RemoveOK

\* A group is taken off the list because there is no space for it.
LEMMA SyncNoSpaceIInv ==
  ASSUME IInv, NEW g \in Groups, NEW e \in {"ENOSPC", "ERESTART"}, SyncNoSpace(g, e)
  PROVE  IInv'
<1> USE DEF IInv, SyncNoSpace, SetErr, svc
<1>1. /\ gtxg[g] = Syncing /\ gpc[g] \in {"waiting", "gone"} /\ Pending(g)
      /\ pending' \in [Slots -> Seq(Groups)]
      /\ \A x \in Groups : Pending(x)' <=> Pending(x) /\ x # g
  BY RemoveOK
<1>2. FieldsOK'
  BY <1>1 DEF FieldsOK
<1>3. EngineOK'
  BY DEF EngineOK
<1>4. ListOK'
  <2>1. \A x \in Groups, s \in Slots : x # g /\ GroupOK(x, s) => GroupOK(x, s)'
    BY DEF FieldsOK, GroupOK
  <2> QED
    BY <2>1, ListRemoved
<1>5. err'[g] # "ok" /\ \A x \in Groups : x # g => err'[x] = err[x]
  BY DEF FieldsOK, SpaceErr
<1>6. CallerOK'
  BY <1>1, <1>5 DEF FieldsOK, CallerOK
<1>7. RanOK'
  BY <1>1, <1>5 DEF RanOK, HasRun
<1> QED
  BY <1>2, <1>3, <1>4, <1>6, <1>7

\* A group is taken off the list, checked and run.
LEMMA SyncRunIInv ==
  ASSUME IInv, NEW g \in Groups, SyncRun(g)
  PROVE  IInv'
<1> USE DEF IInv, svc
<1>1. Remove(g) /\ UNCHANGED <<svc, gpc, gtxg>>
  BY DEF SyncRun
<1>2. /\ gtxg[g] = Syncing /\ gpc[g] \in {"waiting", "gone"} /\ Pending(g)
      /\ pending' \in [Slots -> Seq(Groups)]
      /\ \A x \in Groups : Pending(x)' <=> Pending(x) /\ x # g
  BY <1>1, RemoveOK
<1>3. freed' \subseteq freed \cup {g} /\ (g \in freed' => g \in freed \/ g \in NoWait)
  BY DEF SyncRun
<1>4. PICK e \in SyncChecked(g) :
        /\ err' = [err EXCEPT ![g] = e]
        /\ ran' = ran \cup {x \in {<<g, Syncing>>} : e = "ok"}
  BY DEF SyncRun, SetErr
<1>5. err'[g] = e /\ \A x \in Groups : x # g => err'[x] = err[x]
  BY <1>4 DEF FieldsOK
<1>6. Syncing \in Nat /\ Syncing = floor + 1
  BY DEF EngineOK, Syncing
<1>7. FieldsOK'
  BY <1>1, <1>2, <1>3, <1>4 DEF FieldsOK
<1>8. EngineOK'
  BY <1>1 DEF EngineOK
<1>9. ListOK'
  <2>1. \A x \in Groups, s \in Slots : x # g /\ GroupOK(x, s) => GroupOK(x, s)'
    BY <1>1, <1>3, <1>5 DEF GroupOK
  <2> QED
    BY <2>1, <1>1, ListRemoved
<1>10. CallerOK'
  <2> SUFFICES ASSUME NEW x \in Groups PROVE
        /\ gpc[x] = "checked" => err'[x] = "ok"
        /\ gpc[x] = "failed" => err'[x] # "ok"
        /\ gpc[x] = "listed" => Pending(x)'
        /\ x \in NoWait => gpc[x] \in {"top", "assigned", "listed", "gone"}
        /\ x \in NoWait /\ gpc[x] \in {"top", "assigned"} => err'[x] = "ok"
        /\ x \in freed' => gpc[x] = "gone"
    BY <1>1 DEF CallerOK
  <2>1. CASE x = g
    BY <2>1, <1>2, <1>3 DEF CallerOK
  <2>2. CASE x # g
    BY <2>2, <1>2, <1>3, <1>5 DEF CallerOK
  <2> QED
    BY <2>1, <2>2
<1>11. RanOK'
  <2>1. ran' \subseteq Groups \X Nat
    BY <1>4, <1>6 DEF RanOK
  <2>2. ASSUME NEW x \in Groups, NEW t \in Nat, <<x, t>> \in ran'
        PROVE  t = gtxg[x] /\ HasRun(x)'
    <3>1. CASE <<x, t>> \in ran
      BY <3>1, <1>1, <1>2, <1>5 DEF RanOK, HasRun
    <3>2. CASE <<x, t>> \notin ran
      <4>1. x = g /\ t = Syncing /\ e = "ok"
        BY <3>2, <2>2, <1>4
      <4> QED
        BY <4>1, <1>1, <1>2, <1>5, <1>6 DEF HasRun
    <3> QED
      BY <3>1, <3>2
  <2>3. ASSUME NEW x \in Groups, gpc[x] = "waiting", err'[x] = "ok", ~Pending(x)'
        PROVE  <<x, gtxg[x]>> \in ran'
    <3>1. CASE x = g
      BY <3>1, <2>3, <1>2, <1>4, <1>5
    <3>2. CASE x # g
      BY <3>2, <2>3, <1>2, <1>4, <1>5 DEF RanOK
    <3> QED
      BY <3>1, <3>2
  <2>4. ASSUME NEW x \in Groups, gpc[x] = "returned", err'[x] = "ok"
        PROVE  <<x, gtxg[x]>> \in ran' /\ gtxg[x] <= floor
    BY <2>4, <1>2, <1>4, <1>5 DEF RanOK
  <2> QED
    BY <2>1, <2>2, <2>3, <2>4, <1>1 DEF RanOK
<1> QED
  BY <1>7, <1>8, <1>9, <1>10, <1>11

-----------------------------------------------------------------------------
(* The engine *)

\* Another txg is opened.
LEMMA OpenTxgIInv ==
  ASSUME IInv, OpenTxg
  PROVE  IInv'
<1> USE DEF IInv, OpenTxg, Engine!OpenNext, Engine!TXG_CONCURRENT_STATES
<1>1. FieldsOK'
  BY DEF FieldsOK
<1>2. EngineOK'
  BY DEF FieldsOK, EngineOK
<1>3. ListOK'
  <2>1. \A x \in Groups, s \in Slots : GroupOK(x, s) => GroupOK(x, s)'
    BY DEF FieldsOK, EngineOK, GroupOK
  <2> QED
    BY <2>1, ListKept
<1> \A x : Pending(x)' <=> Pending(x)
  BY DEF Pending
<1>4. CallerOK'
  BY DEF CallerOK
<1>5. RanOK'
  BY DEF RanOK, HasRun
<1> QED
  BY <1>1, <1>2, <1>3, <1>4, <1>5

\* The txg is committed: its list is empty.
LEMMA CommitTxgIInv ==
  ASSUME IInv, CommitTxg
  PROVE  IInv'
<1> USE DEF IInv, CommitTxg, Engine!Commit
<1>1. FieldsOK'
  BY DEF FieldsOK
<1>2. EngineOK'
  BY DEF FieldsOK, EngineOK
<1>3. ListOK'
  <2> SUFFICES ASSUME NEW s \in Slots, NEW i \in 1..Len(pending[s])
               PROVE  /\ GroupOK(pending[s][i], s)'
                      /\ \A j \in 1..Len(pending[s]) :
                           pending[s][j] = pending[s][i] => i = j
    BY DEF ListOK
  <2>1. pending[s][i] \in Groups /\ GroupOK(pending[s][i], s)
    BY Members DEF ListOK
  <2>2. gtxg[pending[s][i]] # Syncing
    BY <2>1 DEF GroupOK, Current
  <2>3. gtxg[pending[s][i]] > floor + 1
    BY <2>1, <2>2 DEF GroupOK, FieldsOK, EngineOK, Syncing
  <2>4. GroupOK(pending[s][i], s)'
    BY <2>1, <2>3 DEF GroupOK, FieldsOK, EngineOK
  <2> QED
    BY <2>4 DEF ListOK
<1> \A x : Pending(x)' <=> Pending(x)
  BY DEF Pending
<1>4. CallerOK'
  BY DEF CallerOK
<1>5. RanOK'
  BY DEF RanOK, HasRun, FieldsOK, EngineOK
<1> QED
  BY <1>1, <1>2, <1>3, <1>4, <1>5

-----------------------------------------------------------------------------
(* Theorems *)

\* The invariant is inductive.
THEOREM Invariance == Spec => []IInv
<1>1. ASSUME IInv, [Next]_vars PROVE IInv'
  <2>1. CASE OpenTxg
    BY <1>1, <2>1, OpenTxgIInv
  <2>2. CASE SyncStep
    BY <1>1, <2>2, CommitTxgIInv, SyncRunIInv DEF SyncStep
  <2>3. CASE SpaceStep
    BY <1>1, <2>3, SyncNoSpaceIInv DEF SpaceStep
  <2>4. ASSUME NEW g \in Groups, Assign(g) \/ CallerStep(g) PROVE IInv'
    BY <1>1, <2>4, AssignIInv, PrelimCheckIInv, ListAddIInv, TxCommitIInv,
       AgainIInv, ReturnIInv, DestroyIInv DEF CallerStep
  <2>5. CASE UNCHANGED vars
    <3> USE <1>1, <2>5 DEF vars, svc, IInv
    <3>1. FieldsOK' /\ EngineOK'
      BY DEF FieldsOK, EngineOK
    <3>2. ListOK'
      BY DEF ListOK, GroupOK
    <3>3. \A x : Pending(x)' <=> Pending(x)
      BY DEF Pending
    <3>4. CallerOK'
      BY <3>3 DEF CallerOK
    <3>5. RanOK'
      BY <3>3 DEF RanOK, HasRun
    <3> QED
      BY <3>1, <3>2, <3>4, <3>5
  <2> QED
    BY <1>1, <2>1, <2>2, <2>3, <2>4, <2>5 DEF Next
<1> QED
  BY <1>1, InitIInv, PTL DEF Spec

\* A group on the list is there once, is not freed and has no error when
\* dsl_sync_task_group_sync() takes it.
THEOREM PendingCorrect == Spec => []PendingIsLive
<1>1. IInv => PendingIsLive
  <2> SUFFICES ASSUME IInv, NEW s \in Slots, NEW r \in Slots, NEW i \in DOMAIN pending[s]
               PROVE  /\ \A j \in DOMAIN pending[r] :
                           pending[s][i] = pending[r][j] => s = r /\ i = j
                      /\ pending[s][i] \notin freed /\ err[pending[s][i]] = "ok"
    BY DEF PendingIsLive
  <2>1. DOMAIN pending[s] = 1..Len(pending[s]) /\ DOMAIN pending[r] = 1..Len(pending[r])
    BY DEF IInv, FieldsOK
  <2> QED
    BY <2>1 DEF IInv, ListOK, GroupOK
<1> QED
  BY <1>1, Invariance, PTL

\* A group is run in the txg that its caller entered, and after the caller has
\* left it.
THEOREM RunsCorrect == Spec => []RunsInItsTxg
<1>1. IInv => RunsInItsTxg
  BY DEF IInv, RanOK, HasRun, RunsInItsTxg
<1> QED
  BY <1>1, Invariance, PTL

\* dsl_sync_task_group_wait() returns 0 for a group that ran once, in a txg that
\* is on disk, and an error for one that never ran.
THEOREM ReturnCorrect == Spec => []ReturnTellsTruth
<1>1. IInv => ReturnTellsTruth
  <2> SUFFICES ASSUME IInv, NEW g \in Groups, gpc[g] = "returned"
               PROVE  LET runs == {t \in 0..open : <<g, t>> \in ran}
                      IN  IF err[g] = "ok" THEN \E t \in 0..floor : runs = {t}
                          ELSE runs = {}
    BY DEF ReturnTellsTruth
  <2> DEFINE runs == {t \in 0..open : <<g, t>> \in ran}
  <2>1. \A t \in runs : t = gtxg[g] /\ err[g] = "ok"
    BY DEF IInv, RanOK, HasRun
  <2>2. CASE err[g] = "ok"
    <3>1. gtxg[g] \in 0..floor /\ gtxg[g] \in runs
      BY <2>2 DEF IInv, RanOK, FieldsOK, EngineOK
    <3>2. runs = {gtxg[g]}
      BY <3>1, <2>1
    <3> QED
      BY <2>2, <3>1, <3>2
  <2>3. CASE err[g] # "ok"
    BY <2>1, <2>3
  <2> QED
    BY <2>2, <2>3
<1> QED
  BY <1>1, Invariance, PTL
-----------------------------------------------------------------------------
(* Snapshots *)

\* The functions of the tasks are those of Snapshot.
SnapshotFunctions ==
  /\ \A k, t, p : CheckFunc(k, t, p) = SnapshotCheck(k, t, p)
  /\ \A k, t, p : SyncFunc(k, t, p) = SnapshotSync(k, t, p)
  /\ PoolInit = NoSnapshots

\* A set of numbers that is not empty has a least element.
LEMMA Least ==
  ASSUME NEW S \in SUBSET Nat, S # {}
  PROVE  \E x \in S : \A y \in S : x <= y
<1>1. \E x \in S : \A y \in S : ~(<<y, x>> \in OpToRel(<, Nat))
  BY WFMin, NatLessThanWellFounded
<1>2. \A x, y \in S : ~(<<y, x>> \in OpToRel(<, Nat)) => x <= y
  BY DEF OpToRel
<1> QED
  BY <1>1, <1>2

\* The configuration after task i of D has run, if p is the one before.
AfterTask(g, D, i, p) == IF i \in D THEN SyncFunc(TasksOf[g][i], Syncing, p) ELSE p

\* f[i] is the configuration after the first i tasks.
Configurations(f, g, D, n) ==
  f = [i \in 0..n |-> IF i = 0 THEN pool ELSE AfterTask(g, D, i, f[i - 1])]

\* The recursion of Applied has a solution.
LEMMA ConfigurationsExist ==
  ASSUME NEW g, NEW D, NEW n \in Nat
  PROVE  \E f : Configurations(f, g, D, n)
<1> DEFINE S == {m \in Nat : ~\E f : Configurations(f, g, D, m)}
<1> SUFFICES ASSUME S # {} PROVE FALSE
  OBVIOUS
<1>1. PICK m \in S : \A y \in S : m <= y
  <2>1. S \in SUBSET Nat
    OBVIOUS
  <2> HIDE DEF S
  <2> QED
    BY <2>1, Least
<1>2. CASE m = 0
  <2>1. PICK f : f = [i \in 0..0 |-> pool]
    OBVIOUS
  <2>2. f = [i \in 0..0 |-> IF i = 0 THEN pool ELSE AfterTask(g, D, i, f[i - 1])]
    BY <2>1
  <2>3. Configurations(f, g, D, 0)
    BY <2>2 DEF Configurations
  <2> QED
    BY <1>1, <1>2, <2>3
<1>3. CASE m # 0
  <2>1. m - 1 \in Nat /\ m \in Nat /\ m - 1 \notin S
    BY <1>1, <1>3
  <2>2. PICK f : Configurations(f, g, D, m - 1)
    BY <2>1
  <2>3. PICK b : b = AfterTask(g, D, m, f[m - 1])
    OBVIOUS
  <2>4. PICK h : h = [i \in 0..m |-> IF i = m THEN b ELSE f[i]]
    OBVIOUS
  <2>5. \A i \in 0..(m - 1) : f[i] = IF i = 0 THEN pool ELSE AfterTask(g, D, i, f[i - 1])
    BY <2>2, Zenon DEF Configurations
  <2>6. \A i \in 0..(m - 1) : i \in 0..m /\ i # m
    BY <2>1
  <2>7. \A i \in 0..(m - 1) : h[i] = f[i]
    BY <2>4, <2>6
  <2>8. h[m] = b /\ m - 1 \in 0..(m - 1) /\ m \in 0..m
    BY <2>1, <2>4
  <2>9. \A i \in 0..m : h[i] = IF i = 0 THEN pool ELSE AfterTask(g, D, i, h[i - 1])
    <3> SUFFICES ASSUME NEW i \in 0..m
                 PROVE  h[i] = IF i = 0 THEN pool ELSE AfterTask(g, D, i, h[i - 1])
      OBVIOUS
    <3>1. CASE i = m
      BY <1>3, <2>3, <2>7, <2>8, <3>1
    <3>2. CASE i # m
      <4>1. i \in 0..(m - 1) /\ (i # 0 => i - 1 \in 0..(m - 1))
        BY <2>1, <3>2
      <4> QED
        BY <2>5, <2>7, <4>1
    <3> QED
      BY <3>1, <3>2
  <2>10. h = [i \in 0..m |-> h[i]]
    BY <2>4
  <2>11. h = [i \in 0..m |-> IF i = 0 THEN pool ELSE AfterTask(g, D, i, h[i - 1])]
    BY ONLY <2>9, <2>10
  <2>12. Configurations(h, g, D, m)
    BY <2>11 DEF Configurations
  <2> QED
    BY <1>1, <2>12
<1> QED
  BY <1>2, <1>3

\* Applied runs the sync functions of D one after the other.
LEMMA AppliedIs ==
  ASSUME NEW g \in Groups, NEW D
  PROVE  \E f : /\ Applied(g, D) = f[Len(TasksOf[g])]
                /\ f[0] = pool
                /\ \A i \in Tasks(g) : f[i] = AfterTask(g, D, i, f[i - 1])
<1>n. PICK n : n = Len(TasksOf[g])
  OBVIOUS
<1>N. n \in Nat /\ Tasks(g) = 1..n
  BY <1>n, TasksAssumption
<1>1. PICK f : f = CHOOSE h : Configurations(h, g, D, n)
  OBVIOUS
<1>2. Configurations(f, g, D, n)
  <2>1. \E h : Configurations(h, g, D, n)
    BY <1>N, ConfigurationsExist
  <2> QED
    BY ONLY <1>1, <2>1, Zenon
<1>3. Applied(g, D) = f[n]
  BY <1>n, <1>1, Zenon DEF Applied, Configurations, AfterTask
<1>4. \A i \in 0..n : f[i] = IF i = 0 THEN pool ELSE AfterTask(g, D, i, f[i - 1])
  BY <1>2, Zenon DEF Configurations
<1>5. 0 \in 0..n /\ \A i \in 1..n : i \in 0..n /\ i # 0
  BY <1>N
<1> QED
  BY <1>n, <1>N, <1>3, <1>4, <1>5

\* A group that passes adds its snapshots to the pool.
LEMMA AppliedSnapshots ==
  ASSUME SnapshotFunctions, NEW g \in Groups
  PROVE  /\ Applied(g, {}) = pool
         /\ Applied(g, Tasks(g)) = pool \cup SnapshotsOf(g, Syncing)
<1>n. PICK n : n = Len(TasksOf[g])
  OBVIOUS
<1>N. n \in Nat /\ Tasks(g) = 1..n
  BY <1>n, TasksAssumption
<1>p. PICK p, T : p = pool /\ T = Syncing
  OBVIOUS
<1> DEFINE Made(i) == {<<TasksOf[g][k], T>> : k \in {j \in 1..i : TasksOf[g][j].ds # NoDataset}}
<1>1. Applied(g, {}) = pool
  <2>d. PICK D : D = {}
    OBVIOUS
  <2>0. PICK f : /\ Applied(g, D) = f[Len(TasksOf[g])] /\ f[0] = pool
                 /\ \A i \in Tasks(g) : f[i] = AfterTask(g, D, i, f[i - 1])
    BY AppliedIs
  <2>1. /\ Applied(g, {}) = f[n] /\ f[0] = pool
        /\ \A i \in 1..n : f[i] = f[i - 1]
    BY <1>n, <1>N, <2>d, <2>0 DEF AfterTask
  <2> DEFINE S == {i \in 0..n : f[i] # p}
  <2>2. ASSUME S # {} PROVE FALSE
    <3>1. S \in SUBSET Nat
      BY <1>N
    <3>2. PICK k \in S : \A y \in S : k <= y
      <4> HIDE DEF S
      <4> QED
        BY <2>2, <3>1, Least
    <3>3. k # 0
      BY <2>1, <1>p
    <3>4. k - 1 \in 0..n /\ k \in 1..n /\ k - 1 \notin S
      BY <3>2, <3>3, <1>N
    <3> QED
      BY <3>2, <3>4, <2>1
  <2>3. n \in 0..n
    BY <1>N
  <2> QED
    BY <2>1, <2>2, <2>3, <1>p
<1>2. Applied(g, Tasks(g)) = p \cup Made(n)
  <2>1. PICK f : /\ Applied(g, Tasks(g)) = f[n] /\ f[0] = pool
                 /\ \A i \in 1..n : f[i] = SyncFunc(TasksOf[g][i], Syncing, f[i - 1])
    BY <1>n, <1>N, AppliedIs DEF AfterTask
  <2>2. \A i \in 1..n : f[i] = IF TasksOf[g][i].ds = NoDataset THEN f[i - 1]
                               ELSE f[i - 1] \cup {<<TasksOf[g][i], T>>}
    BY <2>1, <1>p DEF SnapshotFunctions, SnapshotSync
  <2> DEFINE S == {i \in 0..n : f[i] # p \cup Made(i)}
  <2>3. ASSUME S # {} PROVE FALSE
    <3>1. S \in SUBSET Nat
      BY <1>N
    <3>2. PICK k \in S : \A y \in S : k <= y
      <4> HIDE DEF S
      <4> QED
        BY <2>3, <3>1, Least
    <3>3. k # 0
      <4>1. Made(0) = {}
        OBVIOUS
      <4> QED
        BY <4>1, <2>1, <1>p
    <3>4. k - 1 \in 0..n /\ k \in 1..n /\ k - 1 \notin S
      BY <3>2, <3>3, <1>N
    <3>5. f[k - 1] = p \cup Made(k - 1)
      BY <3>4
    <3>6. \A j : j \in 1..k <=> j \in 1..(k - 1) \/ j = k
      BY <3>4, <1>N
    <3>7. Made(k) = IF TasksOf[g][k].ds = NoDataset THEN Made(k - 1)
                    ELSE Made(k - 1) \cup {<<TasksOf[g][k], T>>}
      BY ONLY <3>6, Zenon
    <3>8. f[k] = p \cup Made(k)
      <4> HIDE DEF Made
      <4> QED
        BY <2>2, <3>4, <3>5, <3>7
    <3> QED
      BY <3>2, <3>8
  <2>4. n \in 0..n
    BY <1>N
  <2> QED
    BY <2>1, <2>3, <2>4
<1>3. Made(n) = SnapshotsOf(g, Syncing)
  BY <1>N, <1>p DEF SnapshotsOf
<1> QED
  BY <1>1, <1>2, <1>3, <1>p

\* The snapshots are those of the groups that ran, they have txgs, and they are
\* distinct.
SnapInv ==
  /\ SnapshotsExact
  /\ \A s \in pool : s[2] \in Nat
  /\ SnapshotsDistinct

\* dsl_sync_task_group_sync() makes snapshots only if every check has passed on
\* the pool as it is now: they are newer than the others of their datasets and
\* have other names, and they are of different datasets.
LEMMA SyncRunSnapInv ==
  ASSUME SnapshotFunctions, IInv, SnapInv, NEW g \in Groups, SyncRun(g)
  PROVE  SnapInv'
<1>p. PICK p, T, N : p = pool /\ T = Syncing /\ N = SnapshotsOf(g, Syncing)
  OBVIOUS
<1>T. T \in Nat
  BY <1>p DEF IInv, EngineOK, Syncing
<1>1. PICK e \in SyncChecked(g) :
        /\ pool' = Applied(g, ToRun(g, e))
        /\ ran' = ran \cup {x \in {<<g, Syncing>>} : e = "ok"}
  BY DEF SyncRun
<1>2. CASE e # "ok"
  <2>1. pool' = pool /\ ran' = ran
    BY <1>1, <1>2, AppliedSnapshots DEF ToRun
  <2> QED
    BY <2>1 DEF SnapInv, SnapshotsExact, SnapshotsDistinct
<1>3. CASE e = "ok"
  <2>1. pool' = p \cup N /\ ran' = ran \cup {<<g, T>>}
    <3>1. Applied(g, ToRun(g, e)) = pool \cup SnapshotsOf(g, Syncing)
      BY <1>3, AppliedSnapshots DEF ToRun
    <3> QED
      BY <1>p, <1>1, <1>3, <3>1
  <2>2. \A i \in Tasks(g) : "ok" \in SnapshotCheck(TasksOf[g][i], T, p)
    <3>1. \A i \in Tasks(g) : i >= 1 => "ok" \in CheckFunc(TasksOf[g][i], Syncing, pool)
      BY <1>1, <1>3 DEF SyncChecked, Checked
    <3>2. \A i \in Tasks(g) : i >= 1
      BY TasksAssumption
    <3> QED
      BY <3>1, <3>2, <1>p DEF SnapshotFunctions
  <2>3. \A i \in Tasks(g) : TasksOf[g][i].ds # NoDataset =>
          \A s \in p : s[1].ds = TasksOf[g][i].ds =>
            ~(s[2] >= T) /\ s[1].name # TasksOf[g][i].name
    <3> SUFFICES ASSUME NEW i \in Tasks(g), TasksOf[g][i].ds # NoDataset,
                        NEW s \in p, s[1].ds = TasksOf[g][i].ds
                 PROVE  ~(s[2] >= T) /\ s[1].name # TasksOf[g][i].name
      OBVIOUS
    <3>1. "ok" \in SnapshotCheck(TasksOf[g][i], T, p)
      BY <2>2
    <3> QED
      BY <3>1, Zenon DEF SnapshotCheck
  <2>4. \A s \in N : \E i \in Tasks(g) : TasksOf[g][i].ds # NoDataset /\ s = <<TasksOf[g][i], T>>
    BY <1>p DEF SnapshotsOf
  <2>5. \A s \in p : s[2] \in Nat
    BY <1>p DEF SnapInv
  <2>6. \A s \in p, r \in N : s[1].ds = r[1].ds => s[1].name # r[1].name /\ s[2] # r[2]
    <3> SUFFICES ASSUME NEW s \in p, NEW r \in N, s[1].ds = r[1].ds
                 PROVE  s[1].name # r[1].name /\ s[2] # r[2]
      OBVIOUS
    <3>1. PICK i \in Tasks(g) : TasksOf[g][i].ds # NoDataset /\ r = <<TasksOf[g][i], T>>
      BY <2>4
    <3>2. r[1] = TasksOf[g][i] /\ r[2] = T
      BY <3>1
    <3>3. ~(s[2] >= T) /\ s[1].name # TasksOf[g][i].name /\ s[2] \in Nat
      BY <2>3, <2>5, <3>1, <3>2
    <3> QED
      BY <1>T, <3>2, <3>3
  <2>7. \A s, r \in N : s[1].ds = r[1].ds => s = r
    <3> SUFFICES ASSUME NEW s \in N, NEW r \in N, s[1].ds = r[1].ds
                 PROVE  s = r
      OBVIOUS
    <3>1. PICK i \in Tasks(g) : TasksOf[g][i].ds # NoDataset /\ s = <<TasksOf[g][i], T>>
      BY <2>4
    <3>2. PICK j \in Tasks(g) : TasksOf[g][j].ds # NoDataset /\ r = <<TasksOf[g][j], T>>
      BY <2>4
    <3>3. TasksOf[g][i].ds = TasksOf[g][j].ds
      BY <3>1, <3>2
    <3>4. i = j
      BY <3>1, <3>3, TasksAssumption
    <3> QED
      BY <3>1, <3>2, <3>4
  <2>8. \A s \in N : s[2] \in Nat
    BY <2>4, <1>T
  <2>9. SnapshotsExact'
    <3>1. SnapshotsOf(g, T) = N /\ <<g, T>>[1] = g /\ <<g, T>>[2] = T
      BY <1>p
    <3>2. p = UNION {SnapshotsOf(x[1], x[2]) : x \in ran}
      BY <1>p DEF SnapInv, SnapshotsExact
    <3>3. p \cup N = UNION {SnapshotsOf(x[1], x[2]) : x \in ran \cup {<<g, T>>}}
      BY ONLY <3>1, <3>2
    <3> QED
      BY <2>1, <3>3 DEF SnapshotsExact, SnapshotsOf
  <2>10. SnapshotsDistinct'
    <3>1. \A s, r \in p : s[1].ds = r[1].ds /\ s # r => s[1].name # r[1].name /\ s[2] # r[2]
      BY <1>p DEF SnapInv, SnapshotsDistinct
    <3>2. \A s, r \in p \cup N :
            s[1].ds = r[1].ds /\ s # r => s[1].name # r[1].name /\ s[2] # r[2]
      BY ONLY <3>1, <2>6, <2>7, Zenon
    <3> QED
      BY <2>1, <3>2 DEF SnapshotsDistinct
  <2> QED
    BY <2>1, <2>5, <2>8, <2>9, <2>10 DEF SnapInv
<1> QED
  BY <1>2, <1>3

LEMMA SnapInvariance ==
  ASSUME SnapshotFunctions
  PROVE  Spec => []SnapInv
<1>1. Init => SnapInv
  BY DEF Init, SnapInv, SnapshotsExact, SnapshotsDistinct, SnapshotFunctions, NoSnapshots
<1>2. ASSUME IInv, SnapInv, [Next]_vars PROVE SnapInv'
  <2>1. ASSUME NEW g \in Groups, SyncRun(g) PROVE SnapInv'
    BY <1>2, <2>1, SyncRunSnapInv
  <2>2. CASE pool' = pool /\ ran' = ran
    BY <1>2, <2>2 DEF SnapInv, SnapshotsExact, SnapshotsDistinct, SnapshotsOf
  <2>3. CASE OpenTxg \/ CommitTxg \/ SpaceStep
    BY <2>2, <2>3 DEF OpenTxg, CommitTxg, SpaceStep, SyncNoSpace
  <2>4. ASSUME NEW g \in Groups, Assign(g) \/ CallerStep(g) PROVE SnapInv'
    BY <2>2, <2>4 DEF Assign, CallerStep, PrelimCheck, ListAdd, TxCommit, Again, Return,
       Destroy
  <2>5. CASE UNCHANGED vars
    BY <2>2, <2>5 DEF vars
  <2> QED
    BY <1>2, <2>1, <2>3, <2>4, <2>5 DEF Next, SyncStep
<1> QED
  BY <1>1, <1>2, Invariance, PTL DEF Spec

\* No dataset gets two snapshots with one name or two in one txg, whatever the
\* groups are and however stale the checks of dsl_sync_task_group_wait() are: the
\* ASSERTs in dsl_dataset_snapshot_sync() hold.
THEOREM SnapshotsCorrect ==
  ASSUME SnapshotFunctions
  PROVE  Spec => []SnapshotsDistinct
<1>1. SnapInv => SnapshotsDistinct
  BY DEF SnapInv
<1> QED
  BY <1>1, SnapInvariance, PTL

\* The pool has the snapshots of all datasets of the groups that ran, and no
\* others.
THEOREM SnapshotsComplete ==
  ASSUME SnapshotFunctions
  PROVE  Spec => []SnapshotsExact
<1>1. SnapInv => SnapshotsExact
  BY DEF SnapInv
<1> QED
  BY <1>1, SnapInvariance, PTL

\* When dsl_sync_task_group_wait() returns for a recursive snapshot, either all of
\* its datasets have theirs, of one txg that is on disk, or none has.
THEOREM SnapshotsReturned ==
  ASSUME SnapshotFunctions
  PROVE  Spec => []SnapshotsTaken
<1>1. IInv /\ SnapInv => SnapshotsTaken
  <2> SUFFICES ASSUME IInv, SnapInv, NEW g \in Groups, gpc[g] = "returned"
               PROVE  IF err[g] = "ok" THEN \E t \in 0..floor : MadeBy(g) = SnapshotsOf(g, t)
                      ELSE MadeBy(g) = {}
    BY DEF SnapshotsTaken
  <2>0. PICK t : t = gtxg[g]
    OBVIOUS
  <2>1. PICK x : x = <<g, t>>
    OBVIOUS
  <2>2. pool = UNION {SnapshotsOf(y[1], y[2]) : y \in ran}
    BY DEF SnapInv, SnapshotsExact
  <2>3. \A s \in MadeBy(g) : s \in SnapshotsOf(g, t) /\ err[g] = "ok"
    <3> SUFFICES ASSUME NEW s \in MadeBy(g)
                 PROVE  s \in SnapshotsOf(g, t) /\ err[g] = "ok"
      OBVIOUS
    <3>1. PICK i \in Tasks(g) : s[1] = TasksOf[g][i]
      BY DEF MadeBy
    <3>2. PICK y \in ran : s \in SnapshotsOf(y[1], y[2])
      BY <2>2 DEF MadeBy
    <3>3. y \in Groups \X Nat
      BY DEF IInv, RanOK
    <3>4. PICK h \in Groups, r \in Nat : y = <<h, r>> /\ y[1] = h /\ y[2] = r
      BY <3>3
    <3>5. PICK j \in Tasks(h) : TasksOf[h][j].ds # NoDataset /\ s = <<TasksOf[h][j], r>>
      BY <3>2, <3>4 DEF SnapshotsOf
    <3>6. h = g
      BY <3>1, <3>5, OwnTasksAssumption
    <3>7. r = gtxg[h] /\ err[h] = "ok"
      BY <3>4 DEF IInv, RanOK, HasRun
    <3> QED
      BY <2>0, <3>2, <3>4, <3>6, <3>7
  <2>4. ASSUME err[g] = "ok" PROVE SnapshotsOf(g, t) \subseteq MadeBy(g) /\ t \in 0..floor
    <3>1. x \in ran /\ t \in 0..floor
      BY <2>0, <2>1, <2>4 DEF IInv, RanOK, FieldsOK, EngineOK
    <3>2. SnapshotsOf(g, t) \subseteq pool
      <4>1. x[1] = g /\ x[2] = t
        BY <2>1
      <4> QED
        BY ONLY <2>2, <3>1, <4>1
    <3>3. \A s \in SnapshotsOf(g, t) : \E i \in Tasks(g) : s[1] = TasksOf[g][i]
      BY DEF SnapshotsOf
    <3> QED
      BY <3>1, <3>2, <3>3 DEF MadeBy
  <2>5. CASE err[g] = "ok"
    <3>1. MadeBy(g) = SnapshotsOf(g, t) /\ t \in 0..floor
      BY <2>3, <2>4, <2>5
    <3> QED
      BY <2>5, <3>1
  <2>6. CASE err[g] # "ok"
    BY <2>3, <2>6
  <2> QED
    BY <2>5, <2>6
<1> QED
  BY <1>1, Invariance, SnapInvariance, PTL
=============================================================================

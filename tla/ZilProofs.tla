----------------------------- MODULE ZilProofs -----------------------------
(***************************************************************************)
(* Proofs about Zil, for any number of threads, records, log blocks, txgs, *)
(* suspensions and failures.                                               *)
(***************************************************************************)
EXTENDS Zil, FiniteSetTheorems, WellFoundedInduction, TLAPS

-----------------------------------------------------------------------------
(* The log as a set *)

WriterLabels == {"create", "createwait", "fill", "bigwait", "zio", "finish"}
CallLabels == {"commit", "cvwait", "woken"} \cup WriterLabels
FirstLabels == CallLabels \cup {"drain", "destroy"}
Labels == {"idle", "tx", "suspwait", "suspended"} \cup FirstLabels

Blks == [dva : DVAs, guid : Nat \ {0}, num : Nat \ {0}]
Ptrs == Blks \cup {Hole}
Idle == {"none", "done"}
InFlight == {"io", "released", "failed"}
Lwbs ==
  [blk : Blks, recs : SUBSET Nat, next : Ptrs, buf : BOOLEAN, maxTxg : Nat,
   zio : Idle \cup InFlight \cup {"init"}]

\* the writer is at one of the positions of L
At(L) == writer # Nobody /\ pc[writer] \in L
Working == At({"fill", "bigwait", "zio"})

\* All lwbs whose blocks are allocated in the last synced txg or later: the ones
\* freed since, those of the list, and the one that an empty log keeps.
Kept == IF lwbs = << >> /\ zh # Hole /\ destroyTxg <= floor THEN {Lwb(zh, 0)} ELSE {}
Alive == Members(lwbs) \cup Kept
Chain == dead \cup Alive

Birth(w) == space[w.blk.dva].birth
FreedIn(w) == space[w.blk.dva].freed
On(w) == disk[w.blk.dva]

SameChain(v, w) == v.blk.guid = w.blk.guid
Before(v, w) == SameChain(v, w) /\ v.blk.num < w.blk.num

\* the txg that the header in memory is about
Upto == IF synced THEN floor + 1 ELSE floor

-----------------------------------------------------------------------------
(* The inductive invariant *)

TypeInv ==
  /\ open \in Nat /\ floor \in Nat /\ 3 <= floor /\ Upto < open
  /\ dirtied \subseteq Nat \X Nat /\ holders \subseteq (Callers \cup DVAs) \X Nat
  /\ pc \in [Callers -> Labels] /\ until \in [Callers -> Nat]
  /\ seq \in [Callers -> 0..Len(itxs)] /\ foid \in [Callers -> Files \cup {AnyFile}]
  /\ itxs \in Seq([file : Files \cup {AnyFile}, txg : Nat]) /\ itxList \subseteq Seqs
  /\ lwbs \in Seq(Lwbs) /\ dead \subseteq Lwbs
  /\ writer \in Callers \cup {Nobody} /\ commitSeq \in 0..Len(itxs)
  /\ wlwb \in BOOLEAN /\ root \in BOOLEAN /\ logError \in BOOLEAN
  /\ wnext \in {-1} \cup 0..Len(itxs) /\ wcommit \in 0..Len(itxs)
  /\ destroyTxg \in Nat /\ suspend \in Nat /\ suspending \in BOOLEAN
  /\ zh \in Ptrs /\ zhDisk \in Ptrs /\ synced \in BOOLEAN
  /\ space \in [DVAs -> [birth : Nat, freed : Nat]] /\ chain \in Nat \ {0}
  /\ disk \in [DVAs -> [blk : Ptrs, recs : SUBSET Nat, next : Ptrs,
                        stable : BOOLEAN, bad : BOOLEAN]]
  /\ promised \subseteq Seqs

\* Where the callers are.
CallerInv ==
  /\ \A c \in Callers : pc[c] \in WriterLabels <=> c = writer
  /\ \A c \in Threads : pc[c] \in {"idle", "tx"} \cup CallLabels
  /\ \A c \in Suspenders : pc[c] # "tx"
  /\ \A c \in Callers : pc[c] = "tx" => until[c] <= open
  /\ \A c \in Callers : pc[c] = "destroy" => until[c] = destroyTxg
  /\ suspend = Cardinality({c \in Suspenders : pc[c] # "idle"})
  /\ \A c, d \in Suspenders : pc[c] \in FirstLabels =>
       suspending /\ pc[d] # "suspended" /\ (pc[d] \in FirstLabels => c = d)

\* What the writer has.
WriterInv ==
  /\ wlwb => writer # Nobody /\ lwbs # << >>
  /\ At({"create"}) => lwbs = << >>
  /\ At({"createwait"}) =>
       /\ <<0, until[writer]>> \in dirtied /\ until[writer] <= open
       /\ IF wlwb THEN lwbs = <<Lwb(lwbs[1].blk, until[writer])>>
                          /\ Birth(lwbs[1]) = until[writer]
          ELSE lwbs = << >>

\* Suspensions and destroys.
Quiet == (suspend > 0 /\ ~suspending) \/ \E c \in Suspenders : pc[c] = "destroy"

QuietInv ==
  /\ Quiet => /\ ~wlwb /\ ~At({"create", "createwait", "bigwait"})
              /\ \A w \in Alive : w.zio \in Idle
  /\ suspend > 0 /\ ~suspending => lwbs = << >> /\ (zh = Hole \/ destroyTxg > floor)
  /\ destroyTxg <= open
  /\ destroyTxg > floor =>
       /\ lwbs = << >> /\ <<0, destroyTxg>> \in dirtied /\ ~At({"createwait"})
       /\ synced /\ destroyTxg = floor + 1 => zh = Hole

\* Allocation: every block has one lwb.
SpaceInv ==
  /\ \A w \in Alive : Birth(w) > 0 /\ FreedIn(w) = 0
  /\ \A w \in dead : /\ Birth(w) > 0 /\ FreedIn(w) > floor
                     /\ FreedIn(w) = destroyTxg \/ (synced /\ FreedIn(w) = floor + 1)
                     /\ w.zio \in Idle
  /\ \A v, w \in Chain : v.blk.dva = w.blk.dva => v = w
  /\ \A d \in DVAs : space[d].birth # 0 /\ space[d].freed \notin 1..floor =>
       \E w \in Chain : w.blk.dva = d
  /\ \A d \in DVAs : space[d].birth <= open

\* The links between the lwbs.
LinkInv ==
  /\ \A i \in DOMAIN lwbs :
       /\ lwbs[i].blk.guid = lwbs[1].blk.guid /\ lwbs[i].blk.num = lwbs[1].blk.num + i - 1
       /\ lwbs[i].next = IF i = Len(lwbs) THEN Hole ELSE lwbs[i + 1].blk
       /\ i < Len(lwbs) => lwbs[i].zio \in InFlight \cup {"done"}
  /\ \A w \in Chain : w.blk.guid <= chain
  /\ \A w \in Chain : w.next # Hole => \E v \in Chain : v.blk = w.next
  /\ \A w \in Chain : w.next # Hole =>
       w.next.guid = w.blk.guid /\ w.next.num = w.blk.num + 1 /\ w.zio \notin {"none", "init"}
  /\ \A v, w \in Chain : Before(v, w) => v.next # Hole
  /\ \A v, w \in Chain : SameChain(v, w) /\ v.blk.num = w.blk.num => v = w
  /\ \A v \in dead, w \in Alive : SameChain(v, w) => Before(v, w)
  /\ \A v, w \in dead : Before(v, w) => FreedIn(v) <= FreedIn(w)

\* The headers lead to the first lwb that is not freed by their txg.
HeadInv ==
  /\ ~synced => zhDisk = zh
  /\ lwbs # << >> => zh = lwbs[1].blk \/ (zh = Hole /\ At({"createwait"}))
  /\ At({"createwait"}) /\ wlwb => zh # Hole \/ until[writer] > Upto
  /\ At({"createwait"}) /\ wlwb => zhDisk = lwbs[1].blk \/ until[writer] > floor
  /\ zhDisk # Hole =>
       /\ \E w \in Chain : w.blk = zhDisk
       /\ \A w \in Chain : w.blk.guid = zhDisk.guid => w.blk.num >= zhDisk.num
  /\ zh # Hole =>
       /\ \E w \in Chain : w.blk = zh /\ FreedIn(w) \notin 1..Upto
       /\ \A w \in Chain : FreedIn(w) \notin 1..Upto /\ w.blk.guid = zh.guid =>
            w.blk.num >= zh.num
  /\ \A w \in Chain : w.blk.guid = zhDisk.guid \/ (At({"createwait"}) /\ wlwb /\ w = lwbs[1])
  /\ \A w \in Chain : FreedIn(w) \notin 1..Upto =>
       w.blk.guid = zh.guid \/ (At({"createwait"}) /\ wlwb /\ w = lwbs[1])

\* Where the writes of the lwbs are, and what is on disk.
Match(w) == On(w).blk = w.blk /\ On(w).recs = w.recs /\ On(w).next = w.next

WriteInv ==
  /\ \A w \in Chain : w.buf <=> w.zio # "done"
  /\ \A w \in Chain : w.zio = "none" => w.recs = {}
  /\ \A w \in Chain : w.zio = "init" => wlwb /\ root /\ At({"fill", "bigwait"}) /\ w = Last(lwbs)
  /\ \A w \in Chain : w.zio \in InFlight => root /\ Working
  /\ wlwb => Last(lwbs).zio \in {"none", "init", "done"}
  /\ \A w \in Chain : w.zio = "io" =>
       \E h \in holders : h[1] = w.blk.dva /\ (w.next # Hole => h[2] <= space[w.next.dva].birth)

DiskInv ==
  /\ \A w \in Chain : w.zio \in {"released", "done"} => On(w).bad \/ Match(w)
  /\ \A w \in Chain : w.zio = "failed" => On(w).bad
  /\ \A w \in Chain : On(w).blk = w.blk => Match(w) /\ w.zio \in {"released", "failed", "done"}
  /\ \A d \in DVAs : disk[d].blk # Hole => disk[d].blk.guid <= chain
  /\ \A d \in DVAs, w \in Chain : disk[d].blk # Hole /\ disk[d].blk.guid = w.blk.guid =>
       disk[d].blk.num <= w.blk.num \/ w.next # Hole
  /\ \A w \in Chain : w.zio \in {"released", "done"} /\ w.next # Hole =>
       On(w).bad \/ On(w).stable \/ (root /\ Working)

\* Blocks are allocated in the order of the log, and one that is allocated in a
\* synced txg comes after blocks that are written.
BirthInv ==
  \A v, w \in Chain : Before(v, w) =>
    /\ Birth(v) <= Birth(w)
    /\ Birth(w) <= floor => v.zio \in {"released", "failed", "done"}

\* The records.
Sealed(w) ==
  \A v \in Chain : v = w \/ Before(v, w) =>
    v.zio = "done" /\ (On(v).bad \/ (On(v).stable /\ v.next # Hole))
Logged(n) == \E w \in Chain : n \in w.recs
Settled(n) == n \in Durable \/ \E w \in Chain : n \in w.recs /\ Sealed(w)

RecInv ==
  /\ \A n \in Seqs : itxs[n].txg <= open
  /\ \A w \in Chain : w.maxTxg <= open
  /\ \A w \in Chain : \A n \in w.recs :
       n \in Seqs /\ n \notin itxList /\ itxs[n].txg <= w.maxTxg
  /\ \A w \in dead : w.maxTxg <= FreedIn(w)
  /\ \A n \in Seqs : n \notin itxList =>
       \/ Settled(n)
       \/ At({"bigwait", "finish"}) /\ itxs[n].txg <= until[writer]
       \/ Working /\ (Logged(n) \/ ~wlwb)

\* The loop of the writer, and what was promised.
Filling == {"create", "createwait", "fill", "bigwait"}

LoopInv ==
  /\ At(Filling) => \A n \in itxList : Matches(n, foid[writer]) =>
       IF wnext = -1 THEN n > seq[writer] ELSE n >= wnext
  /\ At({"zio", "finish"}) => \A n \in itxList : Matches(n, foid[writer]) => n > seq[writer]
  /\ At({"zio", "finish"}) => \A n \in itxList : n >= wcommit
  /\ \A n \in Seqs : n < commitSeq => Settled(n)
  /\ \A n \in promised : Settled(n)

\* The order of the records in the log.
OrderInv ==
  \A w \in Chain : \A n \in w.recs : \A m \in 1..(n - 1) :
    itxs[m].file \in {itxs[n].file, AnyFile} =>
      m \in Durable \/ \E v \in Chain : m \in v.recs /\ (v = w \/ Before(v, w))

IInv ==
  /\ TypeInv /\ CallerInv /\ WriterInv /\ QuietInv /\ SpaceInv /\ LinkInv /\ HeadInv
  /\ WriteInv /\ DiskInv /\ BirthInv /\ RecInv /\ LoopInv /\ OrderInv

-----------------------------------------------------------------------------
(* Numbers, lwbs and the positions of callers *)

\* A set of numbers that is not empty has a least element.
LEMMA Least ==
  ASSUME NEW S \in SUBSET Nat, S # {}
  PROVE  /\ \E x \in S : \A y \in S : x <= y
         /\ MinOf(S) \in S /\ \A y \in S : MinOf(S) <= y
<1>1. \E x \in S : \A y \in S : ~(<<y, x>> \in OpToRel(<, Nat))
  BY WFMin, NatLessThanWellFounded
<1>2. \A x, y \in S : ~(<<y, x>> \in OpToRel(<, Nat)) => x <= y
  BY DEF OpToRel
<1> QED
  BY <1>1, <1>2 DEF MinOf

LEMMA Names ==
  /\ Nobody \notin DVAs /\ Nobody \notin Callers /\ Threads \cup Suspenders = Callers
  /\ Threads \cap Suspenders = {} /\ Callers \cap DVAs = {}
  BY NamesAssumption DEF Callers

LEMMA HoleIs == \A b \in Blks : b # Hole /\ b.dva \in DVAs /\ b.guid \in Nat /\ b.num \in Nat
  BY Names DEF Blks, Hole

LEMMA BlkIs ==
  ASSUME NEW d \in DVAs, NEW g \in Nat \ {0}, NEW n \in Nat \ {0}
  PROVE  /\ Blk(d, g, n) \in Blks /\ Blk(d, g, n) # Hole
         /\ Blk(d, g, n).dva = d /\ Blk(d, g, n).guid = g /\ Blk(d, g, n).num = n
  BY Names DEF Blks, Blk, Hole

LEMMA LwbIs ==
  ASSUME NEW b \in Blks, NEW t \in Nat
  PROVE  /\ Lwb(b, t) \in Lwbs /\ Lwb(b, t).blk = b /\ Lwb(b, t).recs = {}
         /\ Lwb(b, t).next = Hole /\ Lwb(b, t).buf /\ Lwb(b, t).maxTxg = t
         /\ Lwb(b, t).zio = "none"
  BY DEF Lwbs, Lwb, Ptrs, Idle

LEMMA LwbFields ==
  ASSUME NEW w \in Lwbs
  PROVE  /\ w.blk \in Blks /\ w.blk # Hole /\ w.blk.dva \in DVAs
         /\ w.blk.guid \in Nat \ {0} /\ w.blk.num \in Nat \ {0}
         /\ w.recs \subseteq Nat /\ w.next \in Ptrs /\ w.buf \in BOOLEAN /\ w.maxTxg \in Nat
         /\ w.zio \in {"none", "init", "io", "released", "failed", "done"}
  BY HoleIs DEF Lwbs, Blks, Idle, InFlight

\* The members of the log.
LEMMA MembersIs ==
  ASSUME NEW S, NEW s \in Seq(S)
  PROVE  /\ Members(s) = {s[i] : i \in 1..Len(s)} /\ Members(s) \subseteq S
         /\ s = << >> => Members(s) = {}
         /\ s # << >> => Len(s) \in Nat \ {0} /\ Last(s) = s[Len(s)] /\ Last(s) \in Members(s)
                         /\ s[1] \in Members(s)
  BY DEF Members, Last

LEMMA ChainType ==
  ASSUME TypeInv
  PROVE  /\ Alive \subseteq Lwbs /\ dead \subseteq Lwbs /\ Chain \subseteq Lwbs
         /\ Members(lwbs) \subseteq Alive /\ Alive \subseteq Chain /\ dead \subseteq Chain
         /\ lwbs # << >> => Alive = Members(lwbs)
<1>1. Members(lwbs) \subseteq Lwbs
  BY MembersIs DEF TypeInv
<1>2. Kept \subseteq Lwbs
  <2>1. zh # Hole => zh \in Blks
    BY DEF TypeInv, Ptrs
  <2> QED
    BY <2>1, LwbIs DEF Kept
<1>3. dead \subseteq Lwbs
  BY DEF TypeInv
<1> QED
  BY <1>1, <1>2, <1>3 DEF Chain, Alive, Kept

LEMMA Positions ==
  ASSUME TypeInv, CallerInv, NEW c \in Callers, pc[c] \in WriterLabels
  PROVE  /\ writer = c /\ writer # Nobody /\ \A L : At(L) <=> pc[c] \in L
  BY Names DEF CallerInv, At

-----------------------------------------------------------------------------
(* What the operations do to lwbs *)

LEMMA InitedIs ==
  ASSUME NEW w \in Lwbs
  PROVE  /\ Inited(w) \in Lwbs /\ Inited(w).blk = w.blk /\ Inited(w).recs = w.recs
         /\ Inited(w).next = w.next /\ Inited(w).buf = w.buf /\ Inited(w).maxTxg = w.maxTxg
         /\ Inited(w).zio = IF w.zio = "none" THEN "init" ELSE w.zio
  BY DEF Inited, Lwbs

LEMMA ItxIs ==
  ASSUME TypeInv, NEW n \in Seqs
  PROVE  n \in Nat /\ n >= 1 /\ n <= Len(itxs) /\ itxs[n].txg \in Nat /\ itxs[n].file \in Files \cup {AnyFile}
<1>1. itxs \in Seq([file : Files \cup {AnyFile}, txg : Nat])
  BY DEF TypeInv
<1>2. n \in 1..Len(itxs) /\ Len(itxs) \in Nat
  BY <1>1 DEF Seqs
<1>3. itxs[n] \in [file : Files \cup {AnyFile}, txg : Nat]
  <2> DEFINE S == [file : Files \cup {AnyFile}, txg : Nat]
  <2>1. itxs \in Seq(S)
    BY <1>1
  <2> HIDE DEF S
  <2>2. itxs[n] \in S
    BY <1>2, <2>1
  <2> QED
    BY <2>2 DEF S
<1> QED
  BY <1>2, <1>3

LEMMA CopiedIs ==
  ASSUME TypeInv, NEW w \in Lwbs, NEW n \in Seqs
  PROVE  /\ Copied(w, n) \in Lwbs /\ Copied(w, n).blk = w.blk /\ Copied(w, n).recs = w.recs \cup {n}
         /\ Copied(w, n).next = w.next /\ Copied(w, n).buf = w.buf /\ Copied(w, n).zio = w.zio
         /\ Copied(w, n).maxTxg \in {w.maxTxg, itxs[n].txg}
         /\ w.maxTxg <= Copied(w, n).maxTxg /\ itxs[n].txg <= Copied(w, n).maxTxg
<1>1. itxs[n].txg \in Nat /\ n \in Nat
  BY ItxIs
<1>2. w.maxTxg \in Nat
  BY LwbFields
<1> DEFINE t == IF w.maxTxg < itxs[n].txg THEN itxs[n].txg ELSE w.maxTxg
<1>3. Copied(w, n) = [w EXCEPT !.recs = w.recs \cup {n}, !.maxTxg = t]
  BY DEF Copied
<1>4. t \in Nat /\ t \in {w.maxTxg, itxs[n].txg} /\ w.maxTxg <= t /\ itxs[n].txg <= t
  BY <1>1, <1>2
<1> HIDE DEF t
<1> DEFINE r == w.recs \cup {n}
<1>5. r \in SUBSET Nat
  BY <1>1, LwbFields
<1> HIDE DEF r
<1>6. Copied(w, n) = [w EXCEPT !.recs = r, !.maxTxg = t]
  BY <1>3 DEF r
<1>7. /\ Copied(w, n) \in Lwbs /\ Copied(w, n).blk = w.blk /\ Copied(w, n).recs = r
      /\ Copied(w, n).next = w.next /\ Copied(w, n).buf = w.buf /\ Copied(w, n).zio = w.zio
      /\ Copied(w, n).maxTxg = t
  BY <1>4, <1>5, <1>6 DEF Lwbs
<1> QED
  BY <1>4, <1>7 DEF r

\* the block after that of w, at d
NextBlk(w, d) == IF d = Nobody THEN Hole ELSE Blk(d, w.blk.guid, w.blk.num + 1)
InIo(w, d) == [w EXCEPT !.zio = "io", !.next = NextBlk(w, d)]

LEMMA NextBlkIs ==
  ASSUME NEW w \in Lwbs, NEW d \in DVAs \cup {Nobody}
  PROVE  /\ NextBlk(w, d) \in Ptrs
         /\ d = Nobody => NextBlk(w, d) = Hole
         /\ d # Nobody => /\ NextBlk(w, d) \in Blks /\ NextBlk(w, d) # Hole /\ NextBlk(w, d).dva = d
                          /\ NextBlk(w, d).guid = w.blk.guid
                          /\ NextBlk(w, d).num = w.blk.num + 1
  BY LwbFields, BlkIs, Names DEF NextBlk, Ptrs

LEMMA InIoIs ==
  ASSUME NEW w \in Lwbs, NEW d \in DVAs \cup {Nobody}
  PROVE  /\ InIo(w, d) \in Lwbs /\ InIo(w, d).blk = w.blk /\ InIo(w, d).recs = w.recs
         /\ InIo(w, d).next = NextBlk(w, d) /\ InIo(w, d).buf = w.buf
         /\ InIo(w, d).maxTxg = w.maxTxg /\ InIo(w, d).zio = "io"
<1>1. NextBlk(w, d) \in Ptrs
  BY NextBlkIs
<1> QED
  BY <1>1 DEF InIo, Lwbs, InFlight

\* zil_lwb_write_start(): the last lwb is written, and there is a new one.
LEMMA StartedIs ==
  ASSUME NEW L \in Seq(Lwbs), L # << >>, NEW d \in DVAs \cup {Nobody}, open \in Nat
  PROVE  /\ d = Nobody => Started(L, d) = SetLast(L, InIo(Last(L), d))
         /\ d # Nobody => Started(L, d) = Append(SetLast(L, InIo(Last(L), d)), Lwb(NextBlk(Last(L), d), open))
         /\ SetLast(L, InIo(Last(L), d)) \in Seq(Lwbs) /\ Started(L, d) \in Seq(Lwbs)
         /\ Len(SetLast(L, InIo(Last(L), d))) = Len(L)
<1>1. Last(L) \in Lwbs
  BY MembersIs
<1>2. InIo(Last(L), d) \in Lwbs /\ (d # Nobody => Lwb(NextBlk(Last(L), d), open) \in Lwbs)
  BY <1>1, InIoIs, NextBlkIs, LwbIs
<1>3. Started(L, d) = IF d = Nobody THEN SetLast(L, InIo(Last(L), d))
                      ELSE Append(SetLast(L, InIo(Last(L), d)), Lwb(NextBlk(Last(L), d), open))
  BY DEF Started, InIo, NextBlk
<1>4. SetLast(L, InIo(Last(L), d)) \in Seq(Lwbs) /\ Len(SetLast(L, InIo(Last(L), d))) = Len(L)
  BY <1>2 DEF SetLast
<1> QED
  BY <1>2, <1>3, <1>4

\* The next record that is pushed.
LEMMA PushableIs ==
  ASSUME TypeInv, NEW c \in Callers, Pushable(c) # {}
  PROVE  /\ MinOf(Pushable(c)) \in Pushable(c) /\ MinOf(Pushable(c)) \in Seqs
         /\ MinOf(Pushable(c)) \in itxList /\ Matches(MinOf(Pushable(c)), foid[c]) /\ wnext # -1
         /\ \A m \in Pushable(c) : MinOf(Pushable(c)) <= m
<1>1. Pushable(c) \subseteq itxList /\ itxList \subseteq Nat /\ itxList \subseteq Seqs
  BY DEF Pushable, TypeInv, Seqs
<1>2. Pushable(c) \in SUBSET Nat
  BY <1>1
<1>3. MinOf(Pushable(c)) \in Pushable(c) /\ \A m \in Pushable(c) : MinOf(Pushable(c)) <= m
  BY <1>2, Least
<1> QED
  BY <1>1, <1>3 DEF Pushable

-----------------------------------------------------------------------------
(* Steps that leave the log alone *)

LogSame == UNCHANGED <<floor, lwbs, dead, zh, zhDisk, synced, space, chain, destroyTxg>>

\* Nothing is written; caches may be flushed.
DiskKept ==
  \A d \in DVAs :
    /\ disk'[d].blk = disk[d].blk /\ disk'[d].recs = disk[d].recs /\ disk'[d].next = disk[d].next
    /\ disk'[d].bad = disk[d].bad /\ (disk[d].stable => disk'[d].stable)

WriterSame ==
  /\ UNCHANGED <<writer, wvars>>
  /\ writer # Nobody =>
       /\ pc'[writer] = pc[writer] /\ until'[writer] = until[writer]
       /\ seq'[writer] = seq[writer] /\ foid'[writer] = foid[writer]

ItxsKept == Seqs \subseteq Seqs' /\ \A n \in Seqs : itxs'[n] = itxs[n]

LEMMA SameLog ==
  ASSUME LogSame
  PROVE  Chain' = Chain /\ Alive' = Alive /\ Upto' = Upto
  BY DEF LogSame, Chain, Alive, Kept, Upto

LEMMA SameAt ==
  ASSUME WriterSame
  PROVE  (\A L : At(L)' <=> At(L)) /\ (Working' <=> Working)
  BY DEF WriterSame, At, Working

LEMMA FrameSpace ==
  ASSUME TypeInv, SpaceInv, LogSame, open' \in Nat, open <= open'
  PROVE  SpaceInv'
<1>1. Chain' = Chain /\ Alive' = Alive
  BY SameLog
<1>2. \A d \in DVAs : space[d].birth <= open'
  <2>1. \A d \in DVAs : space[d].birth <= open /\ space[d].birth \in Nat
    BY DEF SpaceInv, TypeInv
  <2> QED
    BY <2>1 DEF TypeInv
<1> QED
  BY <1>1, <1>2 DEF SpaceInv, LogSame, Birth, FreedIn

LEMMA FrameLink ==
  ASSUME TypeInv, LinkInv, LogSame
  PROVE  LinkInv'
<1>1. Chain' = Chain /\ Alive' = Alive
  BY SameLog
<1> QED
  BY <1>1 DEF LinkInv, LogSame, SameChain, Before, FreedIn

LEMMA FrameBirth ==
  ASSUME TypeInv, BirthInv, LogSame
  PROVE  BirthInv'
<1>1. Chain' = Chain
  BY SameLog
<1>2. \A w : Birth(w)' = Birth(w) /\ floor' = floor
  BY DEF LogSame, Birth
<1> QED
  BY <1>1, <1>2 DEF BirthInv, SameChain, Before

LEMMA OnKept ==
  ASSUME TypeInv, DiskKept, NEW w \in Chain
  PROVE  /\ On(w)'.blk = On(w).blk /\ On(w)'.bad = On(w).bad /\ (Match(w)' <=> Match(w))
         /\ (On(w).stable => On(w)'.stable)
<1>1. w.blk.dva \in DVAs
  BY ChainType, LwbFields
<1> QED
  BY <1>1 DEF DiskKept, On, Match

LEMMA FrameDisk ==
  ASSUME TypeInv, DiskInv, LogSame, DiskKept, WriterSame
  PROVE  DiskInv'
<1>1. Chain' = Chain /\ (Working' <=> Working) /\ root' = root /\ chain' = chain
  BY SameLog, SameAt DEF WriterSame, wvars, LogSame
<1>2. \A d \in DVAs : disk'[d].blk = disk[d].blk
  BY DEF DiskKept
<1> QED
  BY <1>1, <1>2, OnKept DEF DiskInv

LEMMA FrameWriter ==
  ASSUME TypeInv, WriterInv, WriteInv, LogSame, WriterSame, open' \in Nat, open <= open',
         dirtied \subseteq dirtied', \A h \in holders : h[1] \in DVAs => h \in holders'
  PROVE  WriterInv' /\ WriteInv'
<1>1. /\ Chain' = Chain /\ (Working' <=> Working) /\ (\A L : At(L)' <=> At(L))
      /\ lwbs' = lwbs /\ wlwb' = wlwb /\ writer' = writer /\ root' = root
      /\ space' = space
  BY SameLog, SameAt DEF WriterSame, wvars, LogSame
<1>2. At({"createwait"}) => /\ until'[writer] = until[writer] /\ until[writer] \in Nat
                            /\ (until[writer] <= open => until[writer] <= open')
  BY DEF At, WriterSame, TypeInv
<1>3. \A w \in Chain : w.blk.dva \in DVAs
  BY ChainType, LwbFields
<1>4. WriterInv'
  BY <1>1, <1>2 DEF WriterInv, Birth
<1>5. WriteInv'
  BY <1>1, <1>3 DEF WriteInv
<1> QED
  BY <1>4, <1>5

LEMMA FrameHead ==
  ASSUME TypeInv, HeadInv, LogSame, WriterSame
  PROVE  HeadInv'
<1>1. /\ Chain' = Chain /\ (\A L : At(L)' <=> At(L)) /\ Upto' = Upto /\ floor' = floor
      /\ lwbs' = lwbs /\ wlwb' = wlwb /\ writer' = writer /\ zh' = zh /\ zhDisk' = zhDisk
      /\ space' = space /\ synced' = synced
  BY SameLog, SameAt DEF WriterSame, wvars, LogSame
<1>2. At({"createwait"}) => until'[writer] = until[writer]
  BY DEF At, WriterSame
<1> QED
  BY <1>1, <1>2 DEF HeadInv, FreedIn

\* What is settled stays settled.
LEMMA FrameSettled ==
  ASSUME TypeInv, LogSame, DiskKept, ItxsKept
  PROVE  /\ \A w \in Chain : Sealed(w) => Sealed(w)'
         /\ Durable \subseteq Durable'
         /\ \A n : Settled(n) => Settled(n)'
         /\ \A n : Logged(n)' <=> Logged(n)
<1>1. Chain' = Chain
  BY SameLog
<1>2. \A w \in Chain : Sealed(w) => Sealed(w)'
  BY <1>1, OnKept DEF Sealed, SameChain, Before
<1>3. Durable \subseteq Durable'
  BY DEF Durable, ItxsKept, LogSame
<1> QED
  BY <1>1, <1>2, <1>3 DEF Settled, Logged

LEMMA FrameOrder ==
  ASSUME TypeInv, RecInv, OrderInv, LogSame, DiskKept, ItxsKept
  PROVE  OrderInv'
<1>1. Chain' = Chain /\ Durable \subseteq Durable'
  BY SameLog, FrameSettled
<1>2. ASSUME NEW w \in Chain, NEW n \in w.recs, NEW m \in 1..(n - 1)
      PROVE  itxs'[m] = itxs[m] /\ itxs'[n] = itxs[n]
  <2>1. n \in Seqs /\ n \in Nat /\ n <= Len(itxs) /\ Len(itxs) \in Nat
    <3>1. n \in Seqs
      BY DEF RecInv
    <3>2. n \in Nat /\ n <= Len(itxs)
      BY <3>1, ItxIs
    <3>3. Len(itxs) \in Nat
      BY DEF TypeInv
    <3> QED
      BY <3>1, <3>2, <3>3
  <2>2. m \in Seqs
    BY <2>1 DEF Seqs
  <2> QED
    BY <2>1, <2>2 DEF ItxsKept
<1> QED
  BY <1>1, <1>2 DEF OrderInv, SameChain, Before

LEMMA FrameRec ==
  ASSUME TypeInv, RecInv, LogSame, DiskKept, ItxsKept, WriterSame, open' \in Nat, open <= open',
         \A n \in Seqs' : itxs'[n].txg <= open',
         \A n \in Seqs : n \in itxList' => n \in itxList,
         \A n \in Seqs' : n \notin itxList' => n \in Seqs /\ (n \notin itxList \/ n \in Durable)
  PROVE  RecInv'
<1>1. /\ Chain' = Chain /\ (Working' <=> Working) /\ (\A L : At(L)' <=> At(L))
      /\ wlwb' = wlwb /\ writer' = writer /\ space' = space /\ dead' = dead
  BY SameLog, SameAt DEF WriterSame, wvars, LogSame
<1>2. \A w \in Chain : w.maxTxg \in Nat /\ w.maxTxg <= open /\ open \in Nat
  BY ChainType, LwbFields DEF RecInv, TypeInv
<1>3. \A w \in Chain : w.maxTxg <= open'
  BY <1>2
<1>4. \A w \in Chain : \A n \in w.recs : n \in Seqs /\ n \in Seqs' /\ itxs'[n] = itxs[n]
  BY DEF RecInv, ItxsKept
<1>5. \A n \in Seqs : itxs'[n] = itxs[n] /\ (Settled(n) => Settled(n)') /\ (Logged(n)' <=> Logged(n))
                      /\ (n \in Durable => Settled(n))
  BY FrameSettled DEF ItxsKept, Settled
<1>6. At({"bigwait", "finish"}) => until'[writer] = until[writer]
  BY DEF At, WriterSame
<1>7. ASSUME NEW n \in Seqs', n \notin itxList'
      PROVE  \/ Settled(n)'
             \/ At({"bigwait", "finish"})' /\ itxs'[n].txg <= until'[writer']
             \/ Working' /\ (Logged(n)' \/ ~wlwb')
  <2>1. n \in Seqs /\ (n \notin itxList \/ n \in Durable)
    BY <1>7
  <2> QED
    BY <2>1, <1>1, <1>5, <1>6 DEF RecInv
<1>8. \A w \in Chain : \A n \in w.recs : n \in Seqs' /\ n \notin itxList' /\ itxs'[n].txg <= w.maxTxg
  BY <1>4 DEF RecInv
<1>9. \A w \in dead : w.maxTxg <= FreedIn(w)'
  BY <1>1 DEF RecInv, FreedIn
<1> QED
  BY <1>1, <1>3, <1>7, <1>8, <1>9 DEF RecInv

LEMMA FrameLoop ==
  ASSUME TypeInv, LoopInv, LogSame, DiskKept, ItxsKept, WriterSame, commitSeq' = commitSeq,
         \A n \in Seqs : n \in itxList' => n \in itxList,
         \A n \in itxList' : n \in Seqs \/ n > Len(itxs), itxList' \subseteq Nat,
         \A n \in promised' : n \in promised \/ Settled(n),
         \A n \in Seqs' : n \in Seqs \/ n > Len(itxs)
  PROVE  LoopInv'
<1>1. /\ (\A L : At(L)' <=> At(L)) /\ writer' = writer /\ wnext' = wnext /\ wcommit' = wcommit
  BY SameAt DEF WriterSame, wvars
<1>2. writer # Nobody => seq'[writer] = seq[writer] /\ foid'[writer] = foid[writer] /\ seq[writer] \in 0..Len(itxs)
  BY DEF WriterSame, TypeInv
<1>3. \A n : Settled(n) => Settled(n)'
  BY FrameSettled
<1>4. \A n \in Seqs : \A f : (f = AnyFile \/ itxs'[n].file \in {f, AnyFile}) <=> Matches(n, f)
  BY DEF Matches, ItxsKept
<1>5. Len(itxs) \in Nat /\ wcommit \in 0..Len(itxs) /\ wnext \in {-1} \cup 0..Len(itxs) /\ commitSeq \in 0..Len(itxs)
  BY DEF TypeInv
<1>6. ASSUME NEW n \in itxList', foid[writer] = AnyFile \/ itxs'[n].file \in {foid[writer], AnyFile},
             At(Filling)
      PROVE  IF wnext = -1 THEN n > seq[writer] ELSE n >= wnext
  <2>1. writer # Nobody
    BY <1>6 DEF At
  <2>2. CASE n \in Seqs
    BY <1>2, <1>4, <1>6, <2>1, <2>2 DEF LoopInv
  <2>3. CASE n > Len(itxs)
    BY <1>2, <1>5, <2>1, <2>3
  <2> QED
    BY <2>2, <2>3
<1>7. ASSUME NEW n \in itxList', At({"zio", "finish"})
      PROVE  /\ n >= wcommit
             /\ (foid[writer] = AnyFile \/ itxs'[n].file \in {foid[writer], AnyFile}) => n > seq[writer]
  <2>1. writer # Nobody
    BY <1>7 DEF At
  <2>2. CASE n \in Seqs
    BY <1>2, <1>4, <1>7, <2>1, <2>2 DEF LoopInv
  <2>3. CASE n > Len(itxs)
    <3>1. n \in Nat
      OBVIOUS
    <3> QED
      BY ONLY <1>2, <1>5, <2>1, <2>3, <3>1
  <2> QED
    BY <2>2, <2>3
<1>8. \A n \in Seqs' : n < commitSeq => Settled(n)'
  <2> SUFFICES ASSUME NEW n \in Seqs', n < commitSeq PROVE Settled(n)'
    OBVIOUS
  <2>1. n \in Seqs
    <3>1. n \in Nat
      BY DEF Seqs
    <3> QED
      BY <1>5, <3>1
  <2> QED
    BY <2>1, <1>3 DEF LoopInv
<1>9. \A n \in promised' : Settled(n)'
  BY <1>3 DEF LoopInv
<1> QED
  <2>1. (At(Filling) \/ At({"zio", "finish"})) => writer # Nobody
    BY DEF At
  <2> QED
    BY <1>1, <1>2, <1>6, <1>7, <1>8, <1>9, <2>1 DEF LoopInv, Matches

-----------------------------------------------------------------------------
(* Steps of callers and of the engine that leave the log alone *)

Frame ==
  /\ LogSame /\ UNCHANGED <<disk, commitSeq>> /\ WriterSame /\ ItxsKept
  /\ open' \in Nat /\ open <= open' /\ dirtied \subseteq dirtied'
  /\ \A h \in holders : h[1] \in DVAs => h \in holders'
  /\ \A n \in Seqs' : itxs'[n].txg <= open' /\ (n \in Seqs \/ n > Len(itxs))
  /\ itxList' \subseteq Seqs' /\ \A n \in Seqs : n \in itxList' => n \in itxList
  /\ \A n \in Seqs' : n \notin itxList' => n \in Seqs /\ (n \notin itxList \/ n \in Durable)
  /\ \A n \in promised' : n \in promised \/ Settled(n)

LEMMA FrameStep ==
  ASSUME IInv, Frame
  PROVE  /\ WriterInv' /\ SpaceInv' /\ LinkInv' /\ HeadInv' /\ WriteInv' /\ DiskInv' /\ BirthInv'
         /\ RecInv' /\ LoopInv' /\ OrderInv'
<1>1. DiskKept
  BY DEF Frame, DiskKept
<1>2. itxList' \subseteq Nat /\ \A n \in itxList' : n \in Seqs \/ n > Len(itxs)
  <2>1. itxList' \subseteq Seqs' /\ \A n \in Seqs' : n \in Seqs \/ n > Len(itxs)
    BY DEF Frame
  <2>2. Seqs' \subseteq Nat
    BY DEF Seqs
  <2> QED
    BY ONLY <2>1, <2>2
<1>3. LoopInv'
  BY <1>1, <1>2, FrameLoop DEF IInv, Frame
<1>4. RecInv' /\ OrderInv'
  BY <1>1, FrameRec, FrameOrder DEF IInv, Frame
<1>5. SpaceInv' /\ LinkInv' /\ BirthInv' /\ DiskInv'
  BY <1>1, FrameSpace, FrameLink, FrameBirth, FrameDisk DEF IInv, Frame
<1>6. WriterInv' /\ HeadInv' /\ WriteInv'
  BY FrameWriter, FrameHead DEF IInv, Frame
<1> QED
  BY <1>3, <1>4, <1>5, <1>6

\* No write is in flight without a writer.
LEMMA NoWriter ==
  ASSUME TypeInv, WriteInv, ~Working, NEW w \in Chain
  PROVE  w.zio \in Idle
<1>1. w.zio \in {"none", "init", "io", "released", "failed", "done"}
  BY ChainType, LwbFields
<1>2. At({"fill", "bigwait"}) => Working
  BY DEF At, Working
<1> QED
  BY <1>1, <1>2 DEF WriteInv, InFlight, Idle

LEMMA FrameQuiet ==
  ASSUME IInv, Frame, Quiet' => Quiet \/ writer = Nobody,
         suspend' > 0 /\ ~suspending' => suspend > 0 /\ ~suspending
  PROVE  QuietInv'
<1>1. /\ Chain' = Chain /\ Alive' = Alive /\ (\A L : At(L)' <=> At(L)) /\ lwbs' = lwbs /\ zh' = zh
      /\ wlwb' = wlwb /\ destroyTxg' = destroyTxg /\ floor' = floor /\ synced' = synced
  BY SameLog, SameAt DEF Frame, WriterSame, wvars, LogSame
<1>2. destroyTxg <= open'
  BY DEF IInv, TypeInv, QuietInv, Frame
<1>3. ASSUME writer = Nobody
      PROVE  ~wlwb /\ ~At({"create", "createwait", "bigwait"}) /\ \A w \in Alive : w.zio \in Idle
  BY <1>3, NoWriter, ChainType DEF IInv, WriterInv, At, Working
<1>4. Quiet' => ~wlwb /\ ~At({"create", "createwait", "bigwait"}) /\ \A w \in Alive : w.zio \in Idle
  BY <1>3 DEF IInv, QuietInv
<1>5. dirtied \subseteq dirtied'
  BY DEF Frame
<1> QED
  BY <1>1, <1>2, <1>4, <1>5 DEF IInv, QuietInv

LEMMA CountSame ==
  ASSUME TypeInv, CallerInv, suspend' = suspend,
         \A c \in Suspenders : pc'[c] = "idle" <=> pc[c] = "idle"
  PROVE  suspend' = Cardinality({c \in Suspenders : pc'[c] # "idle"})
<1>1. {c \in Suspenders : pc'[c] # "idle"} = {c \in Suspenders : pc[c] # "idle"}
  OBVIOUS
<1> QED
  BY <1>1 DEF CallerInv

\* What a caller that is not the writer leaves alone.
LEMMA OtherCaller ==
  ASSUME TypeInv, CallerInv, NEW c \in Callers, pc[c] \notin WriterLabels,
         UNCHANGED <<writer, wvars>>,
         \A d \in Callers : pc[d] \in WriterLabels => pc'[d] = pc[d],
         \A d \in Callers : d # c => until'[d] = until[d] /\ seq'[d] = seq[d] /\ foid'[d] = foid[d]
  PROVE  WriterSame
  BY DEF WriterSame, CallerInv, TypeInv

LEMMA BeginStep ==
  ASSUME IInv, NEW c \in Threads, Begin(c)
  PROVE  IInv'
<1>c. c \in Callers /\ c \notin Suspenders
  BY Names
<1>1. /\ pc[c] = "idle" /\ pc' = [pc EXCEPT ![c] = "tx"] /\ until' = [until EXCEPT ![c] = open]
      /\ holders' = holders \cup {<<c, open>>}
      /\ UNCHANGED <<open, floor, dirtied, durable, seq, foid, itxs, itxList, lwbs, writer,
                     commitSeq, wvars, logError, destroyTxg, suspend, suspending, zh, zhDisk,
                     synced, space, chain, disk, promised, dead>>
  BY DEF Begin, Goto, SetUntil, Engine!Enter, call, susp, header, pool
<1>2. TypeInv'
  <2>1. pc' \in [Callers -> Labels] /\ until' \in [Callers -> Nat]
    BY <1>1, <1>c DEF IInv, TypeInv, Labels
  <2>2. holders' \subseteq (Callers \cup DVAs) \X Nat
    BY <1>1, <1>c DEF IInv, TypeInv
  <2> QED
    BY <1>1, <2>1, <2>2 DEF IInv, TypeInv, wvars, Upto, Seqs
<1>3. CallerInv'
  <2>1. \A d \in Suspenders : pc'[d] = pc[d]
    BY <1>1, <1>c DEF IInv, TypeInv
  <2>2. suspend' = Cardinality({d \in Suspenders : pc'[d] # "idle"})
    BY <1>1, <2>1, CountSame DEF IInv
  <2> QED
    BY <1>1, <1>c, <2>1, <2>2, Names DEF IInv, CallerInv, TypeInv, WriterLabels, CallLabels
<1>4. Frame
  <2>1. WriterSame
    BY <1>1, <1>c, OtherCaller DEF IInv, WriterLabels, TypeInv
  <2> QED
    BY <1>1, <2>1 DEF Frame, IInv, TypeInv, RecInv, LogSame, ItxsKept, Seqs
<1>5. QuietInv'
  <2>1. Quiet' => Quiet
    BY <1>1, <1>c DEF Quiet, IInv, TypeInv
  <2> QED
    BY <1>1, <1>4, <2>1, FrameQuiet
<1> QED
  BY <1>2, <1>3, <1>4, <1>5, FrameStep DEF IInv

LEMMA ItxAssignStep ==
  ASSUME IInv, NEW c \in Threads, NEW f \in Files \cup {AnyFile}, ItxAssign(c, f)
  PROVE  IInv'
<1>c. c \in Callers /\ c \notin Suspenders /\ c \notin DVAs
  BY Names
<1> DEFINE r == [file |-> f, txg |-> until[c]]
           S == [file : Files \cup {AnyFile}, txg : Nat]
<1>1. /\ pc[c] = "tx" /\ pc' = [pc EXCEPT ![c] = "idle"] /\ until' = [until EXCEPT ![c] = 0]
      /\ itxs' = Append(itxs, r) /\ itxList' = itxList \cup {Len(itxs) + 1}
      /\ dirtied' = dirtied \cup {<<Len(itxs) + 1, until[c]>>}
      /\ holders' = {h \in holders : h[1] # c}
      /\ UNCHANGED <<open, floor, durable, seq, foid, lwbs, writer,
                     commitSeq, wvars, logError, destroyTxg, suspend, suspending, zh, zhDisk,
                     synced, space, chain, disk, promised, dead>>
  BY DEF ItxAssign, Goto, SetUntil, call, susp, header, pool
<1>2. until[c] \in Nat /\ until[c] <= open /\ r \in S /\ itxs \in Seq(S) /\ r.txg = until[c]
  BY <1>1, <1>c DEF IInv, TypeInv, CallerInv
<1> HIDE DEF r, S
<1>3. /\ itxs' \in Seq(S) /\ Len(itxs') = Len(itxs) + 1 /\ Len(itxs) \in Nat
      /\ itxs'[Len(itxs) + 1] = r /\ \A n \in 1..Len(itxs) : itxs'[n] = itxs[n]
  BY <1>1, <1>2
<1>4. /\ Seqs' = Seqs \cup {Len(itxs) + 1} /\ (\A n \in Seqs : itxs'[n] = itxs[n])
      /\ itxs'[Len(itxs) + 1].txg <= open /\ Len(itxs) + 1 \notin Seqs
  BY <1>2, <1>3 DEF Seqs
<1>5. TypeInv'
  <2>1. itxs' \in Seq([file : Files \cup {AnyFile}, txg : Nat])
    BY <1>3 DEF S
  <2>2. dirtied' \subseteq Nat \X Nat /\ holders' \subseteq (Callers \cup DVAs) \X Nat
    BY <1>1, <1>2, <1>3 DEF IInv, TypeInv
  <2>3. /\ seq' \in [Callers -> 0..Len(itxs')] /\ commitSeq' \in 0..Len(itxs')
        /\ wnext' \in {-1} \cup 0..Len(itxs') /\ wcommit' \in 0..Len(itxs')
    BY <1>1, <1>3 DEF IInv, TypeInv, wvars
  <2>4. itxList' \subseteq Seqs' /\ promised' \subseteq Seqs'
    BY <1>1, <1>4 DEF IInv, TypeInv
  <2> QED
    BY <1>1, <1>c, <2>1, <2>2, <2>3, <2>4 DEF IInv, TypeInv, Labels, wvars, Upto
<1>6. CallerInv'
  <2>1. \A d \in Suspenders : pc'[d] = pc[d]
    BY <1>1, <1>c DEF IInv, TypeInv
  <2>2. suspend' = Cardinality({d \in Suspenders : pc'[d] # "idle"})
    BY <1>1, <2>1, CountSame DEF IInv
  <2> QED
    BY <1>1, <1>c, <2>1, <2>2, Names DEF IInv, CallerInv, TypeInv, WriterLabels, CallLabels
<1>7. Frame
  <2>1. WriterSame
    BY <1>1, <1>c, OtherCaller DEF IInv, WriterLabels, TypeInv
  <2>2. ItxsKept
    BY <1>4 DEF ItxsKept
  <2>3. \A n \in Seqs' : itxs'[n].txg <= open /\ (n \in Seqs \/ n > Len(itxs))
    BY <1>3, <1>4 DEF IInv, RecInv
  <2>4. itxList' \subseteq Seqs' /\ (\A n \in Seqs : n \in itxList' => n \in itxList)
        /\ \A n \in Seqs' : n \notin itxList' => n \in Seqs /\ n \notin itxList
    BY <1>1, <1>4 DEF IInv, TypeInv
  <2>5. \A h \in holders : h[1] \in DVAs => h \in holders'
    BY <1>1, <1>c
  <2>6. LogSame /\ UNCHANGED <<disk, commitSeq, promised>> /\ open' = open /\ open \in Nat /\ dirtied \subseteq dirtied'
    BY <1>1 DEF LogSame, IInv, TypeInv
  <2> QED
    BY <2>1, <2>2, <2>3, <2>4, <2>5, <2>6 DEF Frame
<1>8. QuietInv'
  <2>1. Quiet' => Quiet
    BY <1>1, <1>c DEF Quiet, IInv, TypeInv
  <2> QED
    BY <1>1, <1>7, <2>1, FrameQuiet
<1> QED
  BY <1>5, <1>6, <1>7, <1>8, FrameStep DEF IInv

LEMMA FsyncStep ==
  ASSUME IInv, NEW c \in Threads, NEW f \in Files \cup {AnyFile}, Fsync(c, f)
  PROVE  IInv'
<1>c. c \in Callers /\ c \notin Suspenders
  BY Names
<1>1. /\ pc[c] = "idle" /\ pc' = [pc EXCEPT ![c] = "commit"]
      /\ foid' = [foid EXCEPT ![c] = f] /\ \E n \in Seqs : seq' = [seq EXCEPT ![c] = n]
      /\ UNCHANGED <<open, floor, holders, dirtied, durable, until, itxs, itxList, lwbs, writer,
                     commitSeq, wvars, logError, destroyTxg, suspend, suspending, zh, zhDisk,
                     synced, space, chain, disk, promised, dead>>
  BY DEF Fsync, Goto, svc, susp, header, pool
<1>2. TypeInv'
  <2>1. seq' \in [Callers -> 0..Len(itxs)]
    BY <1>1, <1>c DEF IInv, TypeInv, Seqs
  <2> QED
    BY <1>1, <1>c, <2>1 DEF IInv, TypeInv, Labels, FirstLabels, CallLabels, wvars, Upto, Seqs
<1>3. CallerInv'
  <2>1. \A d \in Suspenders : pc'[d] = pc[d]
    BY <1>1, <1>c DEF IInv, TypeInv
  <2>2. suspend' = Cardinality({d \in Suspenders : pc'[d] # "idle"})
    BY <1>1, <2>1, CountSame DEF IInv
  <2> QED
    BY <1>1, <1>c, <2>1, <2>2, Names DEF IInv, CallerInv, TypeInv, WriterLabels, CallLabels
<1>4. Frame
  <2>1. WriterSame
    BY <1>1, <1>c, OtherCaller DEF IInv, WriterLabels, TypeInv
  <2> QED
    BY <1>1, <2>1 DEF Frame, IInv, TypeInv, RecInv, LogSame, ItxsKept, Seqs
<1>5. QuietInv'
  <2>1. Quiet' => Quiet
    BY <1>1, <1>c DEF Quiet, IInv, TypeInv
  <2> QED
    BY <1>1, <1>4, <2>1, FrameQuiet
<1> QED
  BY <1>2, <1>3, <1>4, <1>5, FrameStep DEF IInv

\* The number of suspensions when one caller begins or ends one.
LEMMA CountMore ==
  ASSUME TypeInv, CallerInv, NEW c \in Suspenders, pc[c] = "idle", NEW l, l # "idle",
         pc' = [pc EXCEPT ![c] = l], suspend' = suspend + 1
  PROVE  suspend' = Cardinality({d \in Suspenders : pc'[d] # "idle"})
<1> DEFINE S == {d \in Suspenders : pc[d] # "idle"}
<1>1. S \subseteq Suspenders /\ IsFiniteSet(S) /\ c \notin S
  BY FiniteAssumption, FS_Subset
<1>2. {d \in Suspenders : pc'[d] # "idle"} = S \cup {c}
  BY Names DEF TypeInv
<1>3. Cardinality(S \cup {c}) = Cardinality(S) + 1
  BY <1>1, FS_AddElement
<1> QED
  BY <1>2, <1>3 DEF CallerInv

LEMMA CountLess ==
  ASSUME TypeInv, CallerInv, NEW c \in Suspenders, pc[c] # "idle",
         pc' = [pc EXCEPT ![c] = "idle"], suspend' = suspend - 1
  PROVE  suspend' = Cardinality({d \in Suspenders : pc'[d] # "idle"})
<1> DEFINE S == {d \in Suspenders : pc[d] # "idle"}
<1>1. S \subseteq Suspenders /\ IsFiniteSet(S) /\ c \in S
  BY FiniteAssumption, FS_Subset
<1>2. {d \in Suspenders : pc'[d] # "idle"} = S \ {c}
  BY Names DEF TypeInv
<1>3. Cardinality(S \ {c}) = Cardinality(S) - 1
  BY <1>1, FS_RemoveElement
<1> QED
  BY <1>2, <1>3 DEF CallerInv

\* A suspension is counted.
LEMMA Counted ==
  ASSUME TypeInv, CallerInv
  PROVE  /\ \A c \in Suspenders : pc[c] # "idle" => suspend > 0
         /\ suspend > 0 => \E c \in Suspenders : pc[c] # "idle"
<1> DEFINE S == {d \in Suspenders : pc[d] # "idle"}
<1>1. S \subseteq Suspenders /\ IsFiniteSet(S)
  BY FiniteAssumption, FS_Subset
<1>2. Cardinality(S) = 0 <=> S = {}
  BY <1>1, FS_EmptySet
<1>3. suspend \in Nat /\ suspend = Cardinality(S)
  BY DEF CallerInv, TypeInv
<1> QED
  BY <1>2, <1>3

LEMMA PlainFrame ==
  ASSUME IInv, LogSame, WriterSame,
         UNCHANGED <<open, dirtied, holders, itxs, itxList, disk, commitSeq>>,
         \A n \in promised' : n \in promised \/ Settled(n)
  PROVE  Frame
  BY DEF Frame, IInv, TypeInv, RecInv, ItxsKept, Seqs

LEMMA SuspendStepInv ==
  ASSUME IInv, NEW c \in Suspenders, Suspend(c)
  PROVE  IInv'
<1>c. c \in Callers /\ c \notin Threads
  BY Names
<1> DEFINE l == IF suspend = 0 THEN "commit" ELSE "suspwait"
<1>1. /\ pc[c] = "idle" /\ pc' = [pc EXCEPT ![c] = l] /\ suspend' = suspend + 1
      /\ IF suspend = 0 THEN suspending' = TRUE /\ seq' = [seq EXCEPT ![c] = Len(itxs)]
         ELSE UNCHANGED <<suspending, seq>>
      /\ UNCHANGED <<open, floor, holders, dirtied, durable, foid, until, itxs, itxList, lwbs, writer,
                     commitSeq, wvars, logError, destroyTxg, zh, zhDisk,
                     synced, space, chain, disk, promised, dead>>
  BY DEF Suspend, Goto, svc, header, pool
<1>2. TypeInv'
  <2>0. Len(itxs) \in 0..Len(itxs)
    BY DEF IInv, TypeInv
  <2>1. seq' \in [Callers -> 0..Len(itxs)]
    <3>1. seq' = seq \/ seq' = [seq EXCEPT ![c] = Len(itxs)]
      BY <1>1
    <3>2. seq \in [Callers -> 0..Len(itxs)]
      BY DEF IInv, TypeInv
    <3> HIDE DEF l
    <3> QED
      BY ONLY <2>0, <3>1, <3>2, <1>c
  <2>2. pc' \in [Callers -> Labels] /\ suspend' \in Nat
    <3>1. l \in Labels
      BY DEF Labels, FirstLabels, CallLabels
    <3> HIDE DEF l
    <3> QED
      BY <1>1, <1>c, <3>1 DEF IInv, TypeInv
  <2>3. suspending' \in BOOLEAN
    BY <1>1, Zenon DEF IInv, TypeInv
  <2> HIDE DEF l
  <2> QED
    BY <1>1, <1>c, <2>1, <2>2, <2>3 DEF IInv, TypeInv, wvars, Upto, Seqs
<1>3. CallerInv'
  <2>1. suspend' = Cardinality({d \in Suspenders : pc'[d] # "idle"})
    BY <1>1, CountMore DEF IInv
  <2>2. suspend = 0 => \A d \in Suspenders : pc[d] = "idle"
    BY Counted DEF IInv
  <2>3. \A d \in Callers : d # c => pc'[d] = pc[d]
    BY <1>1 DEF IInv, TypeInv
  <2>4. pc'[c] = l /\ l \notin WriterLabels /\ l # "tx" /\ l # "destroy"
    BY <1>1, <1>c DEF IInv, TypeInv, WriterLabels
  <2>5. \A d, e \in Suspenders : pc'[d] \in FirstLabels =>
          suspending' /\ pc'[e] # "suspended" /\ (pc'[e] \in FirstLabels => d = e)
    <3>1. CASE suspend = 0
      BY <1>1, <2>2, <2>3, <2>4, <3>1, Names DEF FirstLabels, CallLabels, WriterLabels
    <3>2. CASE suspend # 0
      <4>1. pc'[c] = "suspwait" /\ suspending' = suspending
        BY <1>1, <2>4, <3>2
      <4> QED
        BY <2>3, <4>1, Names DEF IInv, CallerInv, FirstLabels, CallLabels, WriterLabels
    <3> QED
      BY <3>1, <3>2
  <2>6. \A d \in Callers : pc'[d] \in WriterLabels <=> d = writer
    BY <1>1, <1>c, <2>3, <2>4 DEF IInv, CallerInv, WriterLabels
  <2> HIDE DEF l
  <2> QED
    BY <1>1, <1>c, <2>1, <2>3, <2>4, <2>5, <2>6, Names DEF IInv, CallerInv
<1>4. Frame
  <2>1. WriterSame
    BY <1>1, <1>c, OtherCaller DEF IInv, WriterLabels, TypeInv
  <2> QED
    BY <1>1, <2>1, PlainFrame DEF LogSame
<1>5. QuietInv'
  <2>1. Quiet' => Quiet
    BY <1>1, <1>c DEF Quiet, IInv, TypeInv
  <2> QED
    BY <1>1, <1>4, <2>1, FrameQuiet DEF IInv, TypeInv
<1> QED
  BY <1>2, <1>3, <1>4, <1>5, FrameStep DEF IInv

LEMMA DrainedStep ==
  ASSUME IInv, NEW c \in Suspenders, Drained(c)
  PROVE  IInv'
<1>c. c \in Callers /\ c \notin Threads
  BY Names
<1>1. /\ pc[c] = "drain" /\ writer = Nobody /\ pc' = [pc EXCEPT ![c] = "destroy"]
      /\ until' = [until EXCEPT ![c] = destroyTxg]
      /\ UNCHANGED <<open, floor, holders, dirtied, durable, seq, foid, itxs, itxList, lwbs, writer,
                     commitSeq, wvars, logError, destroyTxg, suspend, suspending, zh, zhDisk,
                     synced, space, chain, disk, promised, dead>>
  BY DEF Drained, Goto, SetUntil, svc, call, susp, header, pool
<1>2. TypeInv'
  BY <1>1, <1>c DEF IInv, TypeInv, Labels, FirstLabels, wvars, Upto, Seqs
<1>3. CallerInv'
  <2>1. \A d \in Suspenders : pc'[d] = "idle" <=> pc[d] = "idle"
    BY <1>1, <1>c, Names DEF IInv, TypeInv
  <2>2. suspend' = Cardinality({d \in Suspenders : pc'[d] # "idle"})
    BY <1>1, <2>1, CountSame DEF IInv
  <2> QED
    BY <1>1, <1>c, <2>2, Names DEF IInv, CallerInv, TypeInv, WriterLabels, CallLabels, FirstLabels
<1>4. Frame
  <2>1. WriterSame
    BY <1>1, <1>c, OtherCaller DEF IInv, WriterLabels, TypeInv
  <2> QED
    BY <1>1, <2>1, PlainFrame DEF LogSame
<1>5. QuietInv'
  BY <1>1, <1>4, FrameQuiet
<1> QED
  BY <1>2, <1>3, <1>4, <1>5, FrameStep DEF IInv

LEMMA SuspendWaitedStep ==
  ASSUME IInv, NEW c \in Suspenders, SuspendWaited(c)
  PROVE  IInv'
<1>c. c \in Callers /\ c \notin Threads
  BY Names
<1>1. /\ pc[c] = "suspwait" /\ ~suspending /\ pc' = [pc EXCEPT ![c] = "suspended"]
      /\ UNCHANGED <<open, floor, holders, dirtied, durable, seq, foid, until, itxs, itxList, lwbs, writer,
                     commitSeq, wvars, logError, destroyTxg, suspend, suspending, zh, zhDisk,
                     synced, space, chain, disk, promised, dead>>
  BY DEF SuspendWaited, Goto, svc, call, susp, header, pool
<1>2. TypeInv'
  BY <1>1, <1>c DEF IInv, TypeInv, Labels, wvars, Upto, Seqs
<1>3. CallerInv'
  <2>1. \A d \in Suspenders : pc'[d] = "idle" <=> pc[d] = "idle"
    BY <1>1, <1>c, Names DEF IInv, TypeInv
  <2>2. suspend' = Cardinality({d \in Suspenders : pc'[d] # "idle"})
    BY <1>1, <2>1, CountSame DEF IInv
  <2> QED
    BY <1>1, <1>c, <2>2, Names DEF IInv, CallerInv, TypeInv, WriterLabels, CallLabels, FirstLabels
<1>4. Frame
  <2>1. WriterSame
    BY <1>1, <1>c, OtherCaller DEF IInv, WriterLabels, TypeInv
  <2> QED
    BY <1>1, <2>1, PlainFrame DEF LogSame
<1>5. QuietInv'
  <2>1. Quiet' => Quiet
    BY <1>1, <1>c DEF Quiet, IInv, TypeInv
  <2> QED
    BY <1>1, <1>4, <2>1, FrameQuiet
<1> QED
  BY <1>2, <1>3, <1>4, <1>5, FrameStep DEF IInv

LEMMA ResumeStep ==
  ASSUME IInv, NEW c \in Suspenders, Resume(c)
  PROVE  IInv'
<1>c. c \in Callers /\ c \notin Threads
  BY Names
<1>1. /\ pc[c] = "suspended" /\ pc' = [pc EXCEPT ![c] = "idle"] /\ suspend' = suspend - 1
      /\ UNCHANGED <<open, floor, holders, dirtied, durable, seq, foid, until, itxs, itxList, lwbs, writer,
                     commitSeq, wvars, logError, destroyTxg, suspending, zh, zhDisk,
                     synced, space, chain, disk, promised, dead>>
  BY DEF Resume, Goto, svc, call, header, pool
<1>s. suspend > 0 /\ suspend \in Nat
  BY <1>1, Counted DEF IInv, TypeInv
<1>2. TypeInv'
  <2>1. pc' \in [Callers -> Labels]
    BY <1>1, <1>c DEF IInv, TypeInv, Labels
  <2>2. suspend' \in Nat
    BY <1>1, <1>s
  <2> QED
    BY <1>1, <2>1, <2>2 DEF IInv, TypeInv, wvars, Upto, Seqs
<1>3. CallerInv'
  <2>2. suspend' = Cardinality({d \in Suspenders : pc'[d] # "idle"})
    BY <1>1, CountLess DEF IInv
  <2> QED
    BY <1>1, <1>c, <2>2, Names DEF IInv, CallerInv, TypeInv, WriterLabels, CallLabels, FirstLabels
<1>4. Frame
  <2>1. WriterSame
    BY <1>1, <1>c, OtherCaller DEF IInv, WriterLabels, TypeInv
  <2> QED
    BY <1>1, <2>1, PlainFrame DEF LogSame
<1>5. QuietInv'
  <2>1. Quiet' => Quiet
    BY <1>1, <1>c, <1>s DEF Quiet, IInv, TypeInv
  <2> QED
    BY <1>1, <1>4, <1>s, <2>1, FrameQuiet
<1> QED
  BY <1>2, <1>3, <1>4, <1>5, FrameStep DEF IInv

LEMMA OpenTxgStep ==
  ASSUME IInv, OpenTxg
  PROVE  IInv'
<1>1. /\ open' = open + 1
      /\ UNCHANGED <<floor, holders, dirtied, durable, pc, seq, foid, until, itxs, itxList, lwbs, writer,
                     commitSeq, wvars, logError, destroyTxg, suspend, suspending, zh, zhDisk,
                     synced, space, chain, disk, promised, dead>>
  BY DEF OpenTxg, Engine!OpenNext, call, susp, header, pool
<1>t. open \in Nat /\ open <= open' /\ open' \in Nat
  BY <1>1 DEF IInv, TypeInv
<1>2. TypeInv'
  BY <1>1 DEF IInv, TypeInv, wvars, Upto, Seqs
<1>3. CallerInv'
  BY <1>1, <1>t DEF IInv, CallerInv, TypeInv
<1>4. Frame
  <2>1. WriterSame
    BY <1>1 DEF WriterSame
  <2>2. \A n \in Seqs' : n \in Seqs /\ itxs'[n].txg <= open'
    <3>1. \A n \in Seqs : itxs[n].txg \in Nat /\ itxs[n].txg <= open
      BY ItxIs DEF IInv, RecInv
    <3> QED
      BY <1>1, <1>t, <3>1 DEF Seqs
  <2> QED
    BY <1>1, <1>t, <2>1, <2>2 DEF Frame, IInv, TypeInv, LogSame, ItxsKept, Seqs
<1>5. QuietInv'
  <2>1. Quiet' => Quiet
    BY <1>1 DEF Quiet
  <2> QED
    BY <1>1, <1>4, <2>1, FrameQuiet
<1> QED
  BY <1>2, <1>3, <1>4, <1>5, FrameStep DEF IInv

LEMMA WakeIs ==
  ASSUME TypeInv
  PROVE  /\ WakeAll \in [Callers -> Labels]
         /\ \A t \in Callers : WakeAll[t] = pc[t] \/ (pc[t] = "cvwait" /\ WakeAll[t] = "woken")
  BY DEF WakeAll, TypeInv, Labels, FirstLabels, CallLabels

\* The end of zil_commit() for a caller: it is a suspender or done.
LEMMA AfterIs ==
  ASSUME NEW c \in Callers
  PROVE  /\ (After(c) = "drain" /\ c \in Suspenders) \/ (After(c) = "idle" /\ c \in Threads)
         /\ After(c) \in Labels
  BY Names DEF After, Labels, FirstLabels

\* Waking others, and moving one caller that is in zil_commit(), keeps the
\* positions right.
LEMMA CommitCaller ==
  ASSUME TypeInv, CallerInv, NEW c \in Callers, pc[c] \in CallLabels, NEW l \in Labels,
         l \in CallLabels \/ l = After(c),
         \A d \in Callers : d # c => pc'[d] = pc[d] \/ (pc[d] = "cvwait" /\ pc'[d] = "woken"),
         pc'[c] = l, \A d \in Callers : pc'[d] \in WriterLabels <=> d = writer',
         \A d \in Callers : d # c => until'[d] = until[d], UNCHANGED <<suspend, suspending, destroyTxg, open>>
  PROVE  CallerInv'
<1>1. l \notin {"tx", "destroy", "suspended", "suspwait"} /\ (c \in Suspenders => l # "idle")
  BY AfterIs, Names DEF CallLabels, WriterLabels
<1>2. suspend' = Cardinality({d \in Suspenders : pc'[d] # "idle"})
  <2>1. \A d \in Suspenders : pc'[d] = "idle" <=> pc[d] = "idle"
    BY <1>1, Names DEF CallLabels, WriterLabels
  <2> QED
    BY <2>1, CountSame
<1>3. \A d \in Suspenders : pc'[d] \in FirstLabels <=> pc[d] \in FirstLabels
  BY <1>1, AfterIs, Names DEF FirstLabels, CallLabels
<1>4. \A d \in Suspenders : pc'[d] = "suspended" <=> pc[d] = "suspended"
  BY <1>1, Names DEF CallLabels, WriterLabels
<1>5. \A d \in Callers : pc'[d] \in {"tx", "destroy"} => d # c /\ pc'[d] = pc[d]
  BY <1>1
<1>6. \A d \in Threads : pc'[d] \in {"idle", "tx"} \cup CallLabels
  BY <1>1, AfterIs, Names DEF CallerInv, CallLabels
<1> QED
  BY <1>1, <1>2, <1>3, <1>4, <1>5, <1>6, Names DEF CallerInv

LEMMA ItxCleanStep ==
  ASSUME IInv, ItxClean
  PROVE  IInv'
<1>1. /\ writer = Nobody /\ pc' = WakeAll
      /\ itxList' = {n \in itxList : \E m \in itxList : m <= n /\ itxs[m].txg > floor}
      /\ UNCHANGED <<open, floor, holders, dirtied, durable, seq, foid, until, itxs, lwbs, writer,
                     commitSeq, wvars, logError, destroyTxg, suspend, suspending, zh, zhDisk,
                     synced, space, chain, disk, promised, dead>>
  BY DEF ItxClean, svc, call, susp, header, pool
<1>2. TypeInv'
  <2>1. pc' \in [Callers -> Labels]
    BY <1>1, WakeIs DEF IInv
  <2>2. itxList' \subseteq Seqs
    BY <1>1 DEF IInv, TypeInv
  <2> QED
    BY <1>1, <2>1, <2>2 DEF IInv, TypeInv, wvars, Upto, Seqs
<1>w. \A t \in Callers : pc'[t] = pc[t] \/ (pc[t] = "cvwait" /\ pc'[t] = "woken")
  BY <1>1, WakeIs DEF IInv
<1>3. CallerInv'
  <2>1. \A d \in Suspenders : pc'[d] = "idle" <=> pc[d] = "idle"
    BY <1>w, Names DEF IInv, TypeInv
  <2>2. suspend' = Cardinality({d \in Suspenders : pc'[d] # "idle"})
    BY <1>1, <2>1, CountSame DEF IInv
  <2> QED
    BY <1>1, <1>w, <2>2, Names DEF IInv, CallerInv, WriterLabels, CallLabels, FirstLabels
<1>4. Frame
  <2>1. WriterSame
    BY <1>1 DEF WriterSame
  <2>2. \A n \in Seqs : n \notin itxList' => n \notin itxList \/ n \in Durable
    <3> SUFFICES ASSUME NEW n \in itxList, n \in Seqs, n \notin itxList' PROVE n \in Durable
      OBVIOUS
    <3>1. n \in Nat /\ itxs[n].txg \in Nat /\ floor \in Nat
      BY ItxIs DEF IInv, TypeInv
    <3>2. ~(itxs[n].txg > floor)
      BY <1>1, <3>1
    <3> QED
      BY <3>1, <3>2 DEF Durable
  <2>3. itxList' \subseteq itxList /\ Seqs' = Seqs
    BY <1>1 DEF Seqs
  <2> QED
    BY <1>1, <2>1, <2>2, <2>3 DEF Frame, IInv, TypeInv, RecInv, LogSame, ItxsKept
<1>5. QuietInv'
  BY <1>1, <1>4, FrameQuiet
<1> QED
  BY <1>2, <1>3, <1>4, <1>5, FrameStep DEF IInv

\* zil_commit() waits for another writer.
LEMMA WaitStep ==
  ASSUME IInv, NEW c \in Callers, pc[c] \in {"commit", "woken"}, Wait(c),
         UNCHANGED <<svc, until, itxs, itxList, lwbs, commitSeq, logError, susp, header, pool, dead>>
  PROVE  IInv'
<1>1. /\ writer # Nobody /\ pc' = [pc EXCEPT ![c] = "cvwait"]
      /\ UNCHANGED <<open, floor, holders, dirtied, durable, seq, foid, until, itxs, itxList, lwbs, writer,
                     commitSeq, wvars, logError, destroyTxg, suspend, suspending, zh, zhDisk,
                     synced, space, chain, disk, promised, dead>>
  BY DEF Wait, Goto, svc, call, susp, header, pool
<1>2. TypeInv'
  BY <1>1 DEF IInv, TypeInv, Labels, FirstLabels, CallLabels, wvars, Upto, Seqs
<1>3. \A d \in Callers : (d # c => pc'[d] = pc[d]) /\ pc'[c] = "cvwait"
  BY <1>1 DEF IInv, TypeInv
<1>4. CallerInv'
  <2>1. \A d \in Callers : pc'[d] \in WriterLabels <=> d = writer'
    BY <1>1, <1>3 DEF IInv, CallerInv, WriterLabels
  <2> QED
    BY <1>1, <1>3, <2>1, CommitCaller DEF IInv, CallLabels, Labels, FirstLabels
<1>5. Frame
  <2>1. WriterSame
    BY <1>1, <1>3, OtherCaller DEF IInv, WriterLabels
  <2> QED
    BY <1>1, <2>1, PlainFrame DEF LogSame
<1>6. QuietInv'
  <2>1. Quiet' => Quiet
    BY <1>1, <1>3, Names DEF Quiet
  <2> QED
    BY <1>1, <1>5, <2>1, FrameQuiet
<1> QED
  BY <1>2, <1>4, <1>5, <1>6, FrameStep DEF IInv

\* zil_commit() returns without a round of its own.
LEMMA ReturnStep ==
  ASSUME IInv, NEW c \in Callers, pc[c] \in {"commit", "woken"}, pc' \in [Callers -> Labels],
         \A d \in Callers : d # c => pc'[d] = pc[d] \/ (pc[d] = "cvwait" /\ pc'[d] = "woken"),
         pc'[c] = After(c), Keep(c), UNCHANGED <<writer, wvars>>,
         UNCHANGED <<svc, until, itxs, itxList, lwbs, commitSeq, logError, susp, header, pool, dead>>,
         \A n \in Seqs : n <= seq[c] => Settled(n)
  PROVE  IInv'
<1>1. /\ promised' = promised \cup {n \in Seqs : n <= seq[c] /\ Matches(n, foid[c])}
      /\ seq' = [seq EXCEPT ![c] = 0] /\ foid' = [foid EXCEPT ![c] = AnyFile]
      /\ UNCHANGED <<open, floor, holders, dirtied, durable, until, itxs, itxList, lwbs, writer,
                     commitSeq, wvars, logError, destroyTxg, suspend, suspending, zh, zhDisk,
                     synced, space, chain, disk, dead>>
  BY DEF Keep, svc, susp, header, pool
<1>2. TypeInv'
  <2>1. seq' \in [Callers -> 0..Len(itxs)]
    <3>1. seq \in [Callers -> 0..Len(itxs)] /\ 0 \in 0..Len(itxs)
      BY DEF IInv, TypeInv
    <3> QED
      BY ONLY <3>1, <1>1
  <2>2. promised' \subseteq Seqs
    BY <1>1 DEF IInv, TypeInv
  <2> QED
    BY <1>1, <2>1, <2>2 DEF IInv, TypeInv, wvars, Upto, Seqs
<1>3. pc[c] \notin WriterLabels /\ After(c) \notin WriterLabels /\ After(c) \in Labels /\ pc[c] \in CallLabels
  BY AfterIs DEF WriterLabels, CallLabels
<1>4. CallerInv'
  <2>1. \A d \in Callers : pc'[d] \in WriterLabels <=> d = writer'
    BY <1>1, <1>3 DEF IInv, CallerInv, WriterLabels
  <2> QED
    BY <1>1, <1>3, <2>1, CommitCaller DEF IInv
<1>5. Frame
  <2>1. \A d \in Callers : d # c => seq'[d] = seq[d] /\ foid'[d] = foid[d]
    BY <1>1 DEF IInv, TypeInv
  <2>2. \A d \in Callers : pc[d] \in WriterLabels => pc'[d] = pc[d]
    BY <1>3 DEF WriterLabels
  <2>3. WriterSame
    BY <1>1, <1>3, <2>1, <2>2, OtherCaller DEF IInv
  <2>4. \A n \in promised' : n \in promised \/ Settled(n)
    BY <1>1
  <2> QED
    BY <1>1, <2>3, <2>4, PlainFrame DEF LogSame
<1>6. QuietInv'
  <2>1. Quiet' => Quiet
    BY <1>1, <1>3, AfterIs, Names DEF Quiet
  <2> QED
    BY <1>1, <1>5, <2>1, FrameQuiet
<1> QED
  BY <1>2, <1>4, <1>5, <1>6, FrameStep DEF IInv

-----------------------------------------------------------------------------
(* Steps of the writer that leave the log alone *)

LEMMA MoveStep ==
  ASSUME IInv, LogSame, DiskKept, UNCHANGED <<open, itxs>>
  PROVE  /\ SpaceInv' /\ LinkInv' /\ BirthInv' /\ OrderInv'
         /\ Chain' = Chain /\ Alive' = Alive /\ Upto' = Upto /\ Seqs' = Seqs
         /\ \A n : Settled(n) => Settled(n)'
         /\ \A n : Logged(n)' <=> Logged(n)
<1>1. ItxsKept /\ open' \in Nat /\ open <= open' /\ Seqs' = Seqs
  BY DEF ItxsKept, Seqs, IInv, TypeInv
<1> QED
  BY <1>1, SameLog, FrameSpace, FrameLink, FrameBirth, FrameOrder, FrameSettled DEF IInv

\* The parts about headers, when no log is being created.
LEMMA MoveHead ==
  ASSUME IInv, LogSame, ~At({"createwait"}), ~At({"createwait"})'
  PROVE  HeadInv'
<1>1. /\ Chain' = Chain /\ Upto' = Upto /\ floor' = floor
      /\ lwbs' = lwbs /\ zh' = zh /\ zhDisk' = zhDisk /\ space' = space /\ synced' = synced
  BY SameLog DEF LogSame
<1> QED
  BY <1>1 DEF IInv, HeadInv, FreedIn

LEMMA MoveRec ==
  ASSUME IInv, LogSame, DiskKept, UNCHANGED <<open, itxs, itxList>>,
         \A n \in Seqs : n \notin itxList =>
           \/ Settled(n)'
           \/ At({"bigwait", "finish"})' /\ itxs[n].txg <= until'[writer']
           \/ Working' /\ (Logged(n) \/ ~wlwb')
  PROVE  RecInv'
<1>1. /\ Chain' = Chain /\ Seqs' = Seqs /\ dead' = dead /\ space' = space
      /\ \A n : Logged(n)' <=> Logged(n)
  BY MoveStep DEF LogSame
<1> QED
  BY <1>1 DEF IInv, RecInv, FreedIn

LEMMA StartWriterStep ==
  ASSUME IInv, NEW c \in Callers, pc[c] \in {"commit", "woken"}, StartWriter(c),
         ~(lwbs = << >> /\ itxList = {} /\ ~Suspended),
         UNCHANGED <<svc, until, itxs, itxList, lwbs, commitSeq, logError, susp, header, pool, dead>>
  PROVE  IInv'
<1> DEFINE l == IF lwbs = << >> /\ ~Suspended THEN "create" ELSE "fill"
<1>1. /\ writer = Nobody /\ writer' = c /\ pc' = [pc EXCEPT ![c] = l]
      /\ wlwb' = (lwbs # << >> /\ ~Suspended) /\ wnext' = 0 /\ wcommit' = 0 /\ root' = FALSE
      /\ UNCHANGED <<open, floor, holders, dirtied, durable, seq, foid, until, itxs, itxList, lwbs,
                     commitSeq, logError, destroyTxg, suspend, suspending, zh, zhDisk,
                     synced, space, chain, disk, promised, dead>>
  BY DEF StartWriter, Goto, svc, call, susp, header, pool
<1>l. l \in {"create", "fill"} /\ (l = "create" => lwbs = << >> /\ ~Suspended)
  OBVIOUS
<1> HIDE DEF l
<1>p. pc'[c] = l /\ \A d \in Callers : d # c => pc'[d] = pc[d]
  BY <1>1 DEF IInv, TypeInv
<1>n. c # Nobody /\ \A L : ~At(L)
  BY <1>1, Names DEF At
<1>a. ~Working /\ At({"fill", "bigwait", "zio"})' = (l = "fill") /\ ~At({"createwait"})'
      /\ ~At({"bigwait", "finish"})' /\ ~At({"zio", "finish"})' /\ At({"create"})' = (l = "create")
      /\ At({"create", "createwait", "bigwait"})' = (l = "create")
  BY <1>1, <1>l, <1>p, <1>n DEF At, Working
<1>2. TypeInv'
  <2>1. pc' \in [Callers -> Labels]
    BY <1>1, <1>l DEF IInv, TypeInv, Labels, FirstLabels, CallLabels, WriterLabels
  <2>2. wnext' \in {-1} \cup 0..Len(itxs) /\ wcommit' \in 0..Len(itxs)
    BY <1>1 DEF IInv, TypeInv
  <2>3. wlwb' \in BOOLEAN
    BY <1>1
  <2> QED
    BY <1>1, <2>1, <2>2, <2>3 DEF IInv, TypeInv, Upto, Seqs
<1>3. CallerInv'
  <2>1. \A d \in Callers : pc'[d] \in WriterLabels <=> d = writer'
    BY <1>1, <1>l, <1>n, <1>p, Names DEF IInv, CallerInv, WriterLabels
  <2>2. l \in Labels /\ l \in CallLabels /\ pc[c] \in CallLabels
    BY <1>l DEF Labels, FirstLabels, CallLabels, WriterLabels
  <2> QED
    BY <1>1, <1>p, <2>1, <2>2, CommitCaller DEF IInv
<1>4. WriterInv'
  BY <1>1, <1>a, <1>n, <1>l DEF WriterInv
<1>5. LogSame /\ DiskKept
  BY <1>1 DEF LogSame, DiskKept
<1>6. /\ SpaceInv' /\ LinkInv' /\ BirthInv' /\ OrderInv'
      /\ Chain' = Chain /\ Alive' = Alive /\ \A n : Settled(n) => Settled(n)'
  BY <1>1, <1>5, MoveStep
<1>7. HeadInv'
  BY <1>5, <1>a, <1>n, MoveHead
<1>8. \A w \in Chain : w.zio \in Idle
  BY <1>a, NoWriter DEF IInv
<1>9. WriteInv'
  <2>1. wlwb' => Last(lwbs).zio \in Idle
    <3>1. lwbs # << >> => Last(lwbs) \in Chain
      BY MembersIs, ChainType DEF IInv, TypeInv
    <3> QED
      BY <1>1, <1>8, <3>1
  <2> QED
    BY <1>1, <1>6, <1>8, <2>1 DEF IInv, WriteInv, Idle, InFlight
<1>10. DiskInv'
  BY <1>1, <1>5, <1>6, <1>a, OnKept DEF IInv, DiskInv
<1>11. QuietInv'
  <2>1. Quiet' => Quiet
    BY <1>1, <1>l, <1>p, Names DEF Quiet
  <2>2. Quiet => suspend > 0
    BY Counted DEF IInv, Quiet
  <2>3. suspend > 0 => ~wlwb' /\ l = "fill"
    BY <1>1 DEF l, Suspended
  <2> QED
    BY <1>1, <1>6, <1>a, <2>1, <2>2, <2>3 DEF IInv, QuietInv
<1>12. RecInv'
  <2>1. \A n \in Seqs : n \notin itxList => Settled(n)
    BY <1>a, <1>n DEF IInv, RecInv
  <2> QED
    BY <1>1, <1>5, <1>6, <2>1, MoveRec
<1>13. LoopInv'
  <2>1. \A n \in itxList' : n >= 0 /\ 0 # -1
    BY <1>2 DEF TypeInv, Seqs
  <2>2. Seqs' = Seqs
    BY <1>1 DEF Seqs
  <2> QED
    BY <1>1, <1>6, <1>a, <2>1, <2>2 DEF IInv, LoopInv
<1> QED
  BY <1>2, <1>3, <1>4, <1>6, <1>7, <1>9, <1>10, <1>11, <1>12, <1>13 DEF IInv

\* The writer goes on.
LEMMA WriterMove ==
  ASSUME IInv, NEW c \in Callers, pc[c] \in WriterLabels, NEW l \in WriterLabels,
         pc' = [pc EXCEPT ![c] = l], \A d \in Callers : d # c => until'[d] = until[d],
         UNCHANGED <<writer, suspend, suspending, destroyTxg, open>>
  PROVE  /\ pc' \in [Callers -> Labels] /\ CallerInv' /\ (Quiet' <=> Quiet)
         /\ writer = c /\ c # Nobody /\ (\A L : At(L) <=> pc[c] \in L) /\ (\A L : At(L)' <=> l \in L)
<1>1. writer = c /\ c # Nobody /\ \A L : At(L) <=> pc[c] \in L
  BY Positions, Names DEF IInv
<1>2. pc'[c] = l /\ (\A d \in Callers : d # c => pc'[d] = pc[d])
  BY DEF IInv, TypeInv
<1>3. l \in CallLabels /\ pc[c] \in CallLabels /\ l \in Labels
  BY DEF CallLabels, Labels, FirstLabels
<1>4. \A d \in Callers : pc'[d] \in WriterLabels <=> d = writer'
  BY <1>1, <1>2 DEF IInv, CallerInv
<1>5. CallerInv'
  BY <1>2, <1>3, <1>4, CommitCaller DEF IInv
<1>6. pc' \in [Callers -> Labels]
  BY <1>3 DEF IInv, TypeInv
<1>7. \A L : At(L)' <=> l \in L
  BY <1>1, <1>2 DEF At
<1>8. Quiet' <=> Quiet
  <2>1. \A d \in Suspenders : pc'[d] = "destroy" <=> pc[d] = "destroy"
    BY <1>2, Names DEF WriterLabels
  <2> QED
    BY <2>1 DEF Quiet
<1> QED
  BY <1>1, <1>5, <1>6, <1>7, <1>8

LEMMA CreateDoneStep ==
  ASSUME IInv, NEW c \in Callers, CreateDone(c)
  PROVE  IInv'
<1>1. /\ pc[c] = "createwait" /\ pc' = [pc EXCEPT ![c] = "fill"] /\ until' = [until EXCEPT ![c] = 0]
      /\ floor >= until[c]
      /\ UNCHANGED <<open, floor, holders, dirtied, durable, seq, foid, itxs, itxList, lwbs, writer,
                     commitSeq, wlwb, wnext, wcommit, root, logError, destroyTxg, suspend, suspending, zh, zhDisk,
                     synced, space, chain, disk, promised, dead>>
  BY DEF CreateDone, Goto, SetUntil, Synced, svc, call, susp, header, pool, wvars
<1>2. /\ pc' \in [Callers -> Labels] /\ CallerInv' /\ (Quiet' <=> Quiet)
      /\ writer = c /\ c # Nobody /\ (\A L : At(L) <=> "createwait" \in L) /\ (\A L : At(L)' <=> "fill" \in L)
  <2>1. \A d \in Callers : d # c => until'[d] = until[d]
    BY <1>1
  <2>2. pc[c] \in WriterLabels /\ "fill" \in WriterLabels
    BY <1>1 DEF WriterLabels
  <2>3. /\ pc' \in [Callers -> Labels] /\ CallerInv' /\ (Quiet' <=> Quiet)
        /\ writer = c /\ c # Nobody /\ (\A L : At(L) <=> pc[c] \in L) /\ (\A L : At(L)' <=> "fill" \in L)
    BY <1>1, <2>1, <2>2, WriterMove
  <2> QED
    BY <1>1, <2>3
<1>3. /\ At({"createwait"}) /\ ~At({"create"}) /\ ~Working /\ ~At({"bigwait", "finish"})
      /\ ~At({"fill", "bigwait"}) /\ At({"create", "createwait", "bigwait"}) /\ At(Filling)
  BY <1>2 DEF Working, Filling
<1>4. /\ ~At({"createwait"})' /\ ~At({"create"})' /\ Working' /\ ~At({"bigwait", "finish"})' /\ At(Filling)'
      /\ At({"fill", "bigwait"})' /\ ~At({"create", "createwait", "bigwait"})' /\ ~At({"zio", "finish"})'
  BY <1>2 DEF Working, Filling
<1>5. TypeInv'
  <2>1. until' \in [Callers -> Nat]
    BY <1>1 DEF IInv, TypeInv
  <2> QED
    BY <1>1, <1>2, <2>1 DEF IInv, TypeInv, Upto, Seqs
<1>6. WriterInv'
  BY <1>1, <1>4 DEF IInv, WriterInv
<1>7. LogSame /\ DiskKept
  BY <1>1 DEF LogSame, DiskKept
<1>8. /\ SpaceInv' /\ LinkInv' /\ BirthInv' /\ OrderInv'
      /\ Chain' = Chain /\ Alive' = Alive /\ Upto' = Upto /\ \A n : Settled(n) => Settled(n)'
  BY <1>1, <1>7, MoveStep
<1>9. lwbs # << >> => zh = lwbs[1].blk /\ zhDisk = lwbs[1].blk
  <2>1. until[c] \in Nat /\ floor \in Nat /\ floor <= Upto /\ Upto \in Nat
    BY DEF IInv, TypeInv, Upto
  <2>2. lwbs # << >> => wlwb
    BY <1>3 DEF IInv, WriterInv
  <2> QED
    BY <1>1, <1>2, <1>3, <2>1, <2>2 DEF IInv, HeadInv
<1>10. HeadInv'
  <2>1. \A w \in Chain : w.blk.guid = zhDisk.guid
    BY <1>3, <1>9 DEF IInv, HeadInv, WriterInv
  <2>2. \A w \in Chain : FreedIn(w) \notin 1..Upto => w.blk.guid = zh.guid
    BY <1>3, <1>9 DEF IInv, HeadInv, WriterInv
  <2> QED
    BY <1>1, <1>4, <1>8, <1>9, <2>1, <2>2 DEF IInv, HeadInv, FreedIn
<1>11. \A w \in Chain : w.zio \in Idle
  BY <1>3, NoWriter DEF IInv
<1>12. WriteInv'
  BY <1>1, <1>8, <1>11 DEF IInv, WriteInv, Idle, InFlight
<1>13. DiskInv'
  BY <1>1, <1>3, <1>7, <1>8, OnKept DEF IInv, DiskInv
<1>14. QuietInv'
  BY <1>1, <1>2, <1>3, <1>4, <1>8 DEF IInv, QuietInv
<1>15. RecInv'
  <2>1. \A n \in Seqs : n \notin itxList => Settled(n)
    BY <1>3 DEF IInv, RecInv
  <2> QED
    BY <1>1, <1>7, <1>8, <2>1, MoveRec
<1>16. LoopInv'
  BY <1>1, <1>2, <1>3, <1>4, <1>8 DEF IInv, LoopInv, Matches, Seqs
<1> QED
  BY <1>2, <1>5, <1>6, <1>8, <1>10, <1>12, <1>13, <1>14, <1>15, <1>16 DEF IInv

LEMMA BigDoneStep ==
  ASSUME IInv, NEW c \in Callers, BigDone(c)
  PROVE  IInv'
<1>1. /\ pc[c] = "bigwait" /\ pc' = [pc EXCEPT ![c] = "fill"] /\ until' = [until EXCEPT ![c] = 0]
      /\ floor >= until[c]
      /\ UNCHANGED <<open, floor, holders, dirtied, durable, seq, foid, itxs, itxList, lwbs, writer,
                     commitSeq, wlwb, wnext, wcommit, root, logError, destroyTxg, suspend, suspending, zh, zhDisk,
                     synced, space, chain, disk, promised, dead>>
  BY DEF BigDone, Goto, SetUntil, Synced, svc, call, susp, header, pool, wvars
<1>2. /\ pc' \in [Callers -> Labels] /\ CallerInv' /\ (Quiet' <=> Quiet)
      /\ writer = c /\ c # Nobody /\ (\A L : At(L) <=> "bigwait" \in L) /\ (\A L : At(L)' <=> "fill" \in L)
  <2>1. \A d \in Callers : d # c => until'[d] = until[d]
    BY <1>1
  <2>2. pc[c] \in WriterLabels /\ "fill" \in WriterLabels
    BY <1>1 DEF WriterLabels
  <2>3. /\ pc' \in [Callers -> Labels] /\ CallerInv' /\ (Quiet' <=> Quiet)
        /\ writer = c /\ c # Nobody /\ (\A L : At(L) <=> pc[c] \in L) /\ (\A L : At(L)' <=> "fill" \in L)
    BY <1>1, <2>1, <2>2, WriterMove
  <2> QED
    BY <1>1, <2>3
<1>3. /\ ~At({"createwait"}) /\ ~At({"create"}) /\ Working /\ At({"bigwait", "finish"})
      /\ At({"fill", "bigwait"}) /\ At({"create", "createwait", "bigwait"}) /\ At(Filling)
  BY <1>2 DEF Working, Filling
<1>4. /\ ~At({"createwait"})' /\ ~At({"create"})' /\ Working' /\ ~At({"bigwait", "finish"})' /\ At(Filling)'
      /\ At({"fill", "bigwait"})' /\ ~At({"create", "createwait", "bigwait"})' /\ ~At({"zio", "finish"})'
  BY <1>2 DEF Working, Filling
<1>5. TypeInv'
  <2>1. until' \in [Callers -> Nat]
    BY <1>1 DEF IInv, TypeInv
  <2> QED
    BY <1>1, <1>2, <2>1 DEF IInv, TypeInv, Upto, Seqs
<1>6. WriterInv'
  BY <1>1, <1>4 DEF IInv, WriterInv
<1>7. LogSame /\ DiskKept
  BY <1>1 DEF LogSame, DiskKept
<1>8. /\ SpaceInv' /\ LinkInv' /\ BirthInv' /\ OrderInv'
      /\ Chain' = Chain /\ Alive' = Alive /\ Upto' = Upto /\ \A n : Settled(n) => Settled(n)'
  BY <1>1, <1>7, MoveStep
<1>10. HeadInv'
  BY <1>3, <1>4, <1>7, MoveHead
<1>12. WriteInv'
  BY <1>1, <1>3, <1>4, <1>8 DEF IInv, WriteInv
<1>13. DiskInv'
  BY <1>1, <1>3, <1>4, <1>7, <1>8, OnKept DEF IInv, DiskInv
<1>14. QuietInv'
  BY <1>1, <1>2, <1>3, <1>4, <1>8 DEF IInv, QuietInv
<1>15. RecInv'
  <2>1. ASSUME NEW n \in Seqs, n \notin itxList, itxs[n].txg <= until[c]
        PROVE  Settled(n)
    <3>1. itxs[n].txg \in Nat /\ until[c] \in Nat /\ floor \in Nat
      BY ItxIs DEF IInv, TypeInv
    <3> QED
      BY <1>1, <2>1, <3>1 DEF Settled, Durable
  <2>2. \A n \in Seqs : n \notin itxList => Settled(n) \/ (Logged(n) \/ ~wlwb)
    BY <1>2, <1>3, <2>1 DEF IInv, RecInv
  <2> QED
    BY <1>1, <1>4, <1>7, <1>8, <2>2, MoveRec
<1>16. LoopInv'
  BY <1>1, <1>2, <1>3, <1>4, <1>8 DEF IInv, LoopInv, Matches, Seqs
<1> QED
  BY <1>2, <1>5, <1>6, <1>8, <1>10, <1>12, <1>13, <1>14, <1>15, <1>16 DEF IInv

\* The round of a writer is over: what it took from the list is settled.
LEMMA FinishStep ==
  ASSUME IInv, NEW c \in Callers, Finish(c)
  PROVE  IInv'
<1>1. /\ pc[c] = "finish" /\ floor >= until[c] /\ writer' = Nobody /\ commitSeq' = wcommit
      /\ pc' = [WakeAll EXCEPT ![c] = After(c)] /\ until' = [until EXCEPT ![c] = 0]
      /\ promised' = promised \cup {n \in Seqs : n <= seq[c] /\ Matches(n, foid[c])}
      /\ seq' = [seq EXCEPT ![c] = 0] /\ foid' = [foid EXCEPT ![c] = AnyFile]
      /\ wlwb' = FALSE /\ wnext' = 0 /\ wcommit' = 0 /\ root' = FALSE
      /\ UNCHANGED <<open, floor, holders, dirtied, durable, itxs, itxList, lwbs,
                     logError, destroyTxg, suspend, suspending, zh, zhDisk,
                     synced, space, chain, disk, dead>>
  BY DEF Finish, Keep, SetUntil, Synced, svc, susp, header, pool
<1>2. writer = c /\ c # Nobody /\ (\A L : At(L) <=> "finish" \in L) /\ \A L : ~At(L)'
  <2>1. pc[c] \in WriterLabels
    BY <1>1 DEF WriterLabels
  <2>2. writer = c /\ writer # Nobody /\ \A L : At(L) <=> pc[c] \in L
    BY <2>1, Positions DEF IInv
  <2> QED
    BY <1>1, <2>2 DEF At
<1>3. ~Working /\ ~At({"createwait"}) /\ At({"bigwait", "finish"}) /\ At({"zio", "finish"}) /\ ~Working'
  BY <1>2 DEF Working
<1>4. /\ pc' \in [Callers -> Labels] /\ pc'[c] = After(c)
      /\ \A d \in Callers : d # c => pc'[d] = pc[d] \/ (pc[d] = "cvwait" /\ pc'[d] = "woken")
  <2>1. WakeAll \in [Callers -> Labels] /\ After(c) \in Labels
    BY WakeIs, AfterIs DEF IInv
  <2>2. \A d \in Callers : d # c => pc'[d] = WakeAll[d]
    BY <1>1, <2>1
  <2> QED
    BY <1>1, <2>1, <2>2, WakeIs DEF IInv
<1>5. TypeInv'
  <2>1. seq' \in [Callers -> 0..Len(itxs)]
    <3>1. seq \in [Callers -> 0..Len(itxs)] /\ 0 \in 0..Len(itxs)
      BY DEF IInv, TypeInv
    <3> QED
      BY ONLY <3>1, <1>1
  <2>2. promised' \subseteq Seqs /\ until' \in [Callers -> Nat]
    BY <1>1 DEF IInv, TypeInv
  <2>3. wnext' \in {-1} \cup 0..Len(itxs) /\ wcommit' \in 0..Len(itxs) /\ commitSeq' \in 0..Len(itxs)
    BY <1>1 DEF IInv, TypeInv
  <2>4. foid' \in [Callers -> Files \cup {AnyFile}] /\ wlwb' \in BOOLEAN /\ root' \in BOOLEAN
    BY <1>1 DEF IInv, TypeInv
  <2> QED
    BY <1>1, <1>4, <2>1, <2>2, <2>3, <2>4 DEF IInv, TypeInv, Upto, Seqs
<1>6. CallerInv'
  <2>1. After(c) \in Labels /\ After(c) \notin WriterLabels /\ pc[c] \in CallLabels
    BY <1>1, AfterIs DEF WriterLabels, CallLabels
  <2>2. \A d \in Callers : pc'[d] \in WriterLabels <=> d = writer'
    BY <1>1, <1>2, <1>4, <2>1, Names DEF IInv, CallerInv, WriterLabels
  <2>3. \A d \in Callers : d # c => until'[d] = until[d]
    BY <1>1 DEF IInv, TypeInv
  <2> QED
    BY <1>1, <1>4, <2>1, <2>2, <2>3, CommitCaller DEF IInv
<1>7. WriterInv'
  BY <1>1, <1>2 DEF WriterInv
<1>8. LogSame /\ DiskKept
  BY <1>1 DEF LogSame, DiskKept
<1>9. /\ SpaceInv' /\ LinkInv' /\ BirthInv' /\ OrderInv' /\ Seqs' = Seqs
      /\ Chain' = Chain /\ Alive' = Alive /\ \A n : Settled(n) => Settled(n)'
  BY <1>1, <1>8, MoveStep
<1>10. HeadInv'
  BY <1>2, <1>3, <1>8, MoveHead
<1>11. \A w \in Chain : w.zio \in Idle
  BY <1>3, NoWriter DEF IInv
<1>12. WriteInv'
  BY <1>1, <1>9, <1>11 DEF IInv, WriteInv, Idle, InFlight
<1>13. DiskInv'
  BY <1>1, <1>3, <1>8, <1>9, OnKept DEF IInv, DiskInv
<1>14. QuietInv'
  BY <1>1, <1>2, <1>9, <1>11, ChainType DEF IInv, QuietInv
<1>15. \A n \in Seqs : n \notin itxList => Settled(n)
  <2> SUFFICES ASSUME NEW n \in Seqs, n \notin itxList, itxs[n].txg <= until[c]
               PROVE  Settled(n)
    BY <1>2, <1>3 DEF IInv, RecInv
  <2>1. itxs[n].txg \in Nat /\ until[c] \in Nat /\ floor \in Nat
    BY ItxIs DEF IInv, TypeInv
  <2> QED
    BY <1>1, <2>1 DEF Settled, Durable
<1>16. RecInv'
  BY <1>1, <1>8, <1>9, <1>15, MoveRec
<1>17. LoopInv'
  <2>1. \A n \in Seqs : n < wcommit => n \notin itxList
    BY <1>3 DEF IInv, LoopInv, TypeInv, Seqs
  <2>2. \A n \in Seqs : n <= seq[c] /\ Matches(n, foid[c]) => n \notin itxList
    BY <1>2, <1>3 DEF IInv, LoopInv, TypeInv, Seqs
  <2>3. \A n \in promised' : Settled(n)
    BY <1>1, <1>15, <2>2 DEF IInv, LoopInv
  <2> QED
    BY <1>1, <1>2, <1>9, <1>15, <2>1, <2>3 DEF LoopInv
<1> QED
  BY <1>5, <1>6, <1>7, <1>9, <1>10, <1>12, <1>13, <1>14, <1>16, <1>17 DEF IInv

\* zio_wait(): every record of the round is sealed, or the txg will be waited for.
LEMMA ZioWaitStep ==
  ASSUME IInv, NEW c \in Callers, ZioWait(c), ~Panic
  PROVE  IInv'
<1>1. /\ pc[c] = "zio" /\ pc' = [pc EXCEPT ![c] = "finish"]
      /\ \A i \in DOMAIN lwbs : lwbs[i].zio \notin InFlight
      /\ disk' = (IF root THEN Flushed ELSE disk) /\ logError' = FALSE
      /\ until' = [until EXCEPT ![c] = open] \/ (until' = [until EXCEPT ![c] = 0] /\ wlwb)
      /\ UNCHANGED <<open, floor, holders, dirtied, durable, seq, foid, itxs, itxList, lwbs, writer,
                     commitSeq, wlwb, wnext, wcommit, root, destroyTxg, suspend, suspending, zh, zhDisk,
                     synced, space, chain, promised, dead>>
  BY DEF ZioWait, LogLost, Goto, SetUntil, svc, call, susp, header, wvars, InFlight
<1>2. /\ pc' \in [Callers -> Labels] /\ CallerInv' /\ (Quiet' <=> Quiet)
      /\ writer = c /\ c # Nobody /\ (\A L : At(L) <=> "zio" \in L) /\ (\A L : At(L)' <=> "finish" \in L)
  <2>1. \A d \in Callers : d # c => until'[d] = until[d]
    BY <1>1 DEF IInv, TypeInv
  <2>2. pc[c] \in WriterLabels /\ "finish" \in WriterLabels
    BY <1>1 DEF WriterLabels
  <2>3. /\ pc' \in [Callers -> Labels] /\ CallerInv' /\ (Quiet' <=> Quiet)
        /\ writer = c /\ c # Nobody /\ (\A L : At(L) <=> pc[c] \in L) /\ (\A L : At(L)' <=> "finish" \in L)
    BY <1>1, <2>1, <2>2, WriterMove
  <2> QED
    BY <1>1, <2>3
<1>3. /\ ~At({"createwait"}) /\ ~At({"create"}) /\ Working /\ ~At({"bigwait", "finish"})
      /\ ~At({"fill", "bigwait"}) /\ At({"zio", "finish"})
  BY <1>2 DEF Working
<1>4. /\ ~At({"createwait"})' /\ ~At({"create"})' /\ ~Working' /\ At({"bigwait", "finish"})' /\ ~At(Filling)'
      /\ ~At({"create", "createwait", "bigwait"})' /\ At({"zio", "finish"})' /\ writer' # Nobody
  BY <1>1, <1>2 DEF Working, Filling
<1>o. open \in Nat /\ until'[c] \in Nat /\ (wlwb \/ until'[c] = open)
  BY <1>1 DEF IInv, TypeInv
<1>f. Flushed = [d \in DVAs |-> [disk[d] EXCEPT !.stable = disk[d].stable \/ disk[d].next # Hole]]
  BY DEF Flushed
<1>d. \A d \in DVAs :
        disk[d] \in [blk : Ptrs, recs : SUBSET Nat, next : Ptrs, stable : BOOLEAN, bad : BOOLEAN]
  BY DEF IInv, TypeInv
<1>t. disk' \in [DVAs -> [blk : Ptrs, recs : SUBSET Nat, next : Ptrs, stable : BOOLEAN, bad : BOOLEAN]]
  <2>1. CASE root
    <3>1. \A d \in DVAs : [disk[d] EXCEPT !.stable = disk[d].stable \/ disk[d].next # Hole] \in
            [blk : Ptrs, recs : SUBSET Nat, next : Ptrs, stable : BOOLEAN, bad : BOOLEAN]
      <4>1. \A d \in DVAs : (disk[d].stable \/ disk[d].next # Hole) \in BOOLEAN
        BY <1>d
      <4> QED
        BY <1>d, <4>1
    <3>2. disk' = Flushed
      BY <1>1, <2>1
    <3> QED
      BY ONLY <1>f, <3>1, <3>2
  <2>2. CASE ~root
    BY <1>1, <2>2 DEF IInv, TypeInv
  <2> QED
    BY <2>1, <2>2
<1>k. DiskKept /\ \A d \in DVAs : root /\ disk[d].next # Hole => disk'[d].stable
  BY <1>1, <1>f, <1>d DEF DiskKept
<1>5. TypeInv'
  <2>1. until' \in [Callers -> Nat] /\ logError' \in BOOLEAN
    BY <1>1, <1>o DEF IInv, TypeInv
  <2> QED
    BY <1>1, <1>2, <1>t, <2>1 DEF IInv, TypeInv, Upto, Seqs
<1>6. WriterInv'
  BY <1>1, <1>4 DEF IInv, WriterInv
<1>7. LogSame
  BY <1>1 DEF LogSame
<1>8. /\ SpaceInv' /\ LinkInv' /\ BirthInv' /\ OrderInv' /\ Seqs' = Seqs
      /\ Chain' = Chain /\ Alive' = Alive /\ Upto' = Upto /\ \A n : Settled(n) => Settled(n)'
  BY <1>1, <1>k, <1>7, MoveStep
<1>10. HeadInv'
  BY <1>3, <1>4, <1>7, MoveHead
<1>11. \A w \in Chain : w.zio \in Idle
  <2>1. \A w \in Members(lwbs) : w.zio \notin InFlight
    BY <1>1 DEF Members
  <2>2. \A w \in Kept : w.zio = "none"
    BY DEF Kept, Lwb
  <2>3. \A w \in dead : w.zio \in Idle
    BY DEF IInv, SpaceInv
  <2>4. \A w \in Chain : w.zio # "init"
    BY <1>3 DEF IInv, WriteInv
  <2>5. \A w \in Chain : w.zio \in Idle \cup InFlight \cup {"init"}
    BY ChainType, LwbFields DEF IInv, Idle, InFlight
  <2> QED
    BY <2>1, <2>2, <2>3, <2>4, <2>5 DEF Chain, Alive, Idle, InFlight
<1>12. WriteInv'
  BY <1>1, <1>8, <1>11 DEF IInv, WriteInv, Idle, InFlight
<1>x. \A w \in Chain : w.zio = "done" => On(w).bad \/ w.next = Hole \/ On(w)'.stable
  <2> SUFFICES ASSUME NEW w \in Chain, w.zio = "done", ~On(w).bad, w.next # Hole
               PROVE  On(w)'.stable
    OBVIOUS
  <2>1. w.blk.dva \in DVAs
    BY ChainType, LwbFields DEF IInv
  <2>2. On(w).next # Hole /\ (On(w).stable \/ root)
    BY DEF IInv, DiskInv, Match
  <2>3. On(w).stable => On(w)'.stable
    BY <1>k, OnKept DEF IInv
  <2> QED
    BY <1>k, <2>1, <2>2, <2>3 DEF On
<1>13. DiskInv'
  <2>1. \A w \in Chain : w.zio \in {"released", "done"} /\ w.next # Hole => On(w)'.bad \/ On(w)'.stable
    BY <1>11, <1>x, <1>k, OnKept DEF IInv, Idle
  <2>2. \A d \in DVAs : disk'[d].blk = disk[d].blk
    BY <1>k DEF DiskKept
  <2> QED
    BY <1>1, <1>k, <1>8, <2>1, <2>2, OnKept DEF IInv, DiskInv
<1>14. QuietInv'
  BY <1>1, <1>2, <1>4, <1>8 DEF IInv, QuietInv
<1>15. RecInv'
  <2>1. ASSUME NEW n \in Seqs, n \notin itxList, Logged(n), wlwb
        PROVE  Settled(n)'
    <3>1. PICK w \in Chain : n \in w.recs
      BY <2>1 DEF Logged
    <3>2. lwbs # << >> /\ Last(lwbs).buf /\ Last(lwbs) \in Chain /\ Alive = Members(lwbs)
      BY <1>2, <2>1, MembersIs, ChainType DEF IInv, WriterInv, Panic, TypeInv
    <3>3. w.zio = "done" /\ w # Last(lwbs)
      BY <1>11, <3>1, <3>2 DEF IInv, WriteInv, Idle
    <3>4. w.next # Hole
      <4>1. CASE w \in Members(lwbs)
        <5>1. PICK i \in DOMAIN lwbs : w = lwbs[i]
          BY <4>1 DEF Members
        <5>2. i \in 1..Len(lwbs) /\ i # Len(lwbs) /\ Len(lwbs) \in Nat
          BY <5>1, <3>3 DEF Last, IInv, TypeInv
        <5>3. i + 1 \in 1..Len(lwbs)
          BY <5>2
        <5>4. lwbs[i + 1] \in Lwbs
          BY <5>3 DEF IInv, TypeInv
        <5>5. lwbs[i].next = lwbs[i + 1].blk
          BY <5>1, <5>2 DEF IInv, LinkInv
        <5> QED
          BY <5>1, <5>4, <5>5, LwbFields
      <4>2. CASE w \in dead
        <5>1. lwbs[1] \in Alive /\ lwbs[1] \in Chain
          BY <3>2, MembersIs, ChainType DEF IInv, TypeInv
        <5>2. SameChain(w, lwbs[1])
          BY <1>3, <3>1, <5>1 DEF IInv, HeadInv, SameChain
        <5> QED
          BY <4>2, <5>1, <5>2, <3>1 DEF IInv, LinkInv
      <4> QED
        BY <3>1, <3>2, <4>1, <4>2 DEF Chain
    <3>5. Sealed(w)'
      <4> SUFFICES ASSUME NEW v \in Chain, v = w \/ Before(v, w)
                   PROVE  v.zio = "done" /\ (On(v)'.bad \/ (On(v)'.stable /\ v.next # Hole))
        BY <1>8 DEF Sealed, Before, SameChain
      <4>1. v.next # Hole
        BY <3>1, <3>4 DEF IInv, LinkInv
      <4>2. v.zio = "done"
        BY <1>11, <4>1 DEF IInv, LinkInv, Idle
      <4>3. On(v)'.bad = On(v).bad
        BY <1>k, OnKept DEF IInv
      <4> QED
        BY <1>x, <4>1, <4>2, <4>3
    <3> QED
      BY <1>8, <3>1, <3>5 DEF Settled
  <2>2. ASSUME NEW n \in Seqs, ~wlwb
        PROVE  itxs[n].txg <= until'[c]
    BY <1>o, <2>2 DEF IInv, RecInv
  <2>3. \A n \in Seqs : n \notin itxList => Settled(n) \/ Logged(n) \/ ~wlwb
    BY <1>3 DEF IInv, RecInv
  <2>4. \A n \in Seqs : n \notin itxList =>
          Settled(n)' \/ (At({"bigwait", "finish"})' /\ itxs[n].txg <= until'[writer'])
    BY <1>1, <1>2, <1>4, <1>8, <2>1, <2>2, <2>3
  <2> QED
    BY <1>1, <1>k, <1>7, <2>4, MoveRec
<1>16. LoopInv'
  BY <1>1, <1>2, <1>3, <1>4, <1>8 DEF IInv, LoopInv, Matches, Seqs
<1> QED
  BY <1>2, <1>5, <1>6, <1>8, <1>10, <1>12, <1>13, <1>14, <1>15, <1>16 DEF IInv

\* zil_commit() returns, waits or becomes the writer.
LEMMA CommitStep ==
  ASSUME IInv, NEW c \in Callers, Commit(c)
  PROVE  IInv'
<1>1. UNCHANGED <<svc, until, itxs, itxList, lwbs, commitSeq, logError, susp, header, pool, dead>>
  BY DEF Commit
<1>2. /\ pc[c] \in {"commit", "woken"}
      /\ \/ StartWriter(c) \/ Wait(c)
         \/ OtherCommitted(c) /\ Goto(c, After(c)) /\ Keep(c) /\ UNCHANGED <<writer, wvars>>
  BY DEF Commit
<1>3. CASE Wait(c)
  BY <1>1, <1>2, <1>3, WaitStep
<1>4. CASE StartWriter(c) /\ ~(lwbs = << >> /\ itxList = {} /\ ~Suspended)
  BY <1>1, <1>2, <1>4, StartWriterStep
<1>5. CASE StartWriter(c) /\ lwbs = << >> /\ itxList = {} /\ ~Suspended
  <2>1. writer = Nobody /\ pc' = [WakeAll EXCEPT ![c] = After(c)] /\ Keep(c) /\ UNCHANGED <<writer, wvars>>
    BY <1>5 DEF StartWriter
  <2>2. /\ pc' \in [Callers -> Labels] /\ pc'[c] = After(c)
        /\ \A d \in Callers : d # c => pc'[d] = pc[d] \/ (pc[d] = "cvwait" /\ pc'[d] = "woken")
    <3>1. WakeAll \in [Callers -> Labels] /\ After(c) \in Labels
      BY WakeIs, AfterIs DEF IInv
    <3>2. \A d \in Callers : d # c => pc'[d] = WakeAll[d]
      BY <2>1, <3>1
    <3> QED
      BY <2>1, <3>1, <3>2, WakeIs DEF IInv
  <2>3. \A n \in Seqs : Settled(n)
    BY <1>5, <2>1 DEF IInv, RecInv, Working, At
  <2> QED
    BY <1>1, <1>2, <2>1, <2>2, <2>3, ReturnStep
<1>6. CASE OtherCommitted(c) /\ Goto(c, After(c)) /\ Keep(c) /\ UNCHANGED <<writer, wvars>>
  <2>1. /\ pc' \in [Callers -> Labels] /\ pc'[c] = After(c) /\ \A d \in Callers : d # c => pc'[d] = pc[d]
    BY <1>6, AfterIs DEF Goto, IInv, TypeInv
  <2>2. \A n \in Seqs : n <= seq[c] => Settled(n)
    <3>1. seq[c] \in Nat /\ commitSeq \in Nat /\ seq[c] < commitSeq /\ Seqs \subseteq Nat
      BY <1>6 DEF IInv, TypeInv, OtherCommitted, Seqs
    <3>2. \A n \in Seqs : n <= seq[c] => n < commitSeq
      BY <3>1
    <3> QED
      BY <3>2 DEF IInv, LoopInv
  <2> QED
    BY <1>1, <1>2, <1>6, <2>1, <2>2, ReturnStep
<1> QED
  BY <1>2, <1>3, <1>4, <1>5, <1>6

-----------------------------------------------------------------------------
(* zil_create() *)

LEMMA OneIs ==
  ASSUME NEW w
  PROVE  Members(<<w>>) = {w} /\ Len(<<w>>) = 1 /\ <<w>>[1] = w /\ <<w>> # << >> /\ DOMAIN <<w>> = 1..1
         /\ Last(<<w>>) = w
  BY DEF Members, Last

\* The log that the header has is taken.
LEMMA CreateKeptStep ==
  ASSUME IInv, NEW c \in Callers, NEW d \in DVAs \cup {Nobody}, Create(c, d), zh # Hole
  PROVE  IInv'
<1> DEFINE k == Lwb(zh, 0)
<1>1. /\ pc[c] = "create" /\ pc' = [pc EXCEPT ![c] = "fill"] /\ floor >= destroyTxg
      /\ lwbs' = <<k>> /\ wlwb' = TRUE
      /\ UNCHANGED <<open, floor, holders, dirtied, durable, seq, foid, until, itxs, itxList, writer,
                     commitSeq, wnext, wcommit, root, logError, destroyTxg, suspend, suspending, zh, zhDisk,
                     synced, space, chain, disk, promised, dead>>
  BY DEF Create, Goto, call, susp, header
<1>2. /\ pc' \in [Callers -> Labels] /\ CallerInv' /\ (Quiet' <=> Quiet)
      /\ writer = c /\ c # Nobody /\ (\A L : At(L) <=> "create" \in L) /\ (\A L : At(L)' <=> "fill" \in L)
  <2>2. pc[c] \in WriterLabels /\ "fill" \in WriterLabels
    BY <1>1 DEF WriterLabels
  <2>3. /\ pc' \in [Callers -> Labels] /\ CallerInv' /\ (Quiet' <=> Quiet)
        /\ writer = c /\ c # Nobody /\ (\A L : At(L) <=> pc[c] \in L) /\ (\A L : At(L)' <=> "fill" \in L)
    BY <1>1, <2>2, WriterMove
  <2> QED
    BY <1>1, <2>3
<1>3. /\ ~At({"createwait"}) /\ At({"create"}) /\ ~Working /\ ~At({"bigwait", "finish"})
      /\ ~At({"fill", "bigwait"}) /\ At({"create", "createwait", "bigwait"}) /\ At(Filling)
  BY <1>2 DEF Working, Filling
<1>4. /\ ~At({"createwait"})' /\ ~At({"create"})' /\ Working' /\ ~At({"bigwait", "finish"})' /\ At(Filling)'
      /\ At({"fill", "bigwait"})' /\ ~At({"create", "createwait", "bigwait"})' /\ ~At({"zio", "finish"})'
  BY <1>2 DEF Working, Filling
<1>z. zh \in Blks /\ floor \in Nat /\ destroyTxg \in Nat
  BY DEF IInv, TypeInv, Ptrs
<1>k. /\ k \in Lwbs /\ k.blk = zh /\ k.recs = {} /\ k.next = Hole /\ k.buf /\ k.maxTxg = 0 /\ k.zio = "none"
  BY <1>z, LwbIs
<1>5. lwbs = << >> /\ ~Quiet /\ destroyTxg <= floor
  BY <1>1, <1>3, <1>z DEF IInv, WriterInv, QuietInv
<1>m. Members(lwbs) = {} /\ Kept = {k}
  BY <1>5 DEF Members, Kept
<1> HIDE DEF k
<1>6. Members(lwbs') = {k} /\ Kept' = {} /\ Members(lwbs)' = {k}
  BY <1>1, OneIs DEF Kept, Members
<1>7. Alive = {k} /\ Alive' = {k} /\ Chain' = Chain /\ k \in Chain /\ Upto' = Upto
  BY <1>1, <1>m, <1>6 DEF Alive, Chain, Upto
<1>8. TypeInv'
  <2>1. lwbs' \in Seq(Lwbs)
    BY <1>1, <1>k
  <2>2. wlwb' \in BOOLEAN /\ Seqs' = Seqs
    BY <1>1 DEF Seqs
  <2> QED
    BY <1>1, <1>2, <1>7, <2>1, <2>2 DEF IInv, TypeInv
<1>9. WriterInv'
  BY <1>1, <1>2, <1>4, OneIs DEF WriterInv
<1>10. SpaceInv'
  BY <1>1, <1>7 DEF IInv, SpaceInv, Birth, FreedIn
<1>11. LinkInv'
  <2>1. \A i \in DOMAIN lwbs' : i = 1 /\ i = Len(lwbs') /\ lwbs'[i] = k
    BY <1>1, OneIs
  <2>2. k.blk.num \in Nat
    BY <1>k, LwbFields
  <2>3. \A i \in DOMAIN lwbs' :
          /\ lwbs'[i].blk.guid = lwbs'[1].blk.guid /\ lwbs'[i].blk.num = lwbs'[1].blk.num + i - 1
          /\ lwbs'[i].next = IF i = Len(lwbs') THEN Hole ELSE lwbs'[i + 1].blk
          /\ i < Len(lwbs') => lwbs'[i].zio \in InFlight \cup {"done"}
    BY <1>k, <2>1, <2>2
  <2> QED
    BY <1>1, <1>7, <2>3 DEF IInv, LinkInv, SameChain, Before, FreedIn
<1>12. HeadInv'
  BY <1>1, <1>3, <1>4, <1>7, <1>k, OneIs DEF IInv, HeadInv, FreedIn
<1>13. \A w \in Chain : w.zio \in Idle
  BY <1>3, NoWriter DEF IInv
<1>14. WriteInv'
  BY <1>1, <1>7, <1>13, <1>k, OneIs DEF IInv, WriteInv, Idle, InFlight
<1>15. DiskInv'
  BY <1>1, <1>3, <1>7 DEF IInv, DiskInv, On, Match
<1>16. BirthInv'
  BY <1>1, <1>7 DEF IInv, BirthInv, Before, SameChain, Birth, On
<1>17. QuietInv'
  BY <1>1, <1>2, <1>5, <1>z DEF IInv, QuietInv, Quiet
<1>18. \A n : Settled(n)' <=> Settled(n)
  BY <1>1, <1>7 DEF Settled, Durable, Sealed, Before, SameChain, On, Seqs
<1>19. RecInv'
  <2>1. \A n \in Seqs : n \notin itxList => Settled(n)
    BY <1>3 DEF IInv, RecInv
  <2> QED
    BY <1>1, <1>7, <1>18, <2>1 DEF IInv, RecInv, FreedIn, Seqs
<1>20. LoopInv'
  BY <1>1, <1>2, <1>3, <1>4, <1>18 DEF IInv, LoopInv, Matches, Seqs
<1>21. OrderInv'
  BY <1>1, <1>7 DEF IInv, OrderInv, Durable, Before, SameChain, Seqs
<1> QED
  BY <1>2, <1>8, <1>9, <1>10, <1>11, <1>12, <1>14, <1>15, <1>16, <1>17, <1>19, <1>20, <1>21 DEF IInv

\* No block can be allocated for a log.
LEMMA CreateNoneStep ==
  ASSUME IInv, NEW c \in Callers, Create(c, Nobody), zh = Hole
  PROVE  IInv'
<1>1. /\ pc[c] = "create" /\ pc' = [pc EXCEPT ![c] = "createwait"] /\ floor >= destroyTxg
      /\ until' = [until EXCEPT ![c] = open] /\ dirtied' = dirtied \cup {<<0, open>>}
      /\ wlwb' = FALSE
      /\ UNCHANGED <<open, floor, holders, durable, seq, foid, itxs, itxList, lwbs, writer,
                     commitSeq, wnext, wcommit, root, logError, destroyTxg, suspend, suspending, zh, zhDisk,
                     synced, space, chain, disk, promised, dead>>
  BY DEF Create, Goto, SetUntil, call, susp, header
<1>2. /\ pc' \in [Callers -> Labels] /\ CallerInv' /\ (Quiet' <=> Quiet)
      /\ writer = c /\ c # Nobody /\ (\A L : At(L) <=> "create" \in L) /\ (\A L : At(L)' <=> "createwait" \in L)
  <2>1. \A d \in Callers : d # c => until'[d] = until[d]
    BY <1>1
  <2>2. pc[c] \in WriterLabels /\ "createwait" \in WriterLabels
    BY <1>1 DEF WriterLabels
  <2>3. /\ pc' \in [Callers -> Labels] /\ CallerInv' /\ (Quiet' <=> Quiet)
        /\ writer = c /\ c # Nobody /\ (\A L : At(L) <=> pc[c] \in L) /\ (\A L : At(L)' <=> "createwait" \in L)
    BY <1>1, <2>1, <2>2, WriterMove
  <2> QED
    BY <1>1, <2>3
<1>3. /\ ~At({"createwait"}) /\ At({"create"}) /\ ~Working /\ ~At({"bigwait", "finish"})
      /\ ~At({"fill", "bigwait"}) /\ At({"create", "createwait", "bigwait"}) /\ At(Filling)
  BY <1>2 DEF Working, Filling
<1>4. /\ At({"createwait"})' /\ ~At({"create"})' /\ ~Working' /\ ~At({"bigwait", "finish"})' /\ At(Filling)'
      /\ ~At({"fill", "bigwait"})' /\ ~At({"zio", "finish"})'
  BY <1>2 DEF Working, Filling
<1>5. lwbs = << >> /\ ~Quiet /\ destroyTxg <= floor
  BY <1>1, <1>3 DEF IInv, WriterInv, QuietInv, TypeInv
<1>u. open \in Nat /\ until'[c] = open
  BY <1>1 DEF IInv, TypeInv
<1>6. TypeInv'
  <2>1. until' \in [Callers -> Nat] /\ dirtied' \subseteq Nat \X Nat
    BY <1>1 DEF IInv, TypeInv
  <2> QED
    BY <1>1, <1>2, <2>1 DEF IInv, TypeInv, Upto, Seqs
<1>7. LogSame /\ DiskKept
  BY <1>1 DEF LogSame, DiskKept
<1>8. /\ SpaceInv' /\ LinkInv' /\ BirthInv' /\ OrderInv'
      /\ Chain' = Chain /\ Alive' = Alive /\ Upto' = Upto /\ \A n : Settled(n) => Settled(n)'
  BY <1>1, <1>7, MoveStep
<1>9. WriterInv'
  BY <1>1, <1>2, <1>4, <1>5, <1>u DEF WriterInv
<1>10. HeadInv'
  BY <1>1, <1>3, <1>5, <1>8 DEF IInv, HeadInv, FreedIn
<1>11. \A w \in Chain : w.zio \in Idle
  BY <1>3, NoWriter DEF IInv
<1>12. WriteInv'
  BY <1>1, <1>8, <1>11 DEF IInv, WriteInv, Idle, InFlight
<1>13. DiskInv'
  BY <1>1, <1>3, <1>4, <1>7, <1>8, OnKept DEF IInv, DiskInv
<1>14. QuietInv'
  BY <1>1, <1>2, <1>5 DEF IInv, QuietInv, Quiet, TypeInv
<1>15. RecInv'
  <2>1. \A n \in Seqs : n \notin itxList => Settled(n)
    BY <1>3 DEF IInv, RecInv
  <2> QED
    BY <1>1, <1>7, <1>8, <2>1, MoveRec
<1>16. LoopInv'
  BY <1>1, <1>2, <1>3, <1>4, <1>8 DEF IInv, LoopInv, Matches, Seqs
<1> QED
  BY <1>2, <1>6, <1>8, <1>9, <1>10, <1>12, <1>13, <1>14, <1>15, <1>16 DEF IInv

\* A block that can be allocated is not one of the log.
LEMMA UsableIs ==
  ASSUME TypeInv, SpaceInv, NEW d \in Usable
  PROVE  d \in DVAs /\ d # Nobody /\ \A w \in Chain : w.blk.dva # d
<1>1. d \in DVAs /\ d # Nobody
  BY Names DEF Usable
<1>2. \A w \in Chain : Birth(w) # 0 /\ FreedIn(w) \notin 1..floor
  BY DEF Chain, SpaceInv, TypeInv
<1> QED
  BY <1>1, <1>2 DEF Usable, Birth, FreedIn

LEMMA AllocIs ==
  ASSUME TypeInv, NEW d \in DVAs, space' = Alloc(d, open)
  PROVE  /\ space' \in [DVAs -> [birth : Nat, freed : Nat]]
         /\ space'[d].birth = open /\ space'[d].freed = 0
         /\ \A e \in DVAs : e # d => space'[e] = space[e]
  BY DEF Alloc, TypeInv

\* The first block of a new log.
LEMMA CreateNewStep ==
  ASSUME IInv, NEW c \in Callers, NEW d \in DVAs, Create(c, d), zh = Hole
  PROVE  IInv'
<1>0. d # Nobody
  BY Names
<1>p. PICK b : b = Blk(d, chain + 1, 1)
  OBVIOUS
<1>g. PICK f : f = Lwb(b, open)
  OBVIOUS
<1>1. /\ pc[c] = "create" /\ pc' = [pc EXCEPT ![c] = "createwait"] /\ floor >= destroyTxg
      /\ until' = [until EXCEPT ![c] = open] /\ dirtied' = dirtied \cup {<<0, open>>}
      /\ wlwb' = TRUE /\ lwbs' = <<f>> /\ chain' = chain + 1 /\ d \in Usable /\ space' = Alloc(d, open)
      /\ UNCHANGED <<open, floor, holders, durable, seq, foid, itxs, itxList, writer,
                     commitSeq, wnext, wcommit, root, logError, destroyTxg, suspend, suspending, zh, zhDisk,
                     synced, disk, promised, dead>>
  BY <1>0, <1>p, <1>g DEF Create, Goto, SetUntil, call, susp, header
<1>2. /\ pc' \in [Callers -> Labels] /\ CallerInv' /\ (Quiet' <=> Quiet)
      /\ writer = c /\ c # Nobody /\ (\A L : At(L) <=> "create" \in L) /\ (\A L : At(L)' <=> "createwait" \in L)
  <2>1. \A e \in Callers : e # c => until'[e] = until[e]
    BY <1>1
  <2>2. pc[c] \in WriterLabels /\ "createwait" \in WriterLabels
    BY <1>1 DEF WriterLabels
  <2>3. /\ pc' \in [Callers -> Labels] /\ CallerInv' /\ (Quiet' <=> Quiet)
        /\ writer = c /\ c # Nobody /\ (\A L : At(L) <=> pc[c] \in L) /\ (\A L : At(L)' <=> "createwait" \in L)
    BY <1>1, <2>1, <2>2, WriterMove
  <2> QED
    BY <1>1, <2>3
<1>3. /\ ~At({"createwait"}) /\ At({"create"}) /\ ~Working /\ ~At({"bigwait", "finish"})
      /\ ~At({"fill", "bigwait"}) /\ At({"create", "createwait", "bigwait"}) /\ At(Filling)
  BY <1>2 DEF Working, Filling
<1>4. /\ At({"createwait"})' /\ ~At({"create"})' /\ ~Working' /\ ~At({"bigwait", "finish"})' /\ At(Filling)'
      /\ ~At({"fill", "bigwait"})' /\ ~At({"zio", "finish"})'
  BY <1>2 DEF Working, Filling
<1>5. lwbs = << >> /\ ~Quiet /\ destroyTxg <= floor
  BY <1>1, <1>3 DEF IInv, WriterInv, QuietInv, TypeInv
<1>u. open \in Nat /\ until'[c] = open /\ chain \in Nat \ {0} /\ floor \in Nat /\ floor < open /\ Upto < open
      /\ open > 0 /\ Upto \in Nat
  BY <1>1 DEF IInv, TypeInv, Upto
<1>b. b \in Blks /\ b # Hole /\ b.dva = d /\ b.guid = chain + 1 /\ b.num = 1
  BY <1>u, <1>p, BlkIs
<1>f. /\ f \in Lwbs /\ f.blk = b /\ f.recs = {} /\ f.next = Hole /\ f.buf /\ f.maxTxg = open /\ f.zio = "none"
  BY <1>b, <1>g, <1>u, LwbIs
<1>6. Alive = {} /\ Chain = dead
  BY <1>5 DEF Alive, Kept, Members, Chain
<1>7. Alive' = {f} /\ Chain' = dead \cup {f} /\ Upto' = Upto
  <2>1. Members(lwbs)' = {f} /\ Kept' = {}
    BY <1>1, OneIs DEF Kept, Members
  <2> QED
    BY <1>1, <2>1 DEF Alive, Chain, Upto
<1>8. \A w \in dead : /\ w \in Lwbs /\ w.blk.dva # d /\ w.blk.dva \in DVAs /\ w.blk.guid <= chain
                      /\ w.blk.guid # f.blk.guid /\ Birth(w)' = Birth(w) /\ FreedIn(w)' = FreedIn(w)
                      /\ ~SameChain(w, f) /\ ~SameChain(f, w)
  <2> SUFFICES ASSUME NEW w \in dead
               PROVE  /\ w \in Lwbs /\ w.blk.dva # d /\ w.blk.dva \in DVAs /\ w.blk.guid <= chain
                      /\ w.blk.guid # f.blk.guid /\ Birth(w)' = Birth(w) /\ FreedIn(w)' = FreedIn(w)
                      /\ ~SameChain(w, f) /\ ~SameChain(f, w)
    OBVIOUS
  <2>1. w \in Lwbs /\ w.blk.dva \in DVAs /\ w.blk.guid \in Nat /\ w.blk.dva # d
    BY <1>1, <1>6, ChainType, LwbFields, UsableIs DEF IInv
  <2>2. w.blk.guid <= chain
    BY <1>6 DEF IInv, LinkInv
  <2> QED
    BY <1>1, <1>b, <1>f, <1>u, <2>1, <2>2, AllocIs DEF IInv, Birth, FreedIn, SameChain
<1>9. Birth(f)' = open /\ FreedIn(f)' = 0
  BY <1>1, <1>b, <1>f, AllocIs DEF IInv, Birth, FreedIn
<1>10. TypeInv'
  <2>1. until' \in [Callers -> Nat] /\ dirtied' \subseteq Nat \X Nat /\ chain' \in Nat \ {0}
    BY <1>1, <1>u DEF IInv, TypeInv
  <2>2. lwbs' \in Seq(Lwbs)
    BY <1>1, <1>f
  <2>3. space' \in [DVAs -> [birth : Nat, freed : Nat]]
    BY <1>1, AllocIs DEF IInv
  <2> QED
    BY <1>1, <1>2, <2>1, <2>2, <2>3 DEF IInv, TypeInv, Upto, Seqs
<1>11. WriterInv'
  <2>1. lwbs'[1] = f /\ lwbs' # << >> /\ lwbs' = <<Lwb(f.blk, open)>>
    BY <1>1, <1>f, <1>g, OneIs
  <2>2. Birth(lwbs[1])' = open
    BY <1>9, <2>1 DEF Birth
  <2> QED
    BY <1>1, <1>2, <1>4, <1>u, <2>1, <2>2 DEF WriterInv
<1>12. SpaceInv'
  <2>1. \A w \in dead : w.blk.dva # f.blk.dva
    BY <1>8, <1>f, <1>b
  <2>2. \A e \in DVAs : space'[e].birth # 0 /\ space'[e].freed \notin 1..floor =>
          \E w \in Chain' : w.blk.dva = e
    <3> SUFFICES ASSUME NEW e \in DVAs, e # d, space'[e].birth # 0, space'[e].freed \notin 1..floor
                 PROVE  \E w \in Chain' : w.blk.dva = e
      BY <1>7, <1>b, <1>f
    <3> QED
      BY <1>1, <1>6, <1>7, AllocIs DEF IInv, SpaceInv
  <2>3. \A e \in DVAs : space'[e].birth <= open
    BY <1>1, <1>u, AllocIs DEF IInv, SpaceInv
  <2>4. \A w \in Alive' : Birth(w)' > 0 /\ FreedIn(w)' = 0
    BY <1>7, <1>9, <1>u
  <2>5. \A w \in dead' : /\ Birth(w)' > 0 /\ FreedIn(w)' > floor'
                         /\ FreedIn(w)' = destroyTxg' \/ (synced' /\ FreedIn(w)' = floor' + 1)
                         /\ w.zio \in Idle
    BY <1>1, <1>8 DEF IInv, SpaceInv
  <2>6. \A v, w \in Chain' : v.blk.dva = w.blk.dva => v = w
    BY <1>6, <1>7, <2>1 DEF IInv, SpaceInv
  <2> QED
    BY <1>1, <2>2, <2>3, <2>4, <2>5, <2>6 DEF SpaceInv
<1>13. LinkInv'
  <2>1. \A i \in DOMAIN lwbs' : i = 1 /\ i = Len(lwbs') /\ lwbs'[i] = f
    BY <1>1, OneIs
  <2>3. \A i \in DOMAIN lwbs' :
          /\ lwbs'[i].blk.guid = lwbs'[1].blk.guid /\ lwbs'[i].blk.num = lwbs'[1].blk.num + i - 1
          /\ lwbs'[i].next = IF i = Len(lwbs') THEN Hole ELSE lwbs'[i + 1].blk
          /\ i < Len(lwbs') => lwbs'[i].zio \in InFlight \cup {"done"}
    BY <1>b, <1>f, <2>1
  <2>4. \A w \in Chain' : w.blk.guid <= chain'
    BY <1>1, <1>7, <1>8, <1>b, <1>f, <1>u, LwbFields
  <2>5. \A w \in Chain' : w.next # Hole => \E v \in Chain' : v.blk = w.next
    BY <1>6, <1>7, <1>f DEF IInv, LinkInv
  <2>6. \A w \in Chain' : w.next # Hole =>
         w.next.guid = w.blk.guid /\ w.next.num = w.blk.num + 1 /\ w.zio \notin {"none", "init"}
    BY <1>6, <1>7, <1>f DEF IInv, LinkInv
  <2>7. \A v, w \in Chain' : SameChain(v, w) => (v = f /\ w = f) \/ (v \in dead /\ w \in dead)
    BY <1>7, <1>8
  <2>8. ~(f.blk.num < f.blk.num)
    BY <1>b, <1>f
  <2>9. \A v, w \in Chain' : Before(v, w) => v \in dead /\ w \in dead
    BY <2>7, <2>8 DEF Before
  <2>10. \A v, w \in Chain' : Before(v, w) => v.next # Hole
    BY <1>6, <2>9 DEF IInv, LinkInv
  <2>11. \A v, w \in Chain' : SameChain(v, w) /\ v.blk.num = w.blk.num => v = w
    BY <1>6, <2>7 DEF IInv, LinkInv
  <2>12. \A v \in dead', w \in Alive' : SameChain(v, w) => Before(v, w)
    BY <1>1, <1>7, <1>8
  <2>13. \A v, w \in dead' : Before(v, w) => FreedIn(v)' <= FreedIn(w)'
    BY <1>1, <1>8 DEF IInv, LinkInv
  <2> QED
    BY <2>3, <2>4, <2>5, <2>6, <2>10, <2>11, <2>12, <2>13 DEF LinkInv, SameChain, Before
<1>l. lwbs'[1] = f /\ lwbs' # << >> /\ Last(lwbs)' = f
  BY <1>1, OneIs DEF Last
<1>14. HeadInv'
  <2>1. zhDisk # Hole => \E w \in dead : w.blk = zhDisk
    BY <1>6 DEF IInv, HeadInv
  <2>2. zhDisk # Hole => zhDisk.guid # f.blk.guid
    BY <1>8, <2>1
  <2> QED
    BY <1>1, <1>2, <1>3, <1>4, <1>6, <1>7, <1>8, <1>l, <1>u, <2>1, <2>2 DEF IInv, HeadInv
<1>15. \A w \in Chain : w.zio \in Idle
  BY <1>3, NoWriter DEF IInv
<1>16. WriteInv'
  <2>1. \A w \in Chain' : w.zio \in Idle
    BY <1>6, <1>7, <1>15, <1>f DEF Idle
  <2>2. \A w \in Chain' : (w.buf <=> w.zio # "done") /\ (w.zio = "none" => w.recs = {})
    BY <1>6, <1>7, <1>f DEF IInv, WriteInv
  <2> QED
    BY <2>1, <2>2, <1>l, <1>f DEF WriteInv, Idle, InFlight
<1>17. DiskInv'
  <2>1. \A e \in DVAs : disk[e].blk # Hole => disk[e].blk.guid <= chain /\ disk[e].blk.guid \in Nat
    BY HoleIs DEF IInv, DiskInv, TypeInv, Ptrs
  <2>2. \A e \in DVAs : disk'[e].blk # Hole => disk'[e].blk.guid <= chain' /\ disk'[e].blk.guid # f.blk.guid
    BY <1>1, <1>b, <1>f, <1>u, <2>1
  <2>3. On(f)'.blk # f.blk
    BY <1>b, <1>f, <2>2 DEF On
  <2>4. \A w \in dead : On(w)' = On(w) /\ (Match(w)' <=> Match(w))
    BY <1>1 DEF On, Match
  <2> QED
    BY <1>1, <1>3, <1>6, <1>7, <1>f, <2>2, <2>3, <2>4 DEF IInv, DiskInv
<1>18. BirthInv'
  <2>1. \A v, w \in Chain' : Before(v, w) => v \in dead /\ w \in dead
    <3>1. ~(f.blk.num < f.blk.num)
      BY <1>b, <1>f
    <3> QED
      BY <1>7, <1>8, <3>1 DEF Before
  <2> QED
    BY <1>1, <1>6, <1>8, <2>1 DEF IInv, BirthInv, Before, SameChain, On
<1>19. QuietInv'
  BY <1>1, <1>2, <1>5 DEF IInv, QuietInv, Quiet, TypeInv
<1>20. \A n : Settled(n) => Settled(n)'
  <2>1. \A w \in dead : Sealed(w) => Sealed(w)'
    <3>1. \A v, w : Before(v, w)' <=> Before(v, w)
      BY DEF Before, SameChain
    <3>2. \A w \in dead : f # w /\ ~Before(f, w)
      BY <1>8 DEF Before, SameChain
    <3> QED
      BY <1>1, <1>6, <1>7, <3>1, <3>2 DEF Sealed, On
  <2>2. Durable' = Durable
    BY <1>1 DEF Durable, Seqs
  <2> QED
    BY <1>6, <1>7, <2>1, <2>2 DEF Settled
<1>21. RecInv'
  <2>1. \A n \in Seqs : n \notin itxList => Settled(n)
    BY <1>3 DEF IInv, RecInv
  <2>2. \A w \in Chain' : w.maxTxg <= open /\ \A n \in w.recs :
          n \in Seqs /\ n \notin itxList /\ itxs[n].txg <= w.maxTxg
    BY <1>6, <1>7, <1>f, <1>u DEF IInv, RecInv
  <2>3. \A w \in dead' : w.maxTxg <= FreedIn(w)'
    BY <1>1, <1>8 DEF IInv, RecInv
  <2> QED
    BY <1>1, <1>20, <2>1, <2>2, <2>3 DEF IInv, RecInv, Seqs
<1>22. LoopInv'
  BY <1>1, <1>2, <1>3, <1>4, <1>20 DEF IInv, LoopInv, Matches, Seqs
<1>23. OrderInv'
  BY <1>1, <1>6, <1>7, <1>f DEF IInv, OrderInv, Durable, Before, SameChain, Seqs
<1> QED
  BY <1>2, <1>10, <1>11, <1>12, <1>13, <1>14, <1>16, <1>17, <1>18, <1>19, <1>21, <1>22, <1>23 DEF IInv

-----------------------------------------------------------------------------
(* Steps that change one lwb *)

\* The lwb at i becomes u, which has the same block and points to the same one.
Replaced(i, u) ==
  /\ lwbs' = [lwbs EXCEPT ![i] = u] /\ u.blk = lwbs[i].blk /\ u.next = lwbs[i].next
  /\ u.zio \in {"none", "init"} => lwbs[i].zio \in {"none", "init"}
  /\ UNCHANGED <<floor, open, dead, zh, zhDisk, synced, space, chain, destroyTxg, itxs>>

LEMMA ReplacedIs ==
  ASSUME IInv, NEW i \in DOMAIN lwbs, NEW u \in Lwbs, Replaced(i, u)
  PROVE  /\ lwbs' \in Seq(Lwbs) /\ Len(lwbs') = Len(lwbs) /\ lwbs' # << >> /\ lwbs # << >>
         /\ i \in 1..Len(lwbs) /\ Len(lwbs) \in Nat /\ DOMAIN lwbs' = 1..Len(lwbs)
         /\ lwbs'[i] = u /\ \A j \in 1..Len(lwbs) : j # i => lwbs'[j] = lwbs[j] /\ lwbs[j] # lwbs[i]
         /\ \A j \in 1..Len(lwbs) : lwbs'[j].blk = lwbs[j].blk /\ lwbs'[j].next = lwbs[j].next
         /\ lwbs[i] \in Alive /\ lwbs[i] \in Chain /\ lwbs[i] \notin dead
         /\ Alive' = (Alive \ {lwbs[i]}) \cup {u} /\ Chain' = (Chain \ {lwbs[i]}) \cup {u}
         /\ Upto' = Upto /\ dead' = dead
<1>1. /\ lwbs \in Seq(Lwbs) /\ i \in 1..Len(lwbs) /\ Len(lwbs) \in Nat
      /\ lwbs' = [lwbs EXCEPT ![i] = u] /\ u.blk = lwbs[i].blk /\ u.next = lwbs[i].next
  BY DEF IInv, TypeInv, Replaced
<1>2. lwbs' \in Seq(Lwbs) /\ Len(lwbs') = Len(lwbs) /\ DOMAIN lwbs' = 1..Len(lwbs)
  BY <1>1
<1>3. lwbs' # << >> /\ lwbs # << >>
  BY <1>1, <1>2
<1>4. lwbs'[i] = u /\ \A j \in 1..Len(lwbs) : j # i => lwbs'[j] = lwbs[j]
  BY <1>1
<1>5. \A j \in 1..Len(lwbs) : j # i => lwbs[j] # lwbs[i]
  <2>1. lwbs[1] \in Lwbs /\ lwbs[1].blk.num \in Nat
    <3>1. lwbs[1] \in Lwbs
      BY <1>1
    <3> QED
      BY <3>1, LwbFields
  <2>2. \A j \in 1..Len(lwbs) : lwbs[j].blk.num = lwbs[1].blk.num + j - 1
    BY <1>1 DEF IInv, LinkInv
  <2>3. \A j \in 1..Len(lwbs) : j # i => lwbs[j].blk.num # lwbs[i].blk.num
    BY <1>1, <2>1, <2>2
  <2> QED
    BY <2>3
<1>6. Alive = Members(lwbs) /\ Members(lwbs) = {lwbs[j] : j \in 1..Len(lwbs)}
  BY <1>1, <1>3, MembersIs, ChainType DEF IInv
<1>7. Alive' = {lwbs'[j] : j \in 1..Len(lwbs)}
  <2>1. Kept' = {}
    BY <1>3 DEF Kept
  <2>2. Members(lwbs)' = {lwbs'[j] : j \in 1..Len(lwbs)}
    BY <1>2 DEF Members
  <2> QED
    BY <2>1, <2>2 DEF Alive
<1>8. Alive' = (Alive \ {lwbs[i]}) \cup {u}
  BY <1>1, <1>4, <1>5, <1>6, <1>7
<1>9. lwbs[i] \in Alive /\ lwbs[i] \in Chain
  BY <1>1, <1>6, ChainType DEF IInv
<1>10. lwbs[i] \notin dead
  BY <1>9 DEF IInv, SpaceInv, TypeInv
<1>11. dead' = dead /\ Upto' = Upto
  BY DEF Replaced, Upto
<1> QED
  BY <1>1, <1>2, <1>3, <1>4, <1>5, <1>8, <1>9, <1>10, <1>11 DEF Chain

LEMMA ReplacedLog ==
  ASSUME IInv, NEW i \in DOMAIN lwbs, NEW u \in Lwbs, Replaced(i, u)
  PROVE  SpaceInv' /\ LinkInv'
<1> DEFINE w == lwbs[i]
<1>1. /\ DOMAIN lwbs' = 1..Len(lwbs) /\ Len(lwbs') = Len(lwbs) /\ Len(lwbs) \in Nat /\ i \in 1..Len(lwbs)
      /\ lwbs'[i] = u /\ (\A j \in 1..Len(lwbs) : j # i => lwbs'[j] = lwbs[j])
      /\ (\A j \in 1..Len(lwbs) : lwbs'[j].blk = lwbs[j].blk /\ lwbs'[j].next = lwbs[j].next)
      /\ w \in Alive /\ w \in Chain /\ w \notin dead
      /\ Alive' = (Alive \ {w}) \cup {u} /\ Chain' = (Chain \ {w}) \cup {u} /\ dead' = dead
  BY ReplacedIs
<1>2. /\ u.blk = w.blk /\ u.next = w.next /\ (u.zio \in {"none", "init"} => w.zio \in {"none", "init"})
      /\ UNCHANGED <<floor, open, zh, zhDisk, synced, space, chain, destroyTxg>>
  BY DEF Replaced
<1>t. w.zio \in {"none", "init"} \cup InFlight \cup {"done"} /\ u.zio \in {"none", "init"} \cup InFlight \cup {"done"}
  BY <1>1, ChainType, LwbFields DEF IInv, InFlight
<1> HIDE DEF w
<1>3. SpaceInv'
  <2>1. \A v \in Alive' : Birth(v)' > 0 /\ FreedIn(v)' = 0
    BY <1>1, <1>2 DEF IInv, SpaceInv, Birth, FreedIn
  <2>2. \A v \in dead' : /\ Birth(v)' > 0 /\ FreedIn(v)' > floor'
                         /\ FreedIn(v)' = destroyTxg' \/ (synced' /\ FreedIn(v)' = floor' + 1)
                         /\ v.zio \in Idle
    BY <1>1, <1>2 DEF IInv, SpaceInv, Birth, FreedIn
  <2>3. \A v, x \in Chain' : v.blk.dva = x.blk.dva => v = x
    BY <1>1, <1>2 DEF IInv, SpaceInv
  <2>4. \A d \in DVAs : space'[d].birth # 0 /\ space'[d].freed \notin 1..floor' =>
          \E v \in Chain' : v.blk.dva = d
    BY <1>1, <1>2 DEF IInv, SpaceInv
  <2> QED
    BY <1>2, <2>1, <2>2, <2>3, <2>4 DEF IInv, SpaceInv
<1>4. LinkInv'
  <2>1. \A j \in DOMAIN lwbs' :
          /\ lwbs'[j].blk.guid = lwbs'[1].blk.guid /\ lwbs'[j].blk.num = lwbs'[1].blk.num + j - 1
          /\ lwbs'[j].next = IF j = Len(lwbs') THEN Hole ELSE lwbs'[j + 1].blk
    <3> SUFFICES ASSUME NEW j \in 1..Len(lwbs)
                 PROVE  /\ lwbs'[j].blk.guid = lwbs'[1].blk.guid
                        /\ lwbs'[j].blk.num = lwbs'[1].blk.num + j - 1
                        /\ lwbs'[j].next = IF j = Len(lwbs) THEN Hole ELSE lwbs'[j + 1].blk
      BY <1>1
    <3>0. j \in DOMAIN lwbs
      BY DEF IInv, TypeInv
    <3>1. 1 \in 1..Len(lwbs) /\ (j # Len(lwbs) => j + 1 \in 1..Len(lwbs)) /\ j \in DOMAIN lwbs
      BY ONLY <1>1, <3>0, j \in 1..Len(lwbs)
    <3>2. /\ lwbs[j].blk.guid = lwbs[1].blk.guid /\ lwbs[j].blk.num = lwbs[1].blk.num + j - 1
          /\ lwbs[j].next = IF j = Len(lwbs) THEN Hole ELSE lwbs[j + 1].blk
      BY <3>1 DEF IInv, LinkInv
    <3>3. lwbs'[j].blk = lwbs[j].blk /\ lwbs'[1].blk = lwbs[1].blk /\ lwbs'[j].next = lwbs[j].next
          /\ (j # Len(lwbs) => lwbs'[j + 1].blk = lwbs[j + 1].blk)
      BY <1>1, <3>1
    <3> QED
      BY <3>2, <3>3
  <2>2. \A j \in DOMAIN lwbs' : j < Len(lwbs') => lwbs'[j].zio \in InFlight \cup {"done"}
    <3> SUFFICES ASSUME NEW j \in 1..Len(lwbs), j < Len(lwbs)
                 PROVE  lwbs'[j].zio \in InFlight \cup {"done"}
      BY <1>1
    <3>1. lwbs[j].zio \in InFlight \cup {"done"}
      BY DEF IInv, LinkInv, TypeInv
    <3> QED
      BY <1>1, <1>2, <1>t, <3>1 DEF w, InFlight
  <2>3. /\ \A v \in Chain' : v.blk.guid <= chain'
        /\ \A v \in Chain' : v.next # Hole => \E x \in Chain' : x.blk = v.next
        /\ \A v \in Chain' : v.next # Hole =>
             v.next.guid = v.blk.guid /\ v.next.num = v.blk.num + 1 /\ v.zio \notin {"none", "init"}
    BY <1>1, <1>2 DEF IInv, LinkInv
  <2>4. /\ \A v, x \in Chain' : Before(v, x) => v.next # Hole
        /\ \A v, x \in Chain' : SameChain(v, x) /\ v.blk.num = x.blk.num => v = x
    BY <1>1, <1>2 DEF IInv, LinkInv, Before, SameChain
  <2>5. /\ \A v \in dead', x \in Alive' : SameChain(v, x) => Before(v, x)
        /\ \A v, x \in dead' : Before(v, x) => FreedIn(v)' <= FreedIn(x)'
    BY <1>1, <1>2 DEF IInv, LinkInv, Before, SameChain, FreedIn
  <2> QED
    BY <2>1, <2>2, <2>3, <2>4, <2>5 DEF LinkInv, Before, SameChain
<1> QED
  BY <1>3, <1>4

LEMMA ReplacedHead ==
  ASSUME IInv, NEW i \in DOMAIN lwbs, NEW u \in Lwbs, Replaced(i, u),
         ~At({"createwait"}), ~At({"createwait"})'
  PROVE  HeadInv'
<1> DEFINE w == lwbs[i]
<1>1. /\ w \in Chain /\ Chain' = (Chain \ {w}) \cup {u} /\ Upto' = Upto /\ lwbs' # << >> /\ lwbs # << >>
      /\ Len(lwbs) \in Nat
      /\ (\A j \in 1..Len(lwbs) : lwbs'[j].blk = lwbs[j].blk)
  BY ReplacedIs
<1>2. u.blk = w.blk /\ UNCHANGED <<floor, zh, zhDisk, synced, space>>
  BY DEF Replaced
<1>3. lwbs'[1].blk = lwbs[1].blk
  BY <1>1 DEF IInv, TypeInv
<1> HIDE DEF w
<1>4. zh = lwbs[1].blk
  BY <1>1 DEF IInv, HeadInv
<1>5. zhDisk # Hole =>
       /\ \E v \in Chain' : v.blk = zhDisk
       /\ \A v \in Chain' : v.blk.guid = zhDisk.guid => v.blk.num >= zhDisk.num
  BY <1>1, <1>2 DEF IInv, HeadInv
<1>6. zh # Hole =>
       /\ \E v \in Chain' : v.blk = zh /\ FreedIn(v)' \notin 1..Upto
       /\ \A v \in Chain' : FreedIn(v)' \notin 1..Upto /\ v.blk.guid = zh.guid => v.blk.num >= zh.num
  BY <1>1, <1>2 DEF IInv, HeadInv, FreedIn
<1>7. \A v \in Chain' : v.blk.guid = zhDisk.guid /\ (FreedIn(v)' \notin 1..Upto => v.blk.guid = zh.guid)
  BY <1>1, <1>2 DEF IInv, HeadInv, FreedIn
<1> QED
  BY <1>1, <1>2, <1>3, <1>4, <1>5, <1>6, <1>7 DEF IInv, HeadInv

\* An lwb that is not done has no sealed record after it, and no block after it is
\* in a synced txg unless its write is over.
LEMMA ReplacedRecs ==
  ASSUME IInv, NEW i \in DOMAIN lwbs, NEW u \in Lwbs, Replaced(i, u), lwbs[i].zio # "done",
         \A d \in DVAs : d # lwbs[i].blk.dva => disk'[d] = disk[d]
  PROVE  /\ \A n : Settled(n) => Settled(n)'
         /\ Durable' = Durable
         /\ (lwbs[i].zio \in {"released", "failed"} => disk' = disk /\ u.zio = "done") => BirthInv'
         /\ lwbs[i].recs \subseteq u.recs => \A n : Logged(n) => Logged(n)'
         /\ lwbs[i].recs = u.recs => OrderInv'
<1> DEFINE w == lwbs[i]
<1>1. /\ w \in Chain /\ Chain' = (Chain \ {w}) \cup {u}
  BY ReplacedIs
<1>2. u.blk = w.blk /\ UNCHANGED <<floor, space, itxs>>
  BY DEF Replaced
<1>a. w.zio # "done" /\ \A d \in DVAs : d # w.blk.dva => disk'[d] = disk[d]
  OBVIOUS
<1>b. w.zio \in {"none", "init", "io", "released", "failed"}
  BY <1>1, ChainType, LwbFields DEF IInv
<1>w. w = lwbs[i]
  OBVIOUS
<1> HIDE DEF w
<1>3. \A v \in Chain : v # w => On(v)' = On(v)
  <2>1. \A v \in Chain : v.blk.dva \in DVAs
    BY ChainType, LwbFields DEF IInv
  <2>2. \A v \in Chain : v # w => v.blk.dva # w.blk.dva
    BY <1>1 DEF IInv, SpaceInv
  <2> QED
    BY <1>a, <2>1, <2>2 DEF On
<1>4. Durable' = Durable
  BY <1>2 DEF Durable, Seqs
<1>5. \A v, x : Before(v, x)' <=> Before(v, x)
  BY DEF Before, SameChain
<1>6. \A x \in Chain : Before(u, x) <=> Before(w, x)
  BY <1>2 DEF Before, SameChain
<1>7. \A n : Settled(n) => Settled(n)'
  <2>1. ASSUME NEW x \in Chain, Sealed(x)
        PROVE  x \in Chain' /\ Sealed(x)'
    <3>1. x # w /\ ~Before(w, x)
      BY <1>1, <1>a, <2>1 DEF Sealed
    <3>2. x \in Chain' /\ (u = x => u \in Chain /\ u # w)
      BY <1>1, <3>1
    <3>3. \A v \in Chain' : v = x \/ Before(v, x) => v \in Chain /\ v # w
      BY <1>1, <1>6, <3>1, <3>2
    <3> QED
      BY <2>1, <1>3, <1>5, <3>2, <3>3 DEF Sealed
  <2> QED
    BY <1>4, <2>1 DEF Settled
<1>8. w.recs \subseteq u.recs => \A n : Logged(n) => Logged(n)'
  BY <1>1 DEF Logged
<1>9. ASSUME w.recs = u.recs PROVE OrderInv'
  <2> SUFFICES ASSUME NEW x \in Chain', NEW n \in x.recs, NEW m \in 1..(n - 1),
                      itxs[m].file \in {itxs[n].file, AnyFile}, m \notin Durable
               PROVE  \E v \in Chain' : m \in v.recs /\ (v = x \/ Before(v, x))
    BY <1>2, <1>4, <1>5 DEF OrderInv
  <2>1. PICK y \in Chain : y.blk = x.blk /\ y.recs = x.recs /\ (y = x \/ (y = w /\ x = u))
    BY <1>1, <1>2, <1>9
  <2>2. PICK v \in Chain : m \in v.recs /\ (v = y \/ Before(v, y))
    BY <2>1 DEF IInv, OrderInv
  <2>3. PICK z \in Chain' : z.blk = v.blk /\ z.recs = v.recs /\ (z = v \/ (v = w /\ z = u))
    BY <1>1, <1>2, <1>9
  <2>4. Before(v, y) => Before(z, x)
    BY <2>1, <2>3 DEF Before, SameChain
  <2>5. v = y => m \in x.recs
    BY <2>1, <2>2
  <2> QED
    BY <2>2, <2>3, <2>4, <2>5
<1>10. ASSUME w.zio \in {"released", "failed"} => disk' = disk /\ u.zio = "done" PROVE BirthInv'
  <2> SUFFICES ASSUME NEW v \in Chain', NEW x \in Chain', Before(v, x)
               PROVE  /\ Birth(v)' <= Birth(x)'
                      /\ Birth(x)' <= floor => v.zio \in {"released", "failed", "done"}
    BY <1>2, <1>5 DEF BirthInv
  <2>1. PICK y \in Chain : y.blk = x.blk
    BY <1>1, <1>2
  <2>2. PICK z \in Chain : z.blk = v.blk /\ ((z = v /\ v # w) \/ (z = w /\ v = u))
    BY <1>1, <1>2
  <2>3. Before(z, y)
    BY <2>1, <2>2 DEF Before, SameChain
  <2>4. Birth(v)' = Birth(z) /\ Birth(x)' = Birth(y)
    BY <1>2, <2>1, <2>2 DEF Birth
  <2>5. Birth(z) <= Birth(y) /\ (Birth(y) <= floor => z.zio \in {"released", "failed", "done"})
    BY <2>3 DEF IInv, BirthInv
  <2>6. CASE z = v /\ v # w
    BY <1>3, <2>4, <2>5, <2>6
  <2>7. CASE z = w /\ v = u
    <3>1. Birth(y) <= floor => disk' = disk /\ u.zio = "done"
      BY <1>10, <1>a, <2>5, <2>7
    <3> QED
      BY <1>2, <2>4, <2>5, <2>7, <3>1 DEF On
  <2> QED
    BY <2>2, <2>6, <2>7
<1> QED
  BY <1>4, <1>7, <1>8, <1>9, <1>10, <1>w

\* What zil_lwb_write_done() does to the rest.
LEMMA IoStep ==
  ASSUME IInv, NEW i \in DOMAIN lwbs, NEW u \in Lwbs, Replaced(i, u), lwbs[i].zio \in InFlight,
         u.recs = lwbs[i].recs, u.maxTxg = lwbs[i].maxTxg, u.buf <=> u.zio # "done",
         u.zio \in {"released", "failed", "done"},
         lwbs[i].zio \in {"released", "failed"} => disk' = disk /\ u.zio = "done",
         \A d \in DVAs : d # lwbs[i].blk.dva => disk'[d] = disk[d],
         disk' \in [DVAs -> [blk : Ptrs, recs : SUBSET Nat, next : Ptrs, stable : BOOLEAN, bad : BOOLEAN]],
         holders' \subseteq holders, \A h \in holders : h[1] # lwbs[i].blk.dva => h \in holders',
         logError' \in BOOLEAN, DiskInv',
         UNCHANGED <<dirtied, durable, pc, seq, foid, until, itxList, writer, commitSeq, wvars,
                     suspend, suspending, promised>>
  PROVE  IInv'
<1> DEFINE w == lwbs[i]
<1>1. /\ lwbs' \in Seq(Lwbs) /\ Len(lwbs') = Len(lwbs) /\ lwbs' # << >> /\ lwbs # << >>
      /\ i \in 1..Len(lwbs) /\ Len(lwbs) \in Nat
      /\ lwbs'[i] = u /\ (\A j \in 1..Len(lwbs) : j # i => lwbs'[j] = lwbs[j] /\ lwbs[j] # w)
      /\ w \in Alive /\ w \in Chain /\ w \notin dead
      /\ Alive' = (Alive \ {w}) \cup {u} /\ Chain' = (Chain \ {w}) \cup {u} /\ Upto' = Upto /\ dead' = dead
  BY ReplacedIs
<1>2. /\ u.blk = w.blk /\ u.next = w.next
      /\ UNCHANGED <<floor, open, dead, zh, zhDisk, synced, space, chain, destroyTxg, itxs>>
      /\ UNCHANGED <<dirtied, durable, pc, seq, foid, until, itxList, writer, commitSeq, wlwb, wnext,
                     wcommit, root, suspend, suspending, promised>>
  BY DEF Replaced, wvars
<1>3. Working /\ root /\ ~At({"createwait"}) /\ ~At({"create"}) /\ w.zio \in InFlight /\ w.zio # "done"
  <2>1. Working /\ root
    BY <1>1 DEF IInv, WriteInv
  <2> QED
    BY <2>1 DEF Working, At, InFlight
<1>a. u.recs = w.recs /\ u.maxTxg = w.maxTxg
  OBVIOUS
<1>h. \A h \in holders : h[1] # w.blk.dva => h \in holders'
  OBVIOUS
<1>w. w = lwbs[i]
  OBVIOUS
<1> HIDE DEF w
<1>4. (\A L : At(L)' <=> At(L)) /\ (Working' <=> Working) /\ Seqs' = Seqs
  BY <1>2 DEF At, Working, Seqs
<1>5. TypeInv'
  <2>1. holders' \subseteq (Callers \cup DVAs) \X Nat
    BY DEF IInv, TypeInv
  <2> QED
    BY <1>1, <1>2, <2>1 DEF IInv, TypeInv, Upto, Seqs
<1>6. CallerInv'
  BY <1>2 DEF IInv, CallerInv
<1>7. WriterInv'
  BY <1>1, <1>2, <1>3, <1>4 DEF IInv, WriterInv
<1>8. QuietInv'
  <2>1. ~Quiet /\ ~(destroyTxg > floor)
    BY <1>1, <1>3 DEF IInv, QuietInv, InFlight, Idle
  <2>2. ~Quiet'
    BY <1>2, <2>1 DEF Quiet
  <2> QED
    BY <1>2, <2>1, <2>2 DEF IInv, QuietInv, Quiet
<1>9. SpaceInv' /\ LinkInv'
  BY ReplacedLog
<1>10. HeadInv'
  BY <1>3, <1>4, ReplacedHead
<1>11. /\ BirthInv' /\ OrderInv' /\ \A n : (Settled(n) => Settled(n)') /\ (Logged(n) => Logged(n)')
  BY <1>3, <1>a, <1>w, ReplacedRecs
<1>12. WriteInv'
  <2>1. wlwb => i # Len(lwbs)
    BY <1>1, <1>3, <1>w DEF IInv, WriteInv, Last, InFlight
  <2>2. wlwb => Last(lwbs)' = Last(lwbs) /\ Last(lwbs) # w
    <3>1. Len(lwbs) \in 1..Len(lwbs)
      BY <1>1
    <3> QED
      BY <1>1, <2>1, <3>1 DEF Last
  <2>3. \A v \in Chain' : v = u \/ (v \in Chain /\ v # w)
    BY <1>1
  <2>4. ASSUME NEW v \in Chain, v # w, v.zio = "io"
        PROVE  \E h \in holders' : h[1] = v.blk.dva /\ (v.next # Hole => h[2] <= space[v.next.dva].birth)
    <3>1. v.blk.dva # w.blk.dva
      BY <1>1, <2>4 DEF IInv, SpaceInv
    <3> QED
      BY <1>h, <2>4, <3>1 DEF IInv, WriteInv
  <2>5. \A v \in Chain' : v.zio = "io" =>
          \E h \in holders' : h[1] = v.blk.dva /\ (v.next # Hole => h[2] <= space'[v.next.dva].birth)
    BY <1>2, <2>3, <2>4
  <2>6. \A v \in Chain' : (v.buf <=> v.zio # "done") /\ (v.zio = "none" => v.recs = {})
    BY <2>3 DEF IInv, WriteInv
  <2>7. \A v \in Chain' : v.zio = "init" => wlwb' /\ root' /\ At({"fill", "bigwait"})' /\ v = Last(lwbs)'
    BY <1>2, <1>4, <2>2, <2>3 DEF IInv, WriteInv
  <2>8. \A v \in Chain' : v.zio \in InFlight => root' /\ Working'
    BY <1>2, <1>3, <1>4
  <2>9. wlwb' => Last(lwbs)'.zio \in {"none", "init", "done"}
    BY <1>2, <2>2 DEF IInv, WriteInv
  <2> QED
    BY <2>5, <2>6, <2>7, <2>8, <2>9 DEF WriteInv
<1>13. RecInv'
  <2>1. \A v \in Chain' : v.maxTxg <= open /\ \A n \in v.recs :
          n \in Seqs /\ n \notin itxList /\ itxs[n].txg <= v.maxTxg
    BY <1>1, <1>a DEF IInv, RecInv
  <2>2. \A v \in dead' : v.maxTxg <= FreedIn(v)'
    BY <1>2 DEF IInv, RecInv, FreedIn
  <2>3. \A n \in Seqs : n \notin itxList =>
       \/ Settled(n)'
       \/ At({"bigwait", "finish"}) /\ itxs[n].txg <= until[writer]
       \/ Working /\ (Logged(n)' \/ ~wlwb)
    BY <1>11 DEF IInv, RecInv
  <2> QED
    BY <1>2, <1>4, <2>1, <2>2, <2>3 DEF IInv, RecInv
<1>14. LoopInv'
  BY <1>2, <1>4, <1>11 DEF IInv, LoopInv, Matches
<1> QED
  BY <1>5, <1>6, <1>7, <1>8, <1>9, <1>10, <1>11, <1>12, <1>13, <1>14 DEF IInv

LEMMA InFlightIs ==
  ASSUME TypeInv, NEW w \in Lwbs, NEW z \in {"released", "failed", "done"}, NEW b \in BOOLEAN
  PROVE  LET u == [w EXCEPT !.zio = z, !.buf = b] IN
           /\ u \in Lwbs /\ u.blk = w.blk /\ u.recs = w.recs /\ u.next = w.next /\ u.maxTxg = w.maxTxg
           /\ u.zio = z /\ u.buf = b
  BY DEF Lwbs, Idle, InFlight

\* The txg of a write is released.
LEMMA ReleasedIs ==
  ASSUME IInv, NEW i \in DOMAIN lwbs, NEW z \in {"released", "failed"}, Released(i, z)
  PROVE  LET u == [lwbs[i] EXCEPT !.zio = z] IN
           /\ u \in Lwbs /\ Replaced(i, u) /\ lwbs[i].zio = "io" /\ lwbs[i] \in Lwbs /\ lwbs[i].blk.dva \in DVAs
           /\ u.recs = lwbs[i].recs /\ u.maxTxg = lwbs[i].maxTxg /\ u.buf /\ u.zio = z
           /\ holders' = {h \in holders : h[1] # lwbs[i].blk.dva}
           /\ UNCHANGED <<dirtied, durable, pc, seq, foid, until, itxList, writer, commitSeq, wvars,
                          suspend, suspending, promised, logError>>
<1>1. /\ lwbs[i].zio = "io" /\ holders' = {h \in holders : h[1] # lwbs[i].blk.dva}
      /\ lwbs' = [lwbs EXCEPT ![i].zio = z]
      /\ UNCHANGED <<open, floor, dirtied, durable, pc, seq, foid, until, itxs, itxList, writer,
                     commitSeq, wvars, logError, destroyTxg, suspend, suspending, zh, zhDisk, synced,
                     space, chain, promised, dead>>
  BY DEF Released, call, susp, header
<1>2. PICK w : w = lwbs[i]
  OBVIOUS
<1>3. w \in Lwbs /\ w \in Chain
  <2>1. lwbs \in Seq(Lwbs)
    BY DEF IInv, TypeInv
  <2>2. lwbs[i] \in Members(lwbs)
    BY DEF Members
  <2> QED
    BY <1>2, <2>1, <2>2, MembersIs, ChainType DEF IInv
<1>4. PICK u : u = [w EXCEPT !.zio = z]
  OBVIOUS
<1>5. u \in Lwbs /\ u.blk = w.blk /\ u.recs = w.recs /\ u.next = w.next /\ u.maxTxg = w.maxTxg /\ u.zio = z /\ u.buf = w.buf
  BY <1>3, <1>4 DEF Lwbs, Idle, InFlight
<1>6. w.buf
  BY <1>1, <1>2, <1>3 DEF IInv, WriteInv
<1>7. lwbs' = [lwbs EXCEPT ![i] = u]
  BY <1>1, <1>2, <1>4
<1>8. Replaced(i, u)
  BY <1>1, <1>2, <1>5, <1>7 DEF Replaced
<1>9. w.blk.dva \in DVAs
  BY <1>3, LwbFields
<1>10. u = [lwbs[i] EXCEPT !.zio = z]
  BY <1>2, <1>4
<1> QED
  BY <1>1, <1>2, <1>3, <1>5, <1>6, <1>8, <1>9, <1>10

LEMMA WriteDoneStep ==
  ASSUME IInv, NEW i \in DOMAIN lwbs, WriteDone(i)
  PROVE  IInv'
<1>1. PICK u : u = [lwbs[i] EXCEPT !.zio = "released"]
  OBVIOUS
<1>2. PICK w : w = lwbs[i]
  OBVIOUS
<1>3. /\ u \in Lwbs /\ Replaced(i, u) /\ w.zio = "io" /\ w \in Lwbs /\ w.blk.dva \in DVAs
      /\ u.recs = w.recs /\ u.maxTxg = w.maxTxg /\ u.buf /\ u.zio = "released"
      /\ holders' = {h \in holders : h[1] # w.blk.dva}
      /\ UNCHANGED <<dirtied, durable, pc, seq, foid, until, itxList, writer, commitSeq, wvars,
                     suspend, suspending, promised, logError>>
  BY <1>1, <1>2, ReleasedIs DEF WriteDone
<1>4. /\ disk' = [disk EXCEPT ![w.blk.dva] = [blk |-> w.blk, recs |-> w.recs, next |-> w.next,
                                             stable |-> FALSE, bad |-> FALSE]]
  BY <1>2 DEF WriteDone
<1>5. /\ disk' \in [DVAs -> [blk : Ptrs, recs : SUBSET Nat, next : Ptrs, stable : BOOLEAN, bad : BOOLEAN]]
      /\ \A d \in DVAs : d # w.blk.dva => disk'[d] = disk[d]
      /\ disk'[w.blk.dva].blk = w.blk /\ disk'[w.blk.dva].recs = w.recs /\ disk'[w.blk.dva].next = w.next
      /\ ~disk'[w.blk.dva].bad
  <2>1. w.blk \in Ptrs /\ w.recs \in SUBSET Nat /\ w.next \in Ptrs
    BY <1>3, LwbFields DEF Ptrs
  <2>2. disk \in [DVAs -> [blk : Ptrs, recs : SUBSET Nat, next : Ptrs, stable : BOOLEAN, bad : BOOLEAN]]
    BY DEF IInv, TypeInv
  <2> QED
    BY <1>3, <1>4, <2>1, <2>2
<1>6. u.blk = w.blk /\ u.next = w.next /\ chain' = chain
  BY <1>2, <1>3 DEF Replaced
<1>7. w \in Chain /\ Chain' = (Chain \ {w}) \cup {u}
  BY <1>2, <1>3, ReplacedIs
<1>8. \A v \in Chain' : v = u \/ (v \in Chain /\ v # w /\ v.blk.dva \in DVAs /\ On(v)' = On(v) /\ (Match(v)' <=> Match(v)))
  <2>1. \A v \in Chain : v # w => v.blk.dva # w.blk.dva /\ v.blk.dva \in DVAs
    BY <1>7, ChainType, LwbFields DEF IInv, SpaceInv
  <2> QED
    BY <1>5, <1>7, <2>1 DEF On, Match
<1>9. On(u)'.blk = u.blk /\ Match(u)'
  BY <1>3, <1>5, <1>6 DEF On, Match
<1>10. Working' /\ root'
  BY <1>3, <1>7 DEF IInv, WriteInv, InFlight, Working, At, wvars
<1>11. DiskInv'
  <2>1. \A v \in Chain' : v.zio \in {"released", "done"} => On(v)'.bad \/ Match(v)'
    BY <1>8, <1>9 DEF IInv, DiskInv
  <2>2. \A v \in Chain' : v.zio = "failed" => On(v)'.bad
    BY <1>3, <1>8 DEF IInv, DiskInv
  <2>3. \A v \in Chain' : On(v)'.blk = v.blk => Match(v)' /\ v.zio \in {"released", "failed", "done"}
    BY <1>3, <1>8, <1>9 DEF IInv, DiskInv
  <2>4. \A d \in DVAs : disk'[d].blk # Hole => disk'[d].blk.guid <= chain'
    BY <1>5, <1>6, <1>7 DEF IInv, DiskInv, LinkInv
  <2>5. ASSUME NEW d \in DVAs, NEW v \in Chain', disk'[d].blk # Hole, disk'[d].blk.guid = v.blk.guid
        PROVE  disk'[d].blk.num <= v.blk.num \/ v.next # Hole
    <3>1. PICK x \in Chain : x.blk = v.blk /\ x.next = v.next
      BY <1>6, <1>7
    <3>2. CASE d # w.blk.dva
      BY <1>5, <2>5, <3>1, <3>2 DEF IInv, DiskInv
    <3>3. CASE d = w.blk.dva
      <4>1. x.blk.num \in Nat /\ w.blk.num \in Nat /\ x.blk.guid = w.blk.guid /\ disk'[d].blk = w.blk
        BY <1>3, <1>5, <2>5, <3>1, <3>3, ChainType, LwbFields DEF IInv
      <4>2. x.blk.num < w.blk.num => x.next # Hole
        BY <1>7, <4>1 DEF IInv, LinkInv, Before, SameChain
      <4> QED
        BY <3>1, <4>1, <4>2
    <3> QED
      BY <3>2, <3>3
  <2> QED
    BY <1>10, <2>1, <2>2, <2>3, <2>4, <2>5 DEF DiskInv
<1>12. holders' \subseteq holders /\ (\A h \in holders : h[1] # lwbs[i].blk.dva => h \in holders') /\ logError' \in BOOLEAN
  BY <1>2, <1>3 DEF IInv, TypeInv
<1> QED
  BY <1>2, <1>3, <1>5, <1>11, <1>12, IoStep DEF InFlight

LEMMA WriteFailedStep ==
  ASSUME IInv, NEW i \in DOMAIN lwbs, WriteFailed(i)
  PROVE  IInv'
<1>1. PICK u : u = [lwbs[i] EXCEPT !.zio = "failed"]
  OBVIOUS
<1>2. PICK w : w = lwbs[i]
  OBVIOUS
<1>3. /\ u \in Lwbs /\ Replaced(i, u) /\ w.zio = "io" /\ w \in Lwbs /\ w.blk.dva \in DVAs
      /\ u.recs = w.recs /\ u.maxTxg = w.maxTxg /\ u.buf /\ u.zio = "failed"
      /\ holders' = {h \in holders : h[1] # w.blk.dva}
      /\ UNCHANGED <<dirtied, durable, pc, seq, foid, until, itxList, writer, commitSeq, wvars,
                     suspend, suspending, promised, logError>>
  BY <1>1, <1>2, ReleasedIs DEF WriteFailed
<1>4. /\ disk' = [disk EXCEPT ![w.blk.dva].bad = TRUE]
  BY <1>2 DEF WriteFailed
<1>5. /\ disk' \in [DVAs -> [blk : Ptrs, recs : SUBSET Nat, next : Ptrs, stable : BOOLEAN, bad : BOOLEAN]]
      /\ \A d \in DVAs : d # w.blk.dva => disk'[d] = disk[d]
      /\ \A d \in DVAs : disk'[d].blk = disk[d].blk
      /\ disk'[w.blk.dva].bad
  <2>2. disk \in [DVAs -> [blk : Ptrs, recs : SUBSET Nat, next : Ptrs, stable : BOOLEAN, bad : BOOLEAN]]
    BY DEF IInv, TypeInv
  <2> QED
    <3>1. /\ disk[w.blk.dva] \in [blk : Ptrs, recs : SUBSET Nat, next : Ptrs, stable : BOOLEAN, bad : BOOLEAN]
          /\ w.blk.dva \in DVAs
      BY <1>3, <2>2
    <3>2. PICK x : x = [disk[w.blk.dva] EXCEPT !.bad = TRUE]
      OBVIOUS
    <3>3. /\ x \in [blk : Ptrs, recs : SUBSET Nat, next : Ptrs, stable : BOOLEAN, bad : BOOLEAN]
          /\ x.blk = disk[w.blk.dva].blk /\ x.bad
      BY ONLY <3>1, <3>2
    <3>4. disk' = [disk EXCEPT ![w.blk.dva] = x]
      BY <1>4, <3>2
    <3> QED
      BY ONLY <2>2, <3>1, <3>3, <3>4
<1>6. u.blk = w.blk /\ u.next = w.next /\ chain' = chain
  BY <1>2, <1>3 DEF Replaced
<1>7. w \in Chain /\ Chain' = (Chain \ {w}) \cup {u}
  BY <1>2, <1>3, ReplacedIs
<1>8. \A v \in Chain' : v = u \/ (v \in Chain /\ v # w /\ v.blk.dva \in DVAs /\ On(v)' = On(v) /\ (Match(v)' <=> Match(v)))
  <2>1. \A v \in Chain : v # w => v.blk.dva # w.blk.dva /\ v.blk.dva \in DVAs
    BY <1>7, ChainType, LwbFields DEF IInv, SpaceInv
  <2> QED
    BY <1>5, <1>7, <2>1 DEF On, Match
<1>9. On(u)'.blk # u.blk /\ On(u)'.bad
  <2>1. On(w).blk # w.blk
    BY <1>3, <1>7 DEF IInv, DiskInv
  <2> QED
    BY <1>3, <1>5, <1>6, <2>1 DEF On
<1>10. Working' /\ root'
  BY <1>3, <1>7 DEF IInv, WriteInv, InFlight, Working, At, wvars
<1>11. DiskInv'
  <2>1. \A v \in Chain' : v.zio \in {"released", "done"} => On(v)'.bad \/ Match(v)'
    BY <1>8, <1>9 DEF IInv, DiskInv
  <2>2. \A v \in Chain' : v.zio = "failed" => On(v)'.bad
    BY <1>3, <1>8, <1>9 DEF IInv, DiskInv
  <2>3. \A v \in Chain' : On(v)'.blk = v.blk => Match(v)' /\ v.zio \in {"released", "failed", "done"}
    BY <1>3, <1>8, <1>9 DEF IInv, DiskInv
  <2>4. \A d \in DVAs : disk'[d].blk # Hole => disk'[d].blk.guid <= chain'
    BY <1>5, <1>6 DEF IInv, DiskInv
  <2>5. \A d \in DVAs, v \in Chain' : disk'[d].blk # Hole /\ disk'[d].blk.guid = v.blk.guid =>
          disk'[d].blk.num <= v.blk.num \/ v.next # Hole
    BY <1>5, <1>6, <1>7 DEF IInv, DiskInv
  <2> QED
    BY <1>10, <2>1, <2>2, <2>3, <2>4, <2>5 DEF DiskInv
<1>12. holders' \subseteq holders /\ (\A h \in holders : h[1] # lwbs[i].blk.dva => h \in holders') /\ logError' \in BOOLEAN
  BY <1>2, <1>3 DEF IInv, TypeInv
<1> QED
  BY <1>2, <1>3, <1>5, <1>11, <1>12, IoStep DEF InFlight

LEMMA BufFreeStep ==
  ASSUME IInv, NEW i \in DOMAIN lwbs, BufFree(i)
  PROVE  IInv'
<1>1. PICK w : w = lwbs[i]
  OBVIOUS
<1>2. PICK u : u = [w EXCEPT !.zio = "done", !.buf = FALSE]
  OBVIOUS
<1>3. /\ w.zio \in {"released", "failed"} /\ lwbs' = [lwbs EXCEPT ![i] = u]
      /\ logError' = (logError \/ w.zio = "failed")
      /\ UNCHANGED <<open, floor, holders, dirtied, durable, pc, seq, foid, until, itxs, itxList, writer,
                     commitSeq, wvars, destroyTxg, suspend, suspending, zh, zhDisk, synced,
                     space, chain, disk, promised, dead>>
  <2>1. lwbs' = [lwbs EXCEPT ![i] = [lwbs[i] EXCEPT !.zio = "done", !.buf = FALSE]]
    BY DEF BufFree
  <2> QED
    BY <1>1, <1>2, <2>1 DEF BufFree, svc, call, susp, header, pool
<1>4. w \in Lwbs
  <2>1. lwbs \in Seq(Lwbs)
    BY DEF IInv, TypeInv
  <2>2. lwbs[i] \in Members(lwbs)
    BY DEF Members
  <2> QED
    BY <1>1, <2>1, <2>2, MembersIs
<1>5. /\ u \in Lwbs /\ u.blk = w.blk /\ u.recs = w.recs /\ u.next = w.next /\ u.maxTxg = w.maxTxg
      /\ u.zio = "done" /\ u.buf = FALSE
  BY <1>2, <1>4, InFlightIs DEF IInv
<1>6. Replaced(i, u)
  BY <1>1, <1>3, <1>5 DEF Replaced
<1>7. w \in Chain /\ Chain' = (Chain \ {w}) \cup {u}
  BY <1>1, <1>5, <1>6, ReplacedIs
<1>8. \A v : On(v)' = On(v) /\ (Match(v)' <=> Match(v))
  BY <1>3 DEF On, Match
<1>9. On(u) = On(w) /\ (Match(u) <=> Match(w))
  BY <1>5 DEF On, Match
<1>10. (Working' <=> Working) /\ root' = root
  BY <1>3 DEF Working, At, wvars
<1>11. DiskInv'
  <2>1. \A v \in Chain' : v.zio \in {"released", "done"} => On(v)'.bad \/ Match(v)'
    BY <1>3, <1>7, <1>8, <1>9 DEF IInv, DiskInv
  <2>2. \A v \in Chain' : v.zio = "failed" => On(v)'.bad
    BY <1>5, <1>7, <1>8 DEF IInv, DiskInv
  <2>3. \A v \in Chain' : On(v)'.blk = v.blk => Match(v)' /\ v.zio \in {"released", "failed", "done"}
    BY <1>5, <1>7, <1>8, <1>9 DEF IInv, DiskInv
  <2>4. \A v \in Chain' : v.zio \in {"released", "done"} /\ v.next # Hole =>
           On(v)'.bad \/ On(v)'.stable \/ (root' /\ Working')
    BY <1>3, <1>5, <1>7, <1>8, <1>9, <1>10 DEF IInv, DiskInv
  <2>5. \A d \in DVAs, v \in Chain' : disk'[d].blk # Hole /\ disk'[d].blk.guid = v.blk.guid =>
          disk'[d].blk.num <= v.blk.num \/ v.next # Hole
    BY <1>3, <1>5, <1>7 DEF IInv, DiskInv
  <2> QED
    BY <1>3, <2>1, <2>2, <2>3, <2>4, <2>5 DEF IInv, DiskInv
<1>12. /\ disk' \in [DVAs -> [blk : Ptrs, recs : SUBSET Nat, next : Ptrs, stable : BOOLEAN, bad : BOOLEAN]]
       /\ logError' \in BOOLEAN
  BY <1>3 DEF IInv, TypeInv
<1> QED
  BY <1>1, <1>3, <1>5, <1>6, <1>11, <1>12, IoStep DEF InFlight

-----------------------------------------------------------------------------
(* The loop of the writer *)

\* The lwb that the writer fills is the end of the log.
LEMMA LastIs ==
  ASSUME IInv, wlwb, ~Panic, ~At({"createwait"})
  PROVE  /\ lwbs # << >> /\ Len(lwbs) \in DOMAIN lwbs /\ Len(lwbs) \in Nat /\ Last(lwbs) = lwbs[Len(lwbs)]
         /\ Last(lwbs) \in Lwbs /\ Last(lwbs) \in Alive /\ Last(lwbs) \in Chain
         /\ Last(lwbs).zio \in {"none", "init"} /\ Last(lwbs).next = Hole /\ Last(lwbs).buf
         /\ ~Quiet /\ ~(destroyTxg > floor)
         /\ \A x \in Chain : SameChain(x, Last(lwbs)) /\ (x = Last(lwbs) \/ Before(x, Last(lwbs)))
<1> DEFINE w == Last(lwbs)
<1>1. lwbs # << >> /\ writer # Nobody
  BY DEF IInv, WriterInv
<1>2. /\ Len(lwbs) \in Nat \ {0} /\ w = lwbs[Len(lwbs)] /\ w \in Members(lwbs) /\ w \in Alive /\ w \in Chain
      /\ lwbs[1] \in Chain /\ DOMAIN lwbs = 1..Len(lwbs)
  <2>1. lwbs \in Seq(Lwbs) /\ DOMAIN lwbs = 1..Len(lwbs)
    BY DEF IInv, TypeInv
  <2> QED
    BY <1>1, <2>1, MembersIs, ChainType DEF IInv
<1>3. Len(lwbs) \in DOMAIN lwbs
  BY <1>2
<1>4. w \in Lwbs /\ w.blk.num \in Nat
  BY <1>2, ChainType, LwbFields DEF IInv
<1>5. w.buf
  BY <1>1 DEF Panic
<1>6. w.zio \in {"none", "init"}
  BY <1>2, <1>5 DEF IInv, WriteInv
<1>7. w.next = Hole
  BY <1>2, <1>3 DEF IInv, LinkInv
<1>8. ~Quiet /\ ~(destroyTxg > floor)
  BY <1>1 DEF IInv, QuietInv
<1>9. ASSUME NEW x \in Chain PROVE SameChain(x, w) /\ (x = w \/ Before(x, w))
  <2>1. SameChain(x, w) /\ SameChain(w, x)
    BY <1>2 DEF IInv, HeadInv, SameChain
  <2>2. x.blk.num \in Nat
    BY ChainType, LwbFields DEF IInv
  <2>3. ~Before(w, x)
    BY <1>2, <1>7 DEF IInv, LinkInv
  <2>4. x.blk.num = w.blk.num => x = w
    BY <1>2, <2>1 DEF IInv, LinkInv
  <2> QED
    BY <1>4, <2>1, <2>2, <2>3, <2>4 DEF Before
<1> QED
  BY <1>1, <1>2, <1>3, <1>4, <1>5, <1>6, <1>7, <1>8, <1>9

\* The writer takes the first record that it has to push.
LEMMA TakeIs ==
  ASSUME IInv, NEW c \in Callers, pc[c] = "fill", ~Stop(c), Take(MinOf(Pushable(c)))
  PROVE  LET n == MinOf(Pushable(c)) IN
         /\ n \in itxList /\ n \in Seqs /\ itxList' = itxList \ {n}
         /\ wnext' \in {-1} \cup 0..Len(itxs)
         /\ \A m \in itxList' : Matches(m, foid[c]) => IF wnext' = -1 THEN m > seq[c] ELSE m >= wnext'
         /\ \A m \in 1..(n - 1) : itxs[m].file \in {itxs[n].file, AnyFile} => m \in Seqs /\ m \notin itxList
<1>1. writer = c /\ (\A L : At(L) <=> pc[c] \in L) /\ At(Filling)
  BY Positions DEF IInv, WriterLabels, Filling
<1>2. PICK n : n = MinOf(Pushable(c))
  OBVIOUS
<1>3. /\ n \in Seqs /\ n \in itxList /\ Matches(n, foid[c]) /\ wnext # -1 /\ n \in Nat /\ n <= Len(itxs)
      /\ \A m \in Pushable(c) : n <= m
  <2>1. Pushable(c) # {}
    BY DEF Stop
  <2>2. /\ n \in Seqs /\ n \in itxList /\ Matches(n, foid[c]) /\ wnext # -1
        /\ \A m \in Pushable(c) : n <= m
    BY <1>2, <2>1, PushableIs DEF IInv
  <2> QED
    BY <2>2, ItxIs DEF IInv
<1> DEFINE rest == {m \in itxList : m > n}
<1>4. itxList' = itxList \ {n} /\ wnext' = IF rest = {} THEN -1 ELSE MinOf(rest)
  BY <1>2 DEF Take
<1>5. itxList \subseteq Seqs /\ Seqs \subseteq Nat /\ Len(itxs) \in Nat /\ \A m \in Seqs : m <= Len(itxs)
  BY DEF IInv, TypeInv, Seqs
<1>6. rest # {} => MinOf(rest) \in rest /\ \A m \in rest : MinOf(rest) <= m
  <2>1. rest \in SUBSET Nat
    BY <1>5
  <2> HIDE DEF rest
  <2> QED
    BY <2>1, Least
<1>7. \A m \in itxList : Matches(m, foid[c]) => m \in Pushable(c)
  BY <1>1, <1>3 DEF IInv, LoopInv, Pushable
<1>8. \A m \in itxList' : Matches(m, foid[c]) => m \in rest
  BY <1>3, <1>4, <1>5, <1>7
<1>9. wnext' \in {-1} \cup 0..Len(itxs)
  <2>1. CASE rest = {}
    BY <1>4, <2>1
  <2>2. CASE rest # {}
    <3>1. wnext' \in itxList
      BY <1>4, <1>6, <2>2
    <3> QED
      BY <1>5, <3>1
  <2> QED
    BY <2>1, <2>2
<1>10. ASSUME NEW m \in itxList', Matches(m, foid[c])
       PROVE  IF wnext' = -1 THEN m > seq[c] ELSE m >= wnext'
  <2>1. m \in rest /\ m \in Nat
    BY <1>4, <1>5, <1>8, <1>10
  <2>2. wnext' = MinOf(rest) /\ MinOf(rest) <= m /\ MinOf(rest) \in Nat
    BY <1>4, <1>5, <1>6, <2>1
  <2> HIDE DEF rest
  <2> QED
    BY <2>1, <2>2
<1>11. ASSUME NEW m \in 1..(n - 1), itxs[m].file \in {itxs[n].file, AnyFile}
       PROVE  m \in Seqs /\ m \notin itxList
  <2>1. m \in Seqs /\ m < n
    BY <1>3, <1>5 DEF Seqs
  <2>2. Matches(m, foid[c])
    BY <1>3, <1>11 DEF Matches
  <2>3. m \notin Pushable(c)
    BY <1>3, <1>5, <2>1
  <2> QED
    BY <1>7, <2>1, <2>2, <2>3
<1> QED
  BY <1>2, <1>3, <1>4, <1>9, <1>10, <1>11

\* What a record that is pushed builds on is in a txg on disk or in the log.
LEMMA Builds ==
  ASSUME IInv, wlwb, ~Panic, NEW c \in Callers, pc[c] = "fill", NEW m \in Seqs, m \notin itxList
  PROVE  m \in Durable \/ \E x \in Chain : m \in x.recs /\ (x = Last(lwbs) \/ Before(x, Last(lwbs)))
<1>1. \A L : At(L) <=> pc[c] \in L
  BY Positions DEF IInv, WriterLabels
<1>2. ~At({"createwait"}) /\ ~At({"bigwait", "finish"})
  BY <1>1
<1>3. m \in Durable \/ \E x \in Chain : m \in x.recs
  BY <1>2 DEF IInv, RecInv, Settled, Logged
<1> QED
  BY <1>2, <1>3, LastIs

\* A record that is in a txg on disk, or has no lwb to go to, is dropped.
LEMMA PushSkipStep ==
  ASSUME IInv, NEW c \in Callers, pc[c] = "fill", ~Stop(c), Take(MinOf(Pushable(c))),
         itxs[MinOf(Pushable(c))].txg <= floor \/ ~wlwb,
         UNCHANGED <<open, floor, holders, dirtied, durable, pc, seq, foid, until, itxs, lwbs, writer,
                     commitSeq, wlwb, wcommit, root, logError, destroyTxg, suspend, suspending, zh, zhDisk,
                     synced, space, chain, disk, promised, dead>>
  PROVE  IInv'
<1>1. PICK n : n = MinOf(Pushable(c))
  OBVIOUS
<1>2. /\ n \in itxList /\ n \in Seqs /\ itxList' = itxList \ {n} /\ wnext' \in {-1} \cup 0..Len(itxs)
      /\ \A m \in itxList' : Matches(m, foid[c]) => IF wnext' = -1 THEN m > seq[c] ELSE m >= wnext'
  BY <1>1, TakeIs
<1>3. writer = c /\ writer # Nobody /\ \A L : At(L) <=> pc[c] \in L
  BY Positions DEF IInv, WriterLabels
<1>4. \A L : At(L)' <=> At(L)
  BY DEF At
<1>5. Working' /\ Working /\ ~At({"createwait"}) /\ ~At({"bigwait", "finish"}) /\ ~At({"zio", "finish"}) /\ At(Filling)
  BY <1>3, <1>4 DEF Working, Filling
<1>6. TypeInv'
  BY <1>2 DEF IInv, TypeInv, Upto, Seqs
<1>7. CallerInv'
  BY DEF IInv, CallerInv
<1>8. LogSame /\ DiskKept
  BY DEF LogSame, DiskKept
<1>9. /\ SpaceInv' /\ LinkInv' /\ BirthInv' /\ OrderInv' /\ Seqs' = Seqs
      /\ Chain' = Chain /\ Alive' = Alive /\ (\A n1 : Settled(n1) => Settled(n1)') /\ (\A n1 : Logged(n1)' <=> Logged(n1))
  BY <1>8, MoveStep
<1>10. WriterInv'
  BY <1>4 DEF IInv, WriterInv, Birth
<1>11. HeadInv'
  BY <1>4, <1>5, <1>8, MoveHead
<1>12. WriteInv'
  BY <1>4, <1>5, <1>9 DEF IInv, WriteInv
<1>13. DiskInv'
  BY <1>5, <1>8, <1>9, OnKept DEF IInv, DiskInv
<1>14. QuietInv'
  BY <1>4, <1>9 DEF IInv, QuietInv, Quiet
<1>15. RecInv'
  <2>1. n \in Durable \/ ~wlwb
    BY <1>1, <1>2 DEF Durable
  <2>2. \A m \in Seqs : m \notin itxList' => Settled(m)' \/ (Working' /\ (Logged(m)' \/ ~wlwb'))
    <3> SUFFICES ASSUME NEW m \in Seqs, m \notin itxList' PROVE Settled(m) \/ Logged(m) \/ ~wlwb
      BY <1>5, <1>9
    <3>1. CASE m = n
      BY <2>1, <3>1 DEF Settled
    <3>2. CASE m # n
      BY <1>2, <1>5, <3>2 DEF IInv, RecInv
    <3> QED
      BY <3>1, <3>2
  <2>3. \A w \in Chain : \A m \in w.recs : m \in Seqs /\ m \notin itxList' /\ itxs[m].txg <= w.maxTxg
    BY <1>2 DEF IInv, RecInv
  <2> QED
    BY <1>9, <2>2, <2>3 DEF IInv, RecInv, FreedIn
<1>16. LoopInv'
  BY <1>2, <1>3, <1>4, <1>5, <1>9 DEF IInv, LoopInv, Matches
<1> QED
  BY <1>6, <1>7, <1>9, <1>10, <1>11, <1>12, <1>13, <1>14, <1>15, <1>16 DEF IInv

\* A record is copied into the lwb.
LEMMA PushCopyStep ==
  ASSUME IInv, ~Panic, wlwb, NEW c \in Callers, pc[c] = "fill", ~Stop(c), Take(MinOf(Pushable(c))),
         lwbs' = SetLast(lwbs, Copied(Inited(Last(lwbs)), MinOf(Pushable(c)))), root' = TRUE,
         UNCHANGED <<open, floor, holders, dirtied, durable, pc, seq, foid, until, itxs, writer,
                     commitSeq, wlwb, wcommit, logError, destroyTxg, suspend, suspending, zh, zhDisk,
                     synced, space, chain, disk, promised, dead>>
  PROVE  IInv'
<1>1. PICK n : n = MinOf(Pushable(c))
  OBVIOUS
<1>2. /\ n \in itxList /\ n \in Seqs /\ itxList' = itxList \ {n} /\ wnext' \in {-1} \cup 0..Len(itxs)
      /\ \A m \in itxList' : Matches(m, foid[c]) => IF wnext' = -1 THEN m > seq[c] ELSE m >= wnext'
      /\ \A m \in 1..(n - 1) : itxs[m].file \in {itxs[n].file, AnyFile} => m \in Seqs /\ m \notin itxList
  BY <1>1, TakeIs
<1>3. writer = c /\ writer # Nobody /\ \A L : At(L) <=> pc[c] \in L
  BY Positions DEF IInv, WriterLabels
<1>4. (\A L : At(L)' <=> At(L)) /\ Seqs' = Seqs
  BY DEF At, Seqs
<1>5. /\ Working' /\ Working /\ ~At({"createwait"}) /\ ~At({"create"}) /\ ~At({"bigwait", "finish"})
      /\ ~At({"zio", "finish"}) /\ At(Filling) /\ At({"fill", "bigwait"})
  BY <1>3, <1>4 DEF Working, Filling
<1>6. PICK w : w = Last(lwbs)
  OBVIOUS
<1>7. PICK i : i = Len(lwbs)
  OBVIOUS
<1>8. /\ lwbs # << >> /\ i \in DOMAIN lwbs /\ i \in Nat /\ w = lwbs[i] /\ w \in Lwbs /\ w \in Alive /\ w \in Chain
      /\ w.zio \in {"none", "init"} /\ w.next = Hole /\ w.buf /\ ~Quiet /\ ~(destroyTxg > floor)
      /\ \A x \in Chain : SameChain(x, w) /\ (x = w \/ Before(x, w))
  BY <1>5, <1>6, <1>7, LastIs
<1>9. PICK u : u = Copied(Inited(w), n)
  OBVIOUS
<1>10. /\ u \in Lwbs /\ u.blk = w.blk /\ u.recs = w.recs \cup {n} /\ u.next = w.next /\ u.buf /\ u.zio = "init"
       /\ w.maxTxg <= u.maxTxg /\ itxs[n].txg <= u.maxTxg /\ u.maxTxg <= open /\ u.maxTxg \in Nat
  <2>1. /\ Inited(w) \in Lwbs /\ Inited(w).blk = w.blk /\ Inited(w).recs = w.recs
        /\ Inited(w).next = w.next /\ Inited(w).buf = w.buf /\ Inited(w).maxTxg = w.maxTxg
        /\ Inited(w).zio = "init"
    BY <1>8, InitedIs
  <2>2. /\ u \in Lwbs /\ u.blk = w.blk /\ u.recs = w.recs \cup {n} /\ u.next = w.next /\ u.buf = w.buf /\ u.zio = "init"
        /\ u.maxTxg \in {w.maxTxg, itxs[n].txg} /\ w.maxTxg <= u.maxTxg /\ itxs[n].txg <= u.maxTxg
    BY <1>2, <1>9, <2>1, CopiedIs DEF IInv
  <2>3. w.maxTxg <= open /\ itxs[n].txg <= open
    BY <1>2, <1>8 DEF IInv, RecInv
  <2> QED
    BY <1>8, <2>2, <2>3, LwbFields
<1>11. Replaced(i, u)
  <2>1. lwbs' = [lwbs EXCEPT ![i] = u]
    BY <1>1, <1>6, <1>7, <1>9 DEF SetLast
  <2> QED
    BY <1>8, <1>10, <2>1 DEF Replaced
<1>12. /\ lwbs' \in Seq(Lwbs) /\ lwbs' # << >> /\ Len(lwbs') = i /\ lwbs'[i] = u
       /\ Alive' = (Alive \ {w}) \cup {u} /\ Chain' = (Chain \ {w}) \cup {u} /\ dead' = dead
  BY <1>7, <1>8, <1>10, <1>11, ReplacedIs
<1>13. Last(lwbs)' = u
  BY <1>12 DEF Last
<1>14. SpaceInv' /\ LinkInv'
  BY <1>8, <1>10, <1>11, ReplacedLog
<1>15. HeadInv'
  BY <1>4, <1>5, <1>8, <1>10, <1>11, ReplacedHead
<1>16. BirthInv' /\ Durable' = Durable /\ \A m : (Settled(m) => Settled(m)') /\ (Logged(m) => Logged(m)')
  <2>1. lwbs[i].zio # "done" /\ ~(lwbs[i].zio \in {"released", "failed"}) /\ lwbs[i].recs \subseteq u.recs
    BY <1>8, <1>10
  <2> QED
    BY <1>8, <1>10, <1>11, <2>1, ReplacedRecs
<1>17. Logged(n)'
  BY <1>10, <1>12 DEF Logged
<1>18. TypeInv'
  BY <1>2, <1>12 DEF IInv, TypeInv, Upto, Seqs
<1>19. CallerInv'
  BY DEF IInv, CallerInv
<1>20. WriterInv'
  BY <1>4, <1>5, <1>12 DEF IInv, WriterInv
<1>21. QuietInv'
  <2>1. ~Quiet'
    BY <1>8 DEF Quiet
  <2> QED
    BY <1>8, <2>1 DEF IInv, QuietInv, Quiet
<1>22. WriteInv'
  <2>1. \A v \in Chain : v.zio = "init" => v = w
    BY <1>6 DEF IInv, WriteInv
  <2>2. \A v \in Chain' : v = u \/ (v \in Chain /\ v # w)
    BY <1>12
  <2> QED
    BY <1>4, <1>5, <1>10, <1>13, <2>1, <2>2 DEF IInv, WriteInv, InFlight
<1>23. DiskInv'
  <2>1. \A v : On(v)' = On(v) /\ (Match(v)' <=> Match(v))
    BY DEF On, Match
  <2>2. \A v \in Chain' : v = u \/ (v \in Chain /\ v # w)
    BY <1>12
  <2>3. On(u).blk # u.blk
    BY <1>8, <1>10 DEF IInv, DiskInv, On
  <2>4. \A d \in DVAs, v \in Chain' : disk'[d].blk # Hole /\ disk'[d].blk.guid = v.blk.guid =>
          disk'[d].blk.num <= v.blk.num \/ v.next # Hole
    BY <1>8, <1>10, <1>12 DEF IInv, DiskInv
  <2>5. /\ \A v \in Chain' : v.zio \in {"released", "done"} => On(v).bad \/ Match(v)
        /\ \A v \in Chain' : v.zio = "failed" => On(v).bad
        /\ \A v \in Chain' : On(v).blk = v.blk => Match(v) /\ v.zio \in {"released", "failed", "done"}
    BY <1>10, <2>2, <2>3 DEF IInv, DiskInv
  <2> QED
    BY <1>5, <2>1, <2>4, <2>5 DEF IInv, DiskInv
<1>24. RecInv'
  <2>1. \A v \in Chain' : v.maxTxg <= open /\ \A m \in v.recs :
          m \in Seqs /\ m \notin itxList' /\ itxs[m].txg <= v.maxTxg
    <3> SUFFICES ASSUME NEW v \in Chain'
                 PROVE  v.maxTxg <= open /\ \A m \in v.recs :
                          m \in Seqs /\ m \notin itxList' /\ itxs[m].txg <= v.maxTxg
      OBVIOUS
    <3>1. CASE v # u
      BY <1>2, <1>12, <3>1 DEF IInv, RecInv
    <3>2. CASE v = u
      <4>1. ASSUME NEW m \in w.recs PROVE m \in Seqs /\ m \notin itxList' /\ itxs[m].txg <= u.maxTxg
        <5>1. m \in Seqs /\ m \notin itxList /\ itxs[m].txg <= w.maxTxg
          BY <1>8 DEF IInv, RecInv
        <5>2. itxs[m].txg \in Nat /\ w.maxTxg \in Nat
          BY <1>8, <5>1, ItxIs, LwbFields DEF IInv
        <5> QED
          BY <1>2, <1>10, <5>1, <5>2
      <4> QED
        BY <1>2, <1>10, <3>2, <4>1
    <3> QED
      BY <3>1, <3>2
  <2>2. \A v \in dead' : v.maxTxg <= FreedIn(v)'
    BY DEF IInv, RecInv, FreedIn
  <2>3. \A m \in Seqs : m \notin itxList' => Settled(m)' \/ (Working' /\ Logged(m)')
    <3>1. \A m \in Seqs : m \notin itxList => Settled(m) \/ Logged(m)
      BY <1>5 DEF IInv, RecInv
    <3> QED
      BY <1>2, <1>5, <1>16, <1>17, <3>1
  <2> QED
    BY <1>4, <2>1, <2>2, <2>3 DEF IInv, RecInv
<1>25. LoopInv'
  BY <1>2, <1>3, <1>4, <1>5, <1>16 DEF IInv, LoopInv, Matches
<1>26. OrderInv'
  <2> SUFFICES ASSUME NEW x \in Chain', NEW r \in x.recs, NEW m \in 1..(r - 1),
                      itxs[m].file \in {itxs[r].file, AnyFile}, m \notin Durable
               PROVE  \E v \in Chain' : m \in v.recs /\ (v = x \/ Before(v, x))
    BY <1>16 DEF OrderInv, Before, SameChain
  <2>1. PICK y \in Chain : y.blk = x.blk /\ (y = x \/ (y = w /\ x = u)) /\ (r \in y.recs \/ (x = u /\ r = n))
    BY <1>8, <1>10, <1>12
  <2>2. \E v \in Chain : m \in v.recs /\ (v = y \/ Before(v, y))
    <3>1. CASE r \in y.recs
      BY <3>1 DEF IInv, OrderInv
    <3>2. CASE x = u /\ r = n
      <4>1. y = w
        BY <1>8, <1>10, <2>1, <3>2 DEF IInv, SpaceInv
      <4>2. m \in Seqs /\ m \notin itxList
        BY <1>2, <3>2
      <4> QED
        BY <1>6, <4>1, <4>2, Builds
    <3> QED
      BY <2>1, <3>1, <3>2
  <2>3. PICK v \in Chain : m \in v.recs /\ (v = y \/ Before(v, y))
    BY <2>2
  <2>4. PICK z \in Chain' : z.blk = v.blk /\ m \in z.recs /\ (z = v \/ (v = w /\ z = u))
    BY <1>10, <1>12, <2>3
  <2>5. Before(v, y) => Before(z, x)
    BY <2>1, <2>4 DEF Before, SameChain
  <2>6. v = y => m \in x.recs
    BY <1>10, <2>1, <2>3
  <2> QED
    BY <2>3, <2>4, <2>5, <2>6
<1> QED
  BY <1>14, <1>15, <1>16, <1>18, <1>19, <1>20, <1>21, <1>22, <1>23, <1>24, <1>25, <1>26 DEF IInv

-----------------------------------------------------------------------------
(* zil_lwb_write_start() *)

\* What a start of a write leaves alone; the writer has gone on, or not.
StartFrame ==
  /\ ~At({"createwait"}) /\ ~At({"createwait"})' /\ Working' /\ root'
  /\ holders' = holders \cup {<<Last(lwbs).blk.dva, open>>}
  /\ UNCHANGED <<floor, open, dead, zh, zhDisk, synced, chain, destroyTxg, disk, itxs>>

LEMMA IoLwbIs ==
  ASSUME NEW w \in Lwbs, w.zio \in {"none", "init"}, w.buf, NEW d \in DVAs \cup {Nobody}
  PROVE  LET u == InIo(Inited(w), d) IN
           /\ u \in Lwbs /\ u.blk = w.blk /\ u.recs = w.recs /\ u.next = NextBlk(w, d) /\ u.buf
           /\ u.maxTxg = w.maxTxg /\ u.zio = "io"
<1>1. /\ Inited(w) \in Lwbs /\ Inited(w).blk = w.blk /\ Inited(w).recs = w.recs
      /\ Inited(w).buf = w.buf /\ Inited(w).maxTxg = w.maxTxg
  BY InitedIs
<1>2. NextBlk(Inited(w), d) = NextBlk(w, d)
  BY <1>1 DEF NextBlk
<1> QED
  BY <1>1, <1>2, InIoIs

\* The last lwb is written, and no block could be allocated for the next one.
LEMMA StartNoneStep ==
  ASSUME IInv, ~Panic, wlwb, StartFrame, NEW u, u = InIo(Inited(Last(lwbs)), Nobody),
         lwbs' = SetLast(lwbs, u), space' = space, wlwb' = FALSE
  PROVE  /\ SpaceInv' /\ LinkInv' /\ HeadInv' /\ WriteInv' /\ DiskInv' /\ BirthInv' /\ OrderInv'
         /\ lwbs' \in Seq(Lwbs) /\ lwbs' # << >> /\ Durable' = Durable
         /\ \A n : (Settled(n) => Settled(n)') /\ (Logged(n) => Logged(n)')
         /\ \A v \in Chain' : v.maxTxg <= open /\ \A m \in v.recs :
              m \in Seqs /\ m \notin itxList /\ itxs[m].txg <= v.maxTxg
         /\ ~Quiet /\ ~(destroyTxg > floor)
<1>1. PICK w : w = Last(lwbs)
  OBVIOUS
<1>2. PICK i : i = Len(lwbs)
  OBVIOUS
<1>3. /\ ~At({"createwait"}) /\ ~At({"createwait"})' /\ Working' /\ root'
      /\ holders' = holders \cup {<<w.blk.dva, open>>}
      /\ UNCHANGED <<floor, open, dead, zh, zhDisk, synced, chain, destroyTxg, disk, itxs>>
  BY <1>1 DEF StartFrame
<1>4. /\ lwbs # << >> /\ i \in DOMAIN lwbs /\ i \in Nat /\ w = lwbs[i] /\ w \in Lwbs /\ w \in Alive /\ w \in Chain
      /\ w.zio \in {"none", "init"} /\ w.next = Hole /\ w.buf /\ ~Quiet /\ ~(destroyTxg > floor)
      /\ \A x \in Chain : SameChain(x, w) /\ (x = w \/ Before(x, w))
  BY <1>1, <1>2, <1>3, LastIs
<1>5. /\ u \in Lwbs /\ u.blk = w.blk /\ u.recs = w.recs /\ u.next = Hole /\ u.buf
      /\ u.maxTxg = w.maxTxg /\ u.zio = "io"
  BY <1>1, <1>4, IoLwbIs, NextBlkIs
<1>6. Replaced(i, u)
  <2>1. lwbs' = [lwbs EXCEPT ![i] = u]
    BY <1>2 DEF SetLast
  <2> QED
    BY <1>3, <1>4, <1>5, <2>1 DEF Replaced
<1>7. /\ lwbs' \in Seq(Lwbs) /\ lwbs' # << >> /\ Chain' = (Chain \ {w}) \cup {u} /\ dead' = dead
  BY <1>4, <1>5, <1>6, ReplacedIs
<1>8. SpaceInv' /\ LinkInv'
  BY <1>4, <1>5, <1>6, ReplacedLog
<1>9. HeadInv'
  BY <1>3, <1>4, <1>5, <1>6, ReplacedHead
<1>10. BirthInv' /\ OrderInv' /\ Durable' = Durable /\ \A m : (Settled(m) => Settled(m)') /\ (Logged(m) => Logged(m)')
  <2>1. lwbs[i].zio # "done" /\ ~(lwbs[i].zio \in {"released", "failed"}) /\ lwbs[i].recs = u.recs
    BY <1>4, <1>5
  <2> QED
    BY <1>3, <1>4, <1>5, <1>6, <2>1, ReplacedRecs
<1>11. \A v \in Chain' : v = u \/ (v \in Chain /\ v # w)
  BY <1>7
<1>12. WriteInv'
  <2>1. \A v \in Chain : v.zio = "init" => v = w
    BY <1>1 DEF IInv, WriteInv
  <2>2. <<w.blk.dva, open>> \in holders' /\ <<w.blk.dva, open>>[1] = u.blk.dva
    BY <1>3, <1>5
  <2>3. \A v \in Chain' : v.zio = "io" =>
       \E h \in holders' : h[1] = v.blk.dva /\ (v.next # Hole => h[2] <= space'[v.next.dva].birth)
    BY <1>3, <1>5, <1>11, <2>2 DEF IInv, WriteInv
  <2>4. \A v \in Chain' : (v.buf <=> v.zio # "done") /\ (v.zio = "none" => v.recs = {}) /\ v.zio # "init"
    BY <1>5, <1>11, <2>1 DEF IInv, WriteInv
  <2> QED
    BY <1>3, <2>3, <2>4 DEF WriteInv
<1>13. DiskInv'
  <2>1. \A v : On(v)' = On(v) /\ (Match(v)' <=> Match(v))
    BY <1>3 DEF On, Match
  <2>3. On(u).blk # u.blk
    BY <1>4, <1>5 DEF IInv, DiskInv, On
  <2>4. \A d \in DVAs, v \in Chain' : disk'[d].blk # Hole /\ disk'[d].blk.guid = v.blk.guid =>
          disk'[d].blk.num <= v.blk.num \/ v.next # Hole
    BY <1>3, <1>4, <1>5, <1>7 DEF IInv, DiskInv
  <2>5. /\ \A v \in Chain' : v.zio \in {"released", "done"} => On(v).bad \/ Match(v)
        /\ \A v \in Chain' : v.zio = "failed" => On(v).bad
        /\ \A v \in Chain' : On(v).blk = v.blk => Match(v) /\ v.zio \in {"released", "failed", "done"}
    BY <1>5, <1>11, <2>3 DEF IInv, DiskInv
  <2> QED
    BY <1>3, <2>1, <2>4, <2>5 DEF IInv, DiskInv
<1>14. \A v \in Chain' : v.maxTxg <= open /\ \A m \in v.recs :
         m \in Seqs /\ m \notin itxList /\ itxs[m].txg <= v.maxTxg
  BY <1>4, <1>5, <1>11 DEF IInv, RecInv
<1> QED
  BY <1>4, <1>7, <1>8, <1>9, <1>10, <1>12, <1>13, <1>14

\* The last lwb is written, and there is a new one, which may get a record.
LEMMA StartNextStep ==
  ASSUME IInv, ~Panic, wlwb, StartFrame, NEW d \in Usable, NEW u, u = InIo(Inited(Last(lwbs)), d),
         NEW f \in Lwbs, f.blk = NextBlk(Last(lwbs), d), f.next = Hole, f.buf, f.zio \in {"none", "init"},
         f.zio = "none" => f.recs = {}, f.zio = "init" => At({"fill", "bigwait"})',
         lwbs' = Append(SetLast(lwbs, u), f), space' = Alloc(d, open), wlwb' = TRUE,
         \A r \in f.recs : \A m \in 1..(r - 1) : itxs[m].file \in {itxs[r].file, AnyFile} =>
           m \in Durable \/ \E x \in Chain : m \in x.recs
  PROVE  /\ SpaceInv' /\ LinkInv' /\ HeadInv' /\ WriteInv' /\ DiskInv' /\ BirthInv' /\ OrderInv'
         /\ lwbs' \in Seq(Lwbs) /\ lwbs' # << >> /\ Durable' = Durable
         /\ \A n : (Settled(n) => Settled(n)') /\ (Logged(n) => Logged(n)')
         /\ \A v \in Chain' : v = f \/ (v.maxTxg <= open /\ \A m \in v.recs :
              m \in Seqs /\ m \notin itxList /\ itxs[m].txg <= v.maxTxg)
         /\ f \in Chain' /\ space' \in [DVAs -> [birth : Nat, freed : Nat]]
         /\ ~Quiet /\ ~(destroyTxg > floor)
<1>1. PICK w : w = Last(lwbs)
  OBVIOUS
<1>2. PICK k : k = Len(lwbs)
  OBVIOUS
<1>3. /\ ~At({"createwait"}) /\ ~At({"createwait"})' /\ Working' /\ root'
      /\ holders' = holders \cup {<<w.blk.dva, open>>}
      /\ UNCHANGED <<floor, open, dead, zh, zhDisk, synced, chain, destroyTxg, disk, itxs>>
  BY <1>1 DEF StartFrame
<1>4. /\ lwbs # << >> /\ k \in DOMAIN lwbs /\ k \in Nat /\ w = lwbs[k] /\ w \in Lwbs /\ w \in Alive /\ w \in Chain
      /\ w.zio \in {"none", "init"} /\ w.next = Hole /\ w.buf /\ ~Quiet /\ ~(destroyTxg > floor)
      /\ \A x \in Chain : SameChain(x, w) /\ (x = w \/ Before(x, w))
  BY <1>1, <1>2, <1>3, LastIs
<1>d. d \in DVAs /\ d # Nobody /\ \A v \in Chain : v.blk.dva # d
  BY UsableIs DEF IInv
<1>b. PICK b : b = NextBlk(w, d)
  OBVIOUS
<1>c. b \in Blks /\ b # Hole /\ b.dva = d /\ b.guid = w.blk.guid /\ b.num = w.blk.num + 1 /\ f.blk = b
  BY <1>1, <1>4, <1>b, <1>d, NextBlkIs
<1>5. /\ u \in Lwbs /\ u.blk = w.blk /\ u.recs = w.recs /\ u.next = b /\ u.buf
      /\ u.maxTxg = w.maxTxg /\ u.zio = "io"
  BY <1>1, <1>4, <1>b, <1>d, IoLwbIs
<1>n. /\ \A v \in Chain : v \in Lwbs /\ v.blk.num \in Nat /\ v.blk.guid \in Nat /\ v.blk.dva \in DVAs
      /\ w.blk.num \in Nat /\ w.blk.guid \in Nat /\ w.blk.dva \in DVAs /\ open \in Nat /\ floor \in Nat
      /\ floor < open /\ Upto < open /\ Upto \in Nat
  <2>1. \A v \in Chain : v \in Lwbs
    BY ChainType DEF IInv
  <2>2. \A v \in Lwbs : v.blk.num \in Nat /\ v.blk.guid \in Nat /\ v.blk.dva \in DVAs
    BY LwbFields
  <2>3. open \in Nat /\ floor \in Nat /\ floor < open /\ Upto < open /\ Upto \in Nat
    BY DEF IInv, TypeInv, Upto
  <2> QED
    BY <1>4, <2>1, <2>2, <2>3
<1>6. /\ lwbs' \in Seq(Lwbs) /\ Len(lwbs') = k + 1 /\ lwbs' # << >> /\ DOMAIN lwbs' = 1..(k + 1) /\ k >= 1
      /\ lwbs'[k + 1] = f /\ lwbs'[k] = u /\ (\A j \in 1..(k - 1) : lwbs'[j] = lwbs[j])
      /\ DOMAIN lwbs = 1..k
  <2>1. lwbs \in Seq(Lwbs) /\ k \in 1..Len(lwbs) /\ DOMAIN lwbs = 1..k
    BY <1>2, <1>4 DEF IInv, TypeInv
  <2>2. lwbs' = Append([lwbs EXCEPT ![k] = u], f)
    BY <1>2 DEF SetLast
  <2>3. /\ [lwbs EXCEPT ![k] = u] \in Seq(Lwbs) /\ Len([lwbs EXCEPT ![k] = u]) = k
        /\ [lwbs EXCEPT ![k] = u][k] = u /\ \A j \in 1..(k - 1) : [lwbs EXCEPT ![k] = u][j] = lwbs[j]
    BY <1>2, <1>5, <2>1
  <2>4. PICK M : M = [lwbs EXCEPT ![k] = u]
    OBVIOUS
  <2>5. M \in Seq(Lwbs) /\ Len(M) = k /\ M[k] = u /\ (\A j \in 1..(k - 1) : M[j] = lwbs[j]) /\ lwbs' = Append(M, f)
    BY <2>2, <2>3, <2>4
  <2>6. k \in Nat /\ k >= 1 /\ f \in Lwbs
    BY <1>4, <2>1
  <2>7. /\ lwbs' \in Seq(Lwbs) /\ Len(lwbs') = k + 1 /\ lwbs'[k + 1] = f
        /\ \A j \in 1..k : lwbs'[j] = M[j]
    BY ONLY <2>5, <2>6
  <2>8. lwbs' # << >> /\ DOMAIN lwbs' = 1..(k + 1)
    BY ONLY <2>6, <2>7
  <2> QED
    BY ONLY <2>1, <2>5, <2>6, <2>7, <2>8
<1>7. Alive = {lwbs[j] : j \in 1..k} /\ \A j \in 1..(k - 1) : lwbs[j] # w
  <2>1. Alive = Members(lwbs)
    BY <1>4, ChainType DEF IInv
  <2>2. \A j \in 1..k : lwbs[j].blk.num = lwbs[1].blk.num + j - 1
    BY <1>6 DEF IInv, LinkInv
  <2>3. lwbs[1] \in Chain
    BY <1>4, MembersIs, ChainType DEF IInv, TypeInv
  <2>4. lwbs[1].blk.num \in Nat
    BY <1>n, <2>3
  <2>5. \A j \in 1..(k - 1) : lwbs[j].blk.num # lwbs[k].blk.num
    BY <1>6, <1>4, <2>2, <2>4
  <2> QED
    BY <1>4, <1>6, <2>1, <2>5 DEF Members
<1>8. /\ Alive' = (Alive \ {w}) \cup {u, f} /\ Chain' = (Chain \ {w}) \cup {u, f} /\ dead' = dead /\ w \notin dead
      /\ Upto' = Upto
  <2>1. Kept' = {} /\ Members(lwbs)' = {lwbs'[j] : j \in 1..(k + 1)}
    BY <1>6 DEF Kept, Members
  <2>2. Members(lwbs)' = {lwbs[j] : j \in 1..(k - 1)} \cup {u, f}
    <3>1. 1..(k + 1) = 1..(k - 1) \cup {k, k + 1}
      BY <1>4, <1>6
    <3> QED
      BY <1>6, <2>1, <3>1
  <2>3. {lwbs[j] : j \in 1..(k - 1)} = Alive \ {w}
    <3>1. 1..k = 1..(k - 1) \cup {k} /\ k \notin 1..(k - 1)
      BY <1>4, <1>6
    <3> QED
      BY <1>4, <1>7, <3>1
  <2>4. w \notin dead
    BY <1>4 DEF IInv, SpaceInv, TypeInv
  <2> QED
    <3>1. Alive = Members(lwbs) /\ Alive' = Members(lwbs)' /\ dead' = dead
      BY <1>3, <1>4, <2>1, ChainType DEF IInv, Alive
    <3>2. Alive' = (Alive \ {w}) \cup {u, f}
      BY <2>2, <2>3, <3>1
    <3>3. Chain' = (Chain \ {w}) \cup {u, f}
      BY <2>4, <3>1, <3>2 DEF Chain
    <3>4. Upto' = Upto
      BY <1>3 DEF Upto
    <3> QED
      BY <2>4, <3>1, <3>2, <3>3, <3>4
<1>9. /\ space' \in [DVAs -> [birth : Nat, freed : Nat]]
      /\ space'[d].birth = open /\ space'[d].freed = 0
      /\ \A e \in DVAs : e # d => space'[e] = space[e]
  BY <1>d, AllocIs DEF IInv
<1>10. /\ \A v \in Chain : Birth(v)' = Birth(v) /\ FreedIn(v)' = FreedIn(v) /\ On(v)' = On(v) /\ v.blk.dva # f.blk.dva
       /\ Birth(u)' = Birth(w) /\ FreedIn(u)' = FreedIn(w) /\ On(u)' = On(w)
       /\ Birth(f)' = open /\ FreedIn(f)' = 0
  <2>1. \A v \in Chain : v.blk.dva \in DVAs /\ v.blk.dva # d /\ v.blk.dva # f.blk.dva
    BY <1>c, <1>d, <1>n
  <2>2. \A v \in Chain : Birth(v)' = Birth(v) /\ FreedIn(v)' = FreedIn(v) /\ On(v)' = On(v)
    BY <1>3, <1>9, <2>1 DEF Birth, FreedIn, On
  <2>3. Birth(u)' = Birth(w) /\ FreedIn(u)' = FreedIn(w) /\ On(u)' = On(w)
    BY <1>4, <1>5, <2>2 DEF Birth, FreedIn, On
  <2>4. Birth(f)' = open /\ FreedIn(f)' = 0
    BY <1>9, <1>c DEF Birth, FreedIn
  <2> QED
    BY <2>1, <2>2, <2>3, <2>4
<1>11. \A v \in Chain' : v = u \/ v = f \/ (v \in Chain /\ v # w)
  BY <1>8
<1>12. SpaceInv'
  <2>1. \A v \in Alive' : Birth(v)' > 0 /\ FreedIn(v)' = 0
    BY <1>4, <1>8, <1>10, <1>n, ChainType DEF IInv, SpaceInv
  <2>2. \A v \in dead' : /\ Birth(v)' > 0 /\ FreedIn(v)' > floor'
                         /\ FreedIn(v)' = destroyTxg' \/ (synced' /\ FreedIn(v)' = floor' + 1)
                         /\ v.zio \in Idle
    BY <1>3, <1>8, <1>10, ChainType DEF IInv, SpaceInv
  <2>3. \A v, x \in Chain' : v.blk.dva = x.blk.dva => v = x
    BY <1>4, <1>5, <1>10, <1>11 DEF IInv, SpaceInv
  <2>4. ASSUME NEW e \in DVAs, space'[e].birth # 0, space'[e].freed \notin 1..floor'
        PROVE  \E v \in Chain' : v.blk.dva = e
    <3>1. CASE e = d
      BY <1>8, <1>c, <3>1
    <3>2. CASE e # d
      BY <1>3, <1>4, <1>5, <1>8, <1>9, <2>4, <3>2 DEF IInv, SpaceInv
    <3> QED
      BY <3>1, <3>2
  <2>5. \A e \in DVAs : space'[e].birth <= open'
    <3>1. \A e \in DVAs : space[e].birth <= open
      BY DEF IInv, SpaceInv
    <3> QED
      BY ONLY <1>3, <1>9, <1>n, <3>1
  <2> QED
    BY <2>1, <2>2, <2>3, <2>4, <2>5 DEF SpaceInv
<1>13. \A v \in Chain' : /\ v.blk.num \in Nat
                         /\ v = f => v.blk.num = w.blk.num + 1
                         /\ v = u => v.blk.num = w.blk.num
                         /\ v # f /\ v # u => v \in Chain /\ v # w /\ v.blk.num < w.blk.num /\ Before(v, w)
  <2>1. \A v \in Chain : v # w => v.blk.num < w.blk.num /\ Before(v, w)
    BY <1>4 DEF Before
  <2> QED
    BY <1>5, <1>11, <1>c, <1>n, <2>1
<1>14. \A v, x \in Chain' : Before(v, x) => v.blk.num < x.blk.num
  BY DEF Before
<1>15. \A v, x \in Chain' : Before(v, x) => /\ v # f /\ (v = u => x = f)
                                            /\ v = u \/ (v \in Chain /\ v # w)
  <2> SUFFICES ASSUME NEW v \in Chain', NEW x \in Chain', Before(v, x)
               PROVE  v # f /\ (v = u => x = f)
    BY <1>11
  <2>1. v.blk.num < x.blk.num /\ w.blk.num \in Nat
    BY <1>14, <1>n
  <2> QED
    BY <1>13, <2>1
<1>16. LinkInv'
  <2>1. \A j \in 1..k : lwbs'[j].blk = lwbs[j].blk
    BY <1>4, <1>5, <1>6
  <2>2. \A j \in 1..k : /\ lwbs[j].blk.guid = lwbs[1].blk.guid /\ lwbs[j].blk.num = lwbs[1].blk.num + j - 1
                        /\ lwbs[j].next = IF j = k THEN Hole ELSE lwbs[j + 1].blk
                        /\ j < k => lwbs[j].zio \in InFlight \cup {"done"}
    BY <1>2, <1>6 DEF IInv, LinkInv
  <2>3. lwbs[1].blk.num \in Nat /\ 1 \in 1..k
    <3>1. lwbs[1] \in Chain
      BY <1>4, MembersIs, ChainType DEF IInv, TypeInv
    <3> QED
      BY <1>4, <1>6, <1>n, <3>1
  <2>4. ASSUME NEW j \in 1..(k + 1)
        PROVE  /\ lwbs'[j].blk.guid = lwbs'[1].blk.guid /\ lwbs'[j].blk.num = lwbs'[1].blk.num + j - 1
               /\ lwbs'[j].next = IF j = k + 1 THEN Hole ELSE lwbs'[j + 1].blk
               /\ j < k + 1 => lwbs'[j].zio \in InFlight \cup {"done"}
    <3>1. CASE j = k + 1
      <4>1. w.blk.guid = lwbs[1].blk.guid /\ w.blk.num = lwbs[1].blk.num + k - 1
        BY <1>4, <1>6, <2>2
      <4>2. b.num = lwbs[1].blk.num + k
        BY <1>4, <1>c, <2>3, <4>1
      <4> QED
        BY <1>4, <1>6, <1>c, <2>1, <2>3, <3>1, <4>1, <4>2
    <3>2. CASE j = k
      <4>1. k \in 1..k
        BY <1>4, <1>6
      <4> QED
        <5>1. lwbs'[k].blk = lwbs[k].blk /\ lwbs'[1].blk = lwbs[1].blk /\ lwbs'[k + 1].blk = b /\ lwbs'[k] = u
          BY <1>6, <1>c, <2>1, <2>3, <4>1
        <5>2. lwbs[k].blk.guid = lwbs[1].blk.guid /\ lwbs[k].blk.num = lwbs[1].blk.num + k - 1
          BY <2>2, <4>1
        <5>3. u.next = b /\ u.zio \in InFlight \cup {"done"} /\ k # k + 1
          BY <1>4, <1>5 DEF InFlight
        <5> QED
          BY <3>2, <5>1, <5>2, <5>3
    <3>3. CASE j \in 1..(k - 1)
      <4>1. j \in 1..k /\ j # k /\ j + 1 \in 1..k /\ j < k /\ j # k + 1
        BY <1>4, <3>3
      <4>2. lwbs'[j] = lwbs[j] /\ lwbs'[j + 1].blk = lwbs[j + 1].blk /\ lwbs'[1].blk = lwbs[1].blk
        BY <1>6, <2>1, <2>3, <3>3, <4>1
      <4> QED
        BY <2>2, <4>1, <4>2
    <3>4. j = k + 1 \/ j = k \/ j \in 1..(k - 1)
      BY <1>4
    <3> QED
      BY <3>1, <3>2, <3>3, <3>4
  <2>5. \A v \in Chain' : v.blk.guid <= chain'
    BY <1>3, <1>4, <1>5, <1>11, <1>c DEF IInv, LinkInv
  <2>6. ASSUME NEW v \in Chain', v.next # Hole
        PROVE  /\ \E x \in Chain' : x.blk = v.next
               /\ v.next.guid = v.blk.guid /\ v.next.num = v.blk.num + 1 /\ v.zio \notin {"none", "init"}
    <3>1. CASE v = u
      BY <1>5, <1>8, <1>c, <3>1
    <3>2. CASE v \in Chain
      <4>1. PICK x \in Chain : x.blk = v.next
        BY <2>6, <3>2 DEF IInv, LinkInv
      <4>2. \E y \in Chain' : y.blk = x.blk
        BY <1>5, <1>8
      <4> QED
        BY <2>6, <3>2, <4>1, <4>2 DEF IInv, LinkInv
    <3> QED
      BY <1>11, <2>6, <3>1, <3>2
  <2>7. \A v, x \in Chain' : Before(v, x) => v.next # Hole
    <3>1. \A v \in Chain : v # w => v.next # Hole
      BY <1>4 DEF IInv, LinkInv
    <3> QED
      BY <1>5, <1>15, <1>c, <3>1
  <2>8. \A v, x \in Chain' : SameChain(v, x) /\ v.blk.num = x.blk.num => v = x
    <3> SUFFICES ASSUME NEW v \in Chain', NEW x \in Chain', SameChain(v, x), v.blk.num = x.blk.num
                 PROVE  v = x
      OBVIOUS
    <3>1. (v = f <=> x = f) /\ (v = u <=> x = u)
      BY <1>13, <1>n
    <3>2. v \in Chain /\ x \in Chain => v = x
      BY DEF IInv, LinkInv
    <3> QED
      BY <1>13, <3>1, <3>2
  <2>9. \A v \in dead', x \in Alive' : SameChain(v, x) => Before(v, x)
    <3> SUFFICES ASSUME NEW v \in dead, NEW x \in Alive', SameChain(v, x) PROVE Before(v, x)
      BY <1>8
    <3>1. v \in Chain /\ v # w /\ SameChain(v, w) /\ Before(v, w)
      BY <1>4, <1>8, ChainType DEF IInv
    <3>2. CASE x \in Alive
      BY <3>2 DEF IInv, LinkInv
    <3>3. CASE x = u \/ x = f
      BY <1>5, <1>c, <1>n, <3>1, <3>3 DEF Before, SameChain
    <3> QED
      BY <1>8, <3>2, <3>3
  <2>10. \A v, x \in dead' : Before(v, x) => FreedIn(v)' <= FreedIn(x)'
    BY <1>8, <1>10, ChainType DEF IInv, LinkInv
  <2> QED
    BY <1>6, <2>4, <2>5, <2>6, <2>7, <2>8, <2>9, <2>10 DEF LinkInv, Before, SameChain
<1>17. HeadInv'
  <2>1. lwbs'[1].blk = lwbs[1].blk
    <3>1. 1 = k \/ 1 \in 1..(k - 1)
      BY <1>4, <1>6
    <3> QED
      BY <1>4, <1>5, <1>6, <3>1
  <2>2. zh = lwbs[1].blk
    BY <1>3, <1>4 DEF IInv, HeadInv
  <2>3. zhDisk.guid = w.blk.guid /\ zh.guid = w.blk.guid /\ FreedIn(w) = 0 /\ 0 \notin 1..Upto
    BY <1>3, <1>4, <1>n DEF IInv, HeadInv, SpaceInv
  <2>4. zhDisk # Hole => zhDisk.num \in Nat /\ w.blk.num >= zhDisk.num
    BY <1>4, <2>3, HoleIs DEF IInv, HeadInv, TypeInv, Ptrs
  <2>5. zh # Hole => zh.num \in Nat /\ w.blk.num >= zh.num
    BY <1>4, <2>3, HoleIs DEF IInv, HeadInv, TypeInv, Ptrs
  <2>6. zhDisk # Hole =>
          /\ \E v \in Chain' : v.blk = zhDisk
          /\ \A v \in Chain' : v.blk.guid = zhDisk.guid => v.blk.num >= zhDisk.num
    <3>1. zhDisk # Hole => \E v \in Chain' : v.blk = zhDisk
      BY <1>5, <1>8 DEF IInv, HeadInv
    <3>2. zhDisk # Hole => f.blk.num >= zhDisk.num /\ u.blk.num >= zhDisk.num
      BY <1>5, <1>c, <1>n, <2>4
    <3> QED
      BY <1>11, <3>1, <3>2 DEF IInv, HeadInv
  <2>7. zh # Hole =>
          /\ \E v \in Chain' : v.blk = zh /\ FreedIn(v)' \notin 1..Upto
          /\ \A v \in Chain' : FreedIn(v)' \notin 1..Upto /\ v.blk.guid = zh.guid => v.blk.num >= zh.num
    <3>1. zh # Hole => \E v \in Chain' : v.blk = zh /\ FreedIn(v)' \notin 1..Upto
      BY <1>5, <1>8, <1>10 DEF IInv, HeadInv
    <3>2. zh # Hole => f.blk.num >= zh.num /\ u.blk.num >= zh.num
      BY <1>5, <1>c, <1>n, <2>5
    <3> QED
      BY <1>10, <1>11, <3>1, <3>2 DEF IInv, HeadInv
  <2>8. \A v \in Chain' : v.blk.guid = zhDisk.guid
    BY <1>3, <1>5, <1>11, <1>c, <2>3 DEF IInv, HeadInv
  <2>9. \A v \in Chain' : v.blk.guid = zh.guid
    BY <1>4, <1>5, <1>11, <1>c, <2>3 DEF SameChain
  <2> QED
    BY <1>3, <1>8, <2>1, <2>2, <2>6, <2>7, <2>8, <2>9 DEF IInv, HeadInv
<1>18. Last(lwbs)' = f
  BY <1>6 DEF Last
<1>19. WriteInv'
  <2>1. \A v \in Chain : v.zio = "init" => v = w
    BY <1>1 DEF IInv, WriteInv
  <2>2. <<w.blk.dva, open>> \in holders' /\ <<w.blk.dva, open>>[1] = u.blk.dva
        /\ <<w.blk.dva, open>>[2] <= space'[u.next.dva].birth
    BY <1>3, <1>5, <1>9, <1>c, <1>n
  <2>3. ASSUME NEW v \in Chain, v.zio = "io"
        PROVE  \E h \in holders' : h[1] = v.blk.dva /\ (v.next # Hole => h[2] <= space'[v.next.dva].birth)
    <3>1. PICK h \in holders : h[1] = v.blk.dva /\ (v.next # Hole => h[2] <= space[v.next.dva].birth)
      BY <2>3 DEF IInv, WriteInv
    <3>2. v.next # Hole => v.next.dva \in DVAs /\ v.next.dva # d
      BY <1>d, <1>n DEF IInv, LinkInv
    <3>3. v.next # Hole => space'[v.next.dva] = space[v.next.dva]
      BY <1>9, <3>2
    <3> QED
      BY <1>3, <3>1, <3>3
  <2>4. \A v \in Chain' : v.zio = "io" =>
       \E h \in holders' : h[1] = v.blk.dva /\ (v.next # Hole => h[2] <= space'[v.next.dva].birth)
    BY <1>5, <1>11, <2>2, <2>3
  <2>5. \A v \in Chain' : (v.buf <=> v.zio # "done") /\ (v.zio = "none" => v.recs = {})
    BY <1>5, <1>11 DEF IInv, WriteInv
  <2>6. \A v \in Chain' : v.zio = "init" => v = f
    BY <1>5, <1>11, <2>1
  <2> QED
    BY <1>3, <1>18, <2>4, <2>5, <2>6 DEF WriteInv
<1>20. DiskInv'
  <2>1. On(u)'.blk # u.blk
    BY <1>4, <1>5, <1>10 DEF IInv, DiskInv
  <2>2. \A e \in DVAs : disk[e].blk # Hole => disk[e].blk.num \in Nat
    BY HoleIs DEF IInv, TypeInv, Ptrs
  <2>3. \A e \in DVAs : disk[e].blk # Hole /\ disk[e].blk.guid = w.blk.guid => disk[e].blk.num <= w.blk.num
    BY <1>4 DEF IInv, DiskInv
  <2>4. \A e \in DVAs : disk[e].blk # b
    <3>1. ~(w.blk.num + 1 <= w.blk.num)
      BY <1>n
    <3> QED
      BY <1>c, <2>3, <3>1
  <2>5. On(f)'.blk # f.blk
    <3>1. f.blk.dva \in DVAs /\ disk' = disk
      BY <1>3, <1>c, <1>d
    <3> QED
      BY <1>c, <2>4, <3>1 DEF On
  <2>6. \A e \in DVAs, v \in Chain' : disk'[e].blk # Hole /\ disk'[e].blk.guid = v.blk.guid =>
          disk'[e].blk.num <= v.blk.num \/ v.next # Hole
    <3> SUFFICES ASSUME NEW e \in DVAs, NEW v \in Chain', disk[e].blk # Hole, disk[e].blk.guid = v.blk.guid
                 PROVE  disk[e].blk.num <= v.blk.num \/ v.next # Hole
      BY <1>3
    <3>1. CASE v = u
      BY <1>5, <1>c, <3>1
    <3>2. CASE v = f
      BY <1>c, <1>n, <2>2, <2>3, <3>2
    <3>3. CASE v \in Chain
      BY <3>3 DEF IInv, DiskInv
    <3> QED
      BY <1>11, <3>1, <3>2, <3>3
  <2>7. \A v \in Chain : On(v)' = On(v) /\ (Match(v)' <=> Match(v))
    BY <1>10 DEF Match
  <2>8. /\ \A v \in Chain' : v.zio \in {"released", "done"} => On(v)'.bad \/ Match(v)'
        /\ \A v \in Chain' : v.zio = "failed" => On(v)'.bad
        /\ \A v \in Chain' : On(v)'.blk = v.blk => Match(v)' /\ v.zio \in {"released", "failed", "done"}
    BY <1>5, <1>11, <2>1, <2>5, <2>7 DEF IInv, DiskInv
  <2> QED
    BY <1>3, <2>6, <2>8 DEF IInv, DiskInv
<1>21. BirthInv'
  <2> SUFFICES ASSUME NEW v \in Chain', NEW x \in Chain', Before(v, x)
               PROVE  /\ Birth(v)' <= Birth(x)'
                      /\ Birth(x)' <= floor => v.zio \in {"released", "failed", "done"}
    BY <1>3 DEF BirthInv, Before, SameChain
  <2>1. v # f /\ (v = u => x = f) /\ (v = u \/ (v \in Chain /\ v # w))
    BY <1>15
  <2>2. Birth(w) <= open /\ \A y \in Chain : Birth(y) <= open
    BY <1>4, <1>n DEF IInv, SpaceInv, Birth
  <2>3. CASE x = f
    <3>1. Birth(v)' <= open
      BY <1>10, <2>1, <2>2
    <3> QED
      BY <1>10, <1>n, <2>3, <3>1
  <2>4. CASE x = u
    <3>1. v \in Chain /\ v # w /\ Before(v, w)
      BY <1>13, <1>14, <1>n, <2>1, <2>4
    <3> QED
      BY <1>4, <1>10, <2>4, <3>1 DEF IInv, BirthInv
  <2>5. CASE x \in Chain /\ x # w /\ x # f /\ x # u
    <3>1. v \in Chain
      BY <2>1, <2>5
    <3> QED
      BY <1>10, <2>5, <3>1 DEF IInv, BirthInv
  <2> QED
    BY <1>11, <2>3, <2>4, <2>5
<1>22. Durable' = Durable
  BY <1>3 DEF Durable, Seqs
<1>23. \A n : (Settled(n) => Settled(n)') /\ (Logged(n) => Logged(n)')
  <2>1. ASSUME NEW x \in Chain, Sealed(x)
        PROVE  x \in Chain' /\ Sealed(x)'
    <3>1. x # w
      BY <1>4, <2>1 DEF Sealed
    <3>2. x \in Chain' /\ x # u /\ x # f
      BY <1>4, <1>5, <1>8, <1>10, <3>1 DEF IInv, SpaceInv
    <3>3. \A v \in Chain' : v = x \/ Before(v, x) => v \in Chain /\ On(v)' = On(v)
      BY <1>10, <1>15, <3>2
    <3>4. \A v : Before(v, x)' <=> Before(v, x)
      BY DEF Before, SameChain
    <3> QED
      BY <2>1, <3>2, <3>3, <3>4 DEF Sealed
  <2>2. \A n : Settled(n) => Settled(n)'
    BY <1>22, <2>1 DEF Settled
  <2>3. \A n : Logged(n) => Logged(n)'
    BY <1>5, <1>8 DEF Logged
  <2> QED
    BY <2>2, <2>3
<1>24. OrderInv'
  <2> SUFFICES ASSUME NEW x \in Chain', NEW r \in x.recs, NEW m \in 1..(r - 1),
                      itxs[m].file \in {itxs[r].file, AnyFile}, m \notin Durable
               PROVE  \E v \in Chain' : m \in v.recs /\ (v = x \/ Before(v, x))
    BY <1>3, <1>22 DEF OrderInv, Before, SameChain
  <2>1. CASE x = f
    <3>1. PICK v \in Chain : m \in v.recs
      BY <2>1
    <3>2. PICK z \in Chain' : z.blk = v.blk /\ m \in z.recs
      BY <1>5, <1>8, <3>1
    <3>3. Before(z, f)
      BY <1>4, <1>c, <1>n, <3>2 DEF Before, SameChain
    <3> QED
      BY <2>1, <3>2, <3>3
  <2>2. CASE x # f
    <3>1. PICK y \in Chain : y.blk = x.blk /\ y.recs = x.recs
      BY <1>4, <1>5, <1>11, <2>2
    <3>2. PICK v \in Chain : m \in v.recs /\ (v = y \/ Before(v, y))
      BY <3>1 DEF IInv, OrderInv
    <3>3. PICK z \in Chain' : z.blk = v.blk /\ m \in z.recs
      BY <1>5, <1>8, <3>2
    <3>4. Before(v, y) => Before(z, x)
      BY <3>1, <3>3 DEF Before, SameChain
    <3> QED
      BY <3>1, <3>2, <3>3, <3>4
  <2> QED
    BY <2>1, <2>2
<1>25. \A v \in Chain' : v = f \/ (v.maxTxg <= open /\ \A m \in v.recs :
         m \in Seqs /\ m \notin itxList /\ itxs[m].txg <= v.maxTxg)
  BY <1>4, <1>5, <1>11 DEF IInv, RecInv
<1> QED
  BY <1>4, <1>6, <1>8, <1>9, <1>12, <1>16, <1>17, <1>19, <1>20, <1>21, <1>22, <1>23, <1>24, <1>25

LEMMA SetLastIs ==
  ASSUME NEW L \in Seq(Lwbs), NEW x \in Lwbs, NEW y \in Lwbs
  PROVE  /\ L # << >> => /\ SetLast(L, x) \in Seq(Lwbs) /\ Len(SetLast(L, x)) = Len(L) /\ SetLast(L, x) # << >>
                         /\ Last(SetLast(L, x)) = x /\ SetLast(SetLast(L, x), y) = SetLast(L, y)
                         /\ SetLast(L, Last(L)) = L
         /\ Append(L, x) # << >> /\ Last(Append(L, x)) = x /\ SetLast(Append(L, x), y) = Append(L, y)
<1>1. ASSUME L # << >>
      PROVE  /\ SetLast(L, x) \in Seq(Lwbs) /\ Len(SetLast(L, x)) = Len(L) /\ SetLast(L, x) # << >>
             /\ Last(SetLast(L, x)) = x /\ SetLast(L, Last(L)) = L
  BY <1>1 DEF SetLast, Last
<1>2. ASSUME L # << >>
      PROVE  SetLast(SetLast(L, x), y) = SetLast(L, y)
  <2>1. Len(SetLast(L, x)) = Len(L)
    BY <1>1, <1>2
  <2>2. SetLast(SetLast(L, x), y) = [[L EXCEPT ![Len(L)] = x] EXCEPT ![Len(L)] = y]
    BY <2>1 DEF SetLast
  <2> QED
    BY <2>2 DEF SetLast
<1>3. Append(L, x) # << >> /\ Last(Append(L, x)) = x
  BY DEF Last
<1>4. SetLast(Append(L, x), y) = Append(L, y)
  <2>1. /\ Len(L) \in Nat /\ Append(L, x) \in Seq(Lwbs) /\ Append(L, y) \in Seq(Lwbs)
        /\ Len(Append(L, x)) = Len(L) + 1 /\ Len(Append(L, y)) = Len(L) + 1
        /\ Append(L, y)[Len(L) + 1] = y /\ \A i \in 1..Len(L) : Append(L, x)[i] = L[i] /\ Append(L, y)[i] = L[i]
    OBVIOUS
  <2>2. SetLast(Append(L, x), y) = [Append(L, x) EXCEPT ![Len(L) + 1] = y]
    BY <2>1 DEF SetLast
  <2>3. PICK A : A = Append(L, x)
    OBVIOUS
  <2>4. PICK B : B = Append(L, y)
    OBVIOUS
  <2>5. A \in [1..(Len(L) + 1) -> Lwbs] /\ B \in [1..(Len(L) + 1) -> Lwbs]
    <3>1. A \in Seq(Lwbs) /\ B \in Seq(Lwbs) /\ Len(A) = Len(L) + 1 /\ Len(B) = Len(L) + 1
      BY <2>1, <2>3, <2>4
    <3>2. \A s \in Seq(Lwbs) : s \in [1..Len(s) -> Lwbs]
      OBVIOUS
    <3>3. A \in [1..Len(A) -> Lwbs] /\ B \in [1..Len(B) -> Lwbs]
      BY ONLY <3>1, <3>2
    <3> QED
      BY ONLY <3>1, <3>3
  <2>6. \A i \in 1..(Len(L) + 1) : B[i] = IF i = Len(L) + 1 THEN y ELSE A[i]
    <3>1. \A i \in 1..(Len(L) + 1) : i = Len(L) + 1 \/ i \in 1..Len(L)
      BY <2>1
    <3> QED
      BY <2>1, <2>3, <2>4, <3>1
  <2>7. [A EXCEPT ![Len(L) + 1] = y] = B
    <3> HIDE DEF SetLast
    <3> QED
      BY ONLY <2>5, <2>6
  <2> QED
    BY <2>2, <2>3, <2>4, <2>7
<1> QED
  BY <1>1, <1>2, <1>3, <1>4

\* The log after the start of a write, in zil_lwb_commit() and at the end of the loop.
LEMMA StartedLog ==
  ASSUME IInv, ~Panic, wlwb, ~At({"createwait"}), NEW d \in DVAs \cup {Nobody}
  PROVE  LET w == Last(lwbs)
             u == InIo(Inited(w), d)
             g == Lwb(NextBlk(w, d), open)
         IN  /\ u \in Lwbs
             /\ d = Nobody => Started(SetLast(lwbs, Inited(w)), d) = SetLast(lwbs, u)
             /\ d # Nobody => /\ Started(SetLast(lwbs, Inited(w)), d) = Append(SetLast(lwbs, u), g)
                              /\ g \in Lwbs /\ Last(Append(SetLast(lwbs, u), g)) = g
                              /\ \A y \in Lwbs : SetLast(Append(SetLast(lwbs, u), g), y) = Append(SetLast(lwbs, u), y)
             /\ w.zio # "none" => SetLast(lwbs, Inited(w)) = lwbs
<1>1. PICK w : w = Last(lwbs)
  OBVIOUS
<1>2. /\ lwbs # << >> /\ w \in Lwbs /\ w.zio \in {"none", "init"} /\ w.buf
  BY <1>1, LastIs
<1>3. lwbs \in Seq(Lwbs) /\ open \in Nat
  BY DEF IInv, TypeInv
<1>4. PICK v : v = Inited(w)
  OBVIOUS
<1>5. v \in Lwbs /\ NextBlk(v, d) = NextBlk(w, d) /\ (w.zio # "none" => v = w)
  <2>1. v \in Lwbs /\ v.blk = w.blk
    BY <1>2, <1>4, InitedIs
  <2>2. w.zio # "none" => v = w
    BY <1>2, <1>4 DEF Inited, Lwbs
  <2> QED
    BY <2>1, <2>2 DEF NextBlk
<1>6. PICK u : u = InIo(v, d)
  OBVIOUS
<1>7. u \in Lwbs
  BY <1>5, <1>6, InIoIs
<1>8. PICK L : L = SetLast(lwbs, v)
  OBVIOUS
<1>9. L \in Seq(Lwbs) /\ L # << >> /\ Last(L) = v /\ SetLast(L, u) = SetLast(lwbs, u) /\ SetLast(lwbs, u) \in Seq(Lwbs)
  BY <1>2, <1>3, <1>5, <1>7, <1>8, SetLastIs
<1>10. d = Nobody => Started(L, d) = SetLast(lwbs, u)
  BY <1>3, <1>6, <1>9, StartedIs
<1>11. PICK g : g = Lwb(NextBlk(w, d), open)
  OBVIOUS
<1>12. d # Nobody => Started(L, d) = Append(SetLast(lwbs, u), g) /\ g \in Lwbs
  <2>1. d # Nobody => NextBlk(w, d) \in Blks
    BY <1>2, NextBlkIs
  <2>2. d # Nobody => g \in Lwbs
    BY <1>3, <1>11, <2>1, LwbIs
  <2>3. d # Nobody => Started(L, d) = Append(SetLast(L, InIo(Last(L), d)), Lwb(NextBlk(Last(L), d), open))
    BY <1>3, <1>9, StartedIs
  <2>4. SetLast(L, InIo(Last(L), d)) = SetLast(lwbs, u) /\ Lwb(NextBlk(Last(L), d), open) = g
    BY <1>5, <1>6, <1>9, <1>11
  <2> QED
    BY <2>2, <2>3, <2>4
<1>13. d # Nobody => /\ Last(Append(SetLast(lwbs, u), g)) = g
                     /\ \A y \in Lwbs : SetLast(Append(SetLast(lwbs, u), g), y) = Append(SetLast(lwbs, u), y)
  <2>1. PICK M : M = SetLast(lwbs, u)
    OBVIOUS
  <2>2. M \in Seq(Lwbs)
    BY <1>9, <2>1
  <2>3. d # Nobody => /\ Last(Append(M, g)) = g /\ \A y \in Lwbs : SetLast(Append(M, g), y) = Append(M, y)
    BY <1>12, <2>2, SetLastIs
  <2> QED
    BY <2>1, <2>3
<1>14. w.zio # "none" => SetLast(lwbs, v) = lwbs
  BY <1>1, <1>2, <1>3, <1>5, SetLastIs
<1> QED
  BY <1>1, <1>4, <1>6, <1>7, <1>8, <1>10, <1>11, <1>12, <1>13, <1>14

\* The rest of the state after the start of a write by the writer c, which is then at l.
LEMMA StartRest ==
  ASSUME IInv, wlwb, NEW c \in Callers, pc[c] = "fill", NEW l \in {"fill", "bigwait", "zio"},
         pc' = [pc EXCEPT ![c] = l], until' \in [Callers -> Nat],
         \A e \in Callers : e # c => until'[e] = until[e],
         UNCHANGED <<open, floor, seq, foid, itxs, writer, commitSeq, logError, destroyTxg, suspend,
                     suspending, zh, zhDisk, synced, chain, disk, promised, dead>>,
         Last(lwbs) \in Lwbs, holders' = holders \cup {<<Last(lwbs).blk.dva, open>>},
         dirtied \subseteq dirtied', dirtied' \subseteq Nat \X Nat,
         lwbs' \in Seq(Lwbs), lwbs' # << >>, space' \in [DVAs -> [birth : Nat, freed : Nat]],
         wlwb' \in BOOLEAN, root' \in BOOLEAN, itxList' \subseteq itxList,
         wnext' \in {-1} \cup 0..Len(itxs), wcommit' \in 0..Len(itxs), ~Quiet, ~(destroyTxg > floor),
         \A m : (Settled(m) => Settled(m)') /\ (Logged(m) => Logged(m)'),
         \A v \in Chain' : v.maxTxg <= open /\ \A m \in v.recs :
           m \in Seqs /\ m \notin itxList' /\ itxs[m].txg <= v.maxTxg,
         \A v \in dead : FreedIn(v)' = FreedIn(v),
         \A m \in itxList \ itxList' : \/ Settled(m)' \/ Logged(m)' \/ ~wlwb'
                                       \/ l = "bigwait" /\ itxs[m].txg <= until'[c],
         l # "zio" => \A m \in itxList' : Matches(m, foid[c]) =>
                        IF wnext' = -1 THEN m > seq[c] ELSE m >= wnext',
         l = "zio" => \A m \in itxList' : m >= wcommit' /\ (Matches(m, foid[c]) => m > seq[c])
  PROVE  TypeInv' /\ CallerInv' /\ WriterInv' /\ QuietInv' /\ RecInv' /\ LoopInv'
<1>1. pc[c] \in WriterLabels /\ l \in WriterLabels
  BY DEF WriterLabels
<1>2. /\ pc' \in [Callers -> Labels] /\ CallerInv' /\ (Quiet' <=> Quiet)
      /\ writer = c /\ c # Nobody /\ (\A L : At(L) <=> pc[c] \in L) /\ (\A L : At(L)' <=> l \in L)
  BY <1>1, WriterMove
<1>3. /\ ~At({"createwait"})' /\ ~At({"create"})' /\ Working' /\ ~At({"bigwait", "finish"})
      /\ (At(Filling)' <=> l # "zio") /\ (At({"zio", "finish"})' <=> l = "zio")
      /\ (At({"bigwait", "finish"})' <=> l = "bigwait")
  BY <1>2 DEF Working, Filling
<1>4. Seqs' = Seqs /\ itxList' \subseteq Seqs
  BY DEF Seqs, IInv, TypeInv
<1>5. TypeInv'
  <2>1. holders' \subseteq (Callers \cup DVAs) \X Nat
    <3>1. Last(lwbs).blk.dva \in DVAs
      BY LwbFields
    <3>2. holders \subseteq (Callers \cup DVAs) \X Nat /\ open \in Nat
      BY DEF IInv, TypeInv
    <3>3. <<Last(lwbs).blk.dva, open>> \in (Callers \cup DVAs) \X Nat
      BY <3>1, <3>2
    <3> QED
      BY <3>2, <3>3
  <2> QED
    BY <1>2, <1>4, <2>1 DEF IInv, TypeInv, Upto, Seqs
<1>6. WriterInv'
  BY <1>2, <1>3 DEF WriterInv
<1>7. QuietInv'
  <2>1. ~(suspend > 0 /\ ~suspending) /\ ~(suspend' > 0 /\ ~suspending') /\ ~Quiet'
    BY <1>2 DEF Quiet
  <2> QED
    BY <2>1 DEF IInv, QuietInv
<1>8. RecInv'
  <2>1. ASSUME NEW m \in Seqs, m \notin itxList'
        PROVE  \/ Settled(m)'
               \/ At({"bigwait", "finish"})' /\ itxs'[m].txg <= until'[writer']
               \/ Working' /\ (Logged(m)' \/ ~wlwb')
    <3>1. CASE m \in itxList
      BY <1>2, <1>3, <2>1, <3>1
    <3>2. CASE m \notin itxList
      <4>1. Settled(m) \/ Logged(m)
        BY <1>3, <3>2 DEF IInv, RecInv
      <4> QED
        BY <1>3, <4>1
    <3> QED
      BY <3>1, <3>2
  <2>2. \A v \in dead' : v.maxTxg <= FreedIn(v)'
    BY DEF IInv, RecInv
  <2> QED
    BY <1>4, <2>1, <2>2 DEF IInv, RecInv
<1>9. LoopInv'
  <2>1. \A m, f : Matches(m, f)' <=> Matches(m, f)
    BY DEF Matches
  <2>2. \A m \in Seqs : m < commitSeq => Settled(m)'
    BY DEF IInv, LoopInv
  <2>3. \A m \in promised : Settled(m)'
    BY DEF IInv, LoopInv
  <2>4. At(Filling)' => \A m \in itxList' : Matches(m, foid[c]) =>
                        IF wnext' = -1 THEN m > seq[c] ELSE m >= wnext'
    BY <1>3
  <2>5. At({"zio", "finish"})' => \A m \in itxList' : m >= wcommit' /\ (Matches(m, foid[c]) => m > seq[c])
    BY <1>3
  <2> QED
    BY <1>2, <1>4, <2>1, <2>2, <2>3, <2>4, <2>5 DEF LoopInv, Matches
<1> QED
  BY <1>2, <1>5, <1>6, <1>7, <1>8, <1>9

\* The record does not fit: the lwb is written, and the record goes into the next one,
\* waits for its txg, or is dropped because there is no next one.
LEMMA PushStartStep ==
  ASSUME IInv, ~Panic, wlwb, NEW c \in Callers, NEW d \in DVAs \cup {Nobody}, pc[c] = "fill", ~Stop(c),
         Take(MinOf(Pushable(c))), WriteStart(d), root' = TRUE,
         LET n == MinOf(Pushable(c))
             L == Started(SetLast(lwbs, Inited(Last(lwbs))), d)
             v == Inited(Last(L))
         IN  /\ lwbs' = IF d = Nobody THEN L
                        ELSE SetLast(L, IF Size(n) > Cap THEN v ELSE Copied(v, n))
             /\ IF d # Nobody /\ Size(n) > Cap
                THEN SetUntil(c, itxs[n].txg) /\ Goto(c, "bigwait")
                ELSE UNCHANGED <<pc, until>>,
         UNCHANGED <<open, floor, durable, call, itxs, writer, commitSeq, wcommit,
                     logError, susp, header, chain, disk, promised, dead>>
  PROVE  IInv'
<1>1. PICK n : n = MinOf(Pushable(c))
  OBVIOUS
<1>2. /\ n \in itxList /\ n \in Seqs /\ itxList' = itxList \ {n} /\ wnext' \in {-1} \cup 0..Len(itxs)
      /\ \A m \in itxList' : Matches(m, foid[c]) => IF wnext' = -1 THEN m > seq[c] ELSE m >= wnext'
      /\ \A m \in 1..(n - 1) : itxs[m].file \in {itxs[n].file, AnyFile} => m \in Seqs /\ m \notin itxList
  BY <1>1, TakeIs
<1>3. writer = c /\ writer # Nobody /\ (\A L : At(L) <=> pc[c] \in L) /\ ~At({"createwait"})
  BY Positions DEF IInv, WriterLabels
<1>4. PICK w : w = Last(lwbs)
  OBVIOUS
<1>5. w \in Lwbs /\ w.zio \in {"none", "init"} /\ w.buf /\ w \in Chain /\ ~Quiet /\ ~(destroyTxg > floor)
  BY <1>3, <1>4, LastIs
<1>6. PICK u : u = InIo(Inited(w), d)
  OBVIOUS
<1>7. PICK g : g = Lwb(NextBlk(w, d), open)
  OBVIOUS
<1>8. PICK L : L = Started(SetLast(lwbs, Inited(w)), d)
  OBVIOUS
<1>9. /\ d = Nobody => L = SetLast(lwbs, u)
      /\ d # Nobody => /\ L = Append(SetLast(lwbs, u), g) /\ g \in Lwbs /\ Last(L) = g
                       /\ \A y \in Lwbs : SetLast(L, y) = Append(SetLast(lwbs, u), y)
  BY <1>3, <1>4, <1>6, <1>7, <1>8, StartedLog
<1>10. /\ UNCHANGED <<open, floor, seq, foid, itxs, writer, commitSeq, wcommit, logError, destroyTxg,
                      suspend, suspending, zh, zhDisk, synced, chain, disk, promised, dead>>
       /\ holders' = holders \cup {<<w.blk.dva, open>>} /\ d \in Usable \cup {Nobody}
       /\ wlwb' = (d # Nobody)
       /\ d = Nobody => dirtied' = dirtied \cup {<<0, open>>} /\ space' = space
       /\ d # Nobody => dirtied' = dirtied /\ space' = Alloc(d, open)
  BY <1>4 DEF call, susp, header, WriteStart, TxgHeld
<1>11. dirtied \subseteq dirtied' /\ dirtied' \subseteq Nat \X Nat /\ open \in Nat /\ itxs[n].txg \in Nat
       /\ itxs[n].txg <= open /\ wcommit' \in 0..Len(itxs) /\ itxList' \subseteq itxList
  <2>1. itxs[n].txg \in Nat /\ itxs[n].txg <= open
    BY <1>2, ItxIs DEF IInv, RecInv
  <2>2. open \in Nat /\ wcommit' \in 0..Len(itxs) /\ dirtied \subseteq Nat \X Nat
    BY <1>10 DEF IInv, TypeInv
  <2>3. dirtied' = dirtied \/ dirtied' = dirtied \cup {<<0, open>>}
    BY <1>10
  <2> QED
    BY <1>2, <2>1, <2>2, <2>3
<1>12. PICK l : l = IF d # Nobody /\ Size(n) > Cap THEN "bigwait" ELSE "fill"
  OBVIOUS
<1>13. /\ l \in {"fill", "bigwait", "zio"} /\ l # "zio" /\ pc' = [pc EXCEPT ![c] = l]
       /\ until' \in [Callers -> Nat] /\ (\A e \in Callers : e # c => until'[e] = until[e])
       /\ l = "bigwait" => until'[c] = itxs[n].txg
  <2>1. pc \in [Callers -> Labels] /\ until \in [Callers -> Nat]
    BY DEF IInv, TypeInv
  <2>2. CASE d # Nobody /\ Size(n) > Cap
    BY <1>1, <1>11, <1>12, <2>1, <2>2 DEF SetUntil, Goto
  <2>3. CASE ~(d # Nobody /\ Size(n) > Cap)
    BY <1>1, <1>12, <2>1, <2>3
  <2> QED
    BY <2>2, <2>3
<1>14. (\A K : At(K)' <=> l \in K) /\ StartFrame
  <2>1. \A K : At(K)' <=> l \in K
    BY <1>3, <1>10, <1>13 DEF At, IInv, TypeInv
  <2>2. ~At({"createwait"})' /\ Working'
    BY <1>13, <2>1 DEF Working
  <2> QED
    BY <1>3, <1>4, <1>10, <2>1, <2>2 DEF StartFrame
<1>15. CASE d = Nobody
  <2>1. u = InIo(Inited(Last(lwbs)), Nobody) /\ lwbs' = SetLast(lwbs, u) /\ space' = space /\ wlwb' = FALSE
    BY <1>4, <1>6, <1>8, <1>9, <1>10, <1>15
  <2>2. /\ SpaceInv' /\ LinkInv' /\ HeadInv' /\ WriteInv' /\ DiskInv' /\ BirthInv' /\ OrderInv'
        /\ lwbs' \in Seq(Lwbs) /\ lwbs' # << >>
        /\ \A m : (Settled(m) => Settled(m)') /\ (Logged(m) => Logged(m)')
        /\ \A v \in Chain' : v.maxTxg <= open /\ \A m \in v.recs :
              m \in Seqs /\ m \notin itxList /\ itxs[m].txg <= v.maxTxg
    BY <1>14, <2>1, StartNoneStep
  <2>3. \A v \in Chain' : v.maxTxg <= open /\ \A m \in v.recs :
              m \in Seqs /\ m \notin itxList' /\ itxs[m].txg <= v.maxTxg
    BY <1>11, <2>2
  <2>4. space' \in [DVAs -> [birth : Nat, freed : Nat]] /\ wlwb' \in BOOLEAN /\ ~wlwb'
        /\ \A v \in dead : FreedIn(v)' = FreedIn(v)
    BY <2>1 DEF IInv, TypeInv, FreedIn
  <2>5. TypeInv' /\ CallerInv' /\ WriterInv' /\ QuietInv' /\ RecInv' /\ LoopInv'
    BY <1>2, <1>4, <1>5, <1>10, <1>11, <1>13, <2>2, <2>3, <2>4, StartRest
  <2> QED
    BY <2>2, <2>5 DEF IInv
<1>16. CASE d # Nobody
  <2>1. d \in Usable /\ space' = Alloc(d, open) /\ wlwb' = TRUE /\ d \in DVAs
    BY <1>10, <1>16
  <2>2. PICK f : f = IF Size(n) > Cap THEN Inited(g) ELSE Copied(Inited(g), n)
    OBVIOUS
  <2>3. g.blk = NextBlk(w, d) /\ g.recs = {} /\ g.next = Hole /\ g.buf /\ g.maxTxg = open /\ g.zio = "none"
    <3>1. NextBlk(w, d) \in Blks
      BY <1>5, <1>16, NextBlkIs
    <3> QED
      BY <1>7, <1>11, <3>1, LwbIs
  <2>4. /\ Inited(g) \in Lwbs /\ Inited(g).blk = g.blk /\ Inited(g).recs = {}
        /\ Inited(g).next = Hole /\ Inited(g).buf /\ Inited(g).maxTxg = open /\ Inited(g).zio = "init"
    BY <1>9, <1>16, <2>3, InitedIs
  <2>5. /\ f \in Lwbs /\ f.blk = NextBlk(w, d) /\ f.next = Hole /\ f.buf /\ f.zio = "init"
        /\ f.recs \subseteq {n} /\ f.maxTxg <= open /\ itxs[n].txg <= f.maxTxg
        /\ Size(n) > Cap \/ n \in f.recs
    <3>1. CASE Size(n) > Cap
      BY <1>11, <2>2, <2>3, <2>4, <3>1
    <3>2. CASE ~(Size(n) > Cap)
      <4>1. /\ f \in Lwbs /\ f.blk = g.blk /\ f.recs = {n} /\ f.next = Hole /\ f.buf /\ f.zio = "init"
            /\ f.maxTxg \in {open, itxs[n].txg} /\ itxs[n].txg <= f.maxTxg
        BY <1>2, <2>2, <2>4, <3>2, CopiedIs DEF IInv
      <4> QED
        BY <1>11, <2>3, <4>1
    <3> QED
      BY <3>1, <3>2
  <2>6. lwbs' = Append(SetLast(lwbs, u), f)
    <3>1. lwbs' = SetLast(L, f)
      BY <1>1, <1>4, <1>8, <1>9, <1>16, <2>2
    <3> QED
      BY <1>9, <1>16, <2>5, <3>1
  <2>7. \A r \in f.recs : \A m \in 1..(r - 1) : itxs[m].file \in {itxs[r].file, AnyFile} =>
           m \in Durable \/ \E x \in Chain : m \in x.recs
    <3> SUFFICES ASSUME NEW m \in 1..(n - 1), itxs[m].file \in {itxs[n].file, AnyFile}
                 PROVE  m \in Durable \/ \E x \in Chain : m \in x.recs
      BY <2>5
    <3>1. m \in Seqs /\ m \notin itxList
      BY <1>2
    <3> QED
      BY <3>1, Builds
  <2>8. At({"fill", "bigwait"})'
    BY <1>13, <1>14
  <2>9. /\ SpaceInv' /\ LinkInv' /\ HeadInv' /\ WriteInv' /\ DiskInv' /\ BirthInv' /\ OrderInv'
        /\ lwbs' \in Seq(Lwbs) /\ lwbs' # << >>
        /\ \A m : (Settled(m) => Settled(m)') /\ (Logged(m) => Logged(m)')
        /\ \A v \in Chain' : v = f \/ (v.maxTxg <= open /\ \A m \in v.recs :
              m \in Seqs /\ m \notin itxList /\ itxs[m].txg <= v.maxTxg)
        /\ f \in Chain' /\ space' \in [DVAs -> [birth : Nat, freed : Nat]]
    BY <1>4, <1>6, <1>14, <2>1, <2>5, <2>6, <2>7, <2>8, StartNextStep
  <2>10. \A v \in Chain' : v.maxTxg <= open /\ \A m \in v.recs :
              m \in Seqs /\ m \notin itxList' /\ itxs[m].txg <= v.maxTxg
    BY <1>2, <2>5, <2>9
  <2>11. \A v \in dead : FreedIn(v)' = FreedIn(v)
    <3>1. \A v \in dead : v.blk.dva \in DVAs /\ v.blk.dva # d
      BY <2>1, UsableIs, ChainType, LwbFields DEF IInv
    <3> QED
      BY <2>1, <3>1, AllocIs DEF IInv, FreedIn
  <2>12. \A m \in itxList \ itxList' : Logged(m)' \/ (l = "bigwait" /\ itxs[m].txg <= until'[c])
    <3>1. n \in f.recs => Logged(n)'
      BY <2>9 DEF Logged
    <3> QED
      BY <1>2, <1>11, <1>12, <1>13, <1>16, <2>5, <3>1
  <2>13. TypeInv' /\ CallerInv' /\ WriterInv' /\ QuietInv' /\ RecInv' /\ LoopInv'
    BY <1>2, <1>4, <1>5, <1>10, <1>11, <1>13, <2>1, <2>9, <2>10, <2>11, <2>12, StartRest
  <2> QED
    BY <2>9, <2>13 DEF IInv
<1> QED
  BY <1>15, <1>16

\* zil_lwb_commit()
LEMMA PushStep ==
  ASSUME IInv, ~Panic, NEW c \in Callers, NEW d \in DVAs \cup {Nobody}, Push(c, d)
  PROVE  IInv'
<1>1. PICK n : n = MinOf(Pushable(c))
  OBVIOUS
<1>2. /\ pc[c] = "fill" /\ ~Stop(c) /\ Take(MinOf(Pushable(c)))
      /\ UNCHANGED <<open, floor, durable, call, itxs, writer, commitSeq, wcommit,
                     logError, susp, header, chain, disk, promised, dead>>
  BY DEF Push
<1>3. UNCHANGED <<seq, foid, destroyTxg, suspend, suspending, zh, zhDisk, synced>>
  BY <1>2 DEF call, susp, header
<1>4. CASE /\ itxs[n].txg <= floor \/ ~wlwb
           /\ UNCHANGED <<holders, dirtied, pc, until, lwbs, wlwb, root, space>>
  BY <1>1, <1>2, <1>3, <1>4, PushSkipStep
<1>5. CASE /\ wlwb /\ lwbs' = SetLast(lwbs, Copied(Inited(Last(lwbs)), n)) /\ root' = TRUE
           /\ UNCHANGED <<holders, dirtied, pc, until, wlwb, space>>
  BY <1>1, <1>2, <1>3, <1>5, PushCopyStep
<1>6. CASE ~ \/ /\ itxs[n].txg <= floor \/ ~wlwb
                /\ UNCHANGED <<holders, dirtied, pc, until, lwbs, wlwb, root, space>>
             \/ /\ wlwb /\ lwbs' = SetLast(lwbs, Copied(Inited(Last(lwbs)), n)) /\ root' = TRUE
                /\ UNCHANGED <<holders, dirtied, pc, until, wlwb, space>>
  <2>1. /\ wlwb /\ WriteStart(d) /\ root' = TRUE
        /\ LET m == MinOf(Pushable(c))
               L == Started(SetLast(lwbs, Inited(Last(lwbs))), d)
               v == Inited(Last(L))
           IN  /\ lwbs' = IF d = Nobody THEN L
                          ELSE SetLast(L, IF Size(m) > Cap THEN v ELSE Copied(v, m))
               /\ IF d # Nobody /\ Size(m) > Cap
                  THEN SetUntil(c, itxs[m].txg) /\ Goto(c, "bigwait")
                  ELSE UNCHANGED <<pc, until>>
    BY <1>1, <1>6 DEF Push
  <2> QED
    BY <1>2, <2>1, PushStartStep
<1> QED
  BY <1>4, <1>5, <1>6

\* At the end of the loop no record that the writer was called for is left.
LEMMA StopIs ==
  ASSUME IInv, NEW c \in Callers, pc[c] = "fill", Stop(c)
  PROVE  /\ FirstLeft \in 0..Len(itxs)
         /\ \A m \in itxList : m >= FirstLeft /\ (Matches(m, foid[c]) => m > seq[c])
<1>1. Len(itxs) \in Nat /\ itxList \subseteq 1..Len(itxs)
  BY DEF IInv, TypeInv, Seqs
<1>2. itxList # {} => FirstLeft \in itxList /\ \A m \in itxList : m >= FirstLeft
  <2>1. itxList \in SUBSET Nat
    BY <1>1
  <2>2. itxList # {} => MinOf(itxList) \in itxList /\ \A m \in itxList : MinOf(itxList) <= m
    BY <2>1, Least
  <2> QED
    BY <1>1, <2>2 DEF FirstLeft
<1>3. FirstLeft \in 0..Len(itxs)
  <2>1. CASE itxList = {}
    BY <1>1, <2>1 DEF FirstLeft
  <2>2. CASE itxList # {}
    <3>1. FirstLeft \in 1..Len(itxs)
      BY <1>1, <1>2, <2>2
    <3> QED
      BY ONLY <1>1, <3>1
  <2> QED
    BY <2>1, <2>2
<1>4. ASSUME NEW m \in itxList, Matches(m, foid[c]) PROVE m > seq[c]
  <2>1. writer = c /\ At(Filling)
    BY Positions DEF IInv, WriterLabels, Filling
  <2>2. IF wnext = -1 THEN m > seq[c] ELSE m >= wnext
    BY <1>4, <2>1 DEF IInv, LoopInv
  <2>3. CASE wnext # -1
    <3>1. m \in Pushable(c)
      BY <1>4, <2>2, <2>3 DEF Pushable
    <3>2. MinOf(Pushable(c)) <= m /\ MinOf(Pushable(c)) \in Seqs
      BY <3>1, PushableIs DEF IInv
    <3>3. MinOf(Pushable(c)) > seq[c]
      BY <3>1 DEF Stop
    <3>4. m \in Nat /\ MinOf(Pushable(c)) \in Nat /\ seq[c] \in Nat
      BY <1>1, <3>2 DEF IInv, TypeInv, Seqs
    <3> QED
      BY <3>2, <3>3, <3>4
  <2> QED
    BY <2>2, <2>3
<1> QED
  BY <1>2, <1>3, <1>4

\* The end of the loop: the last lwb is written if it has a record, or no write is started.
LEMMA LastWriteStep ==
  ASSUME IInv, ~Panic, NEW c \in Callers, NEW d \in DVAs \cup {Nobody}, LastWrite(c, d)
  PROVE  IInv'
<1>1. /\ pc[c] = "fill" /\ Stop(c) /\ wcommit' = FirstLeft /\ pc' = [pc EXCEPT ![c] = "zio"]
      /\ UNCHANGED <<open, floor, durable, seq, foid, until, itxs, itxList, writer, commitSeq,
                     wnext, root, logError, destroyTxg, suspend, suspending, zh, zhDisk, synced, chain, disk,
                     promised, dead>>
  BY DEF LastWrite, Goto, call, susp, header
<1>2. /\ FirstLeft \in 0..Len(itxs)
      /\ \A m \in itxList : m >= FirstLeft /\ (Matches(m, foid[c]) => m > seq[c])
  BY <1>1, StopIs
<1>3. /\ pc' \in [Callers -> Labels] /\ CallerInv' /\ (Quiet' <=> Quiet)
      /\ writer = c /\ c # Nobody /\ (\A L : At(L) <=> "fill" \in L) /\ (\A L : At(L)' <=> "zio" \in L)
  <2>1. pc[c] \in WriterLabels /\ "zio" \in WriterLabels
    BY <1>1 DEF WriterLabels
  <2>2. /\ pc' \in [Callers -> Labels] /\ CallerInv' /\ (Quiet' <=> Quiet)
        /\ writer = c /\ c # Nobody /\ (\A L : At(L) <=> pc[c] \in L) /\ (\A L : At(L)' <=> "zio" \in L)
    BY <1>1, <2>1, WriterMove
  <2> QED
    BY <1>1, <2>2
<1>4. /\ ~At({"createwait"}) /\ ~At({"create"}) /\ Working /\ ~At({"bigwait", "finish"})
      /\ At({"fill", "bigwait"}) /\ ~At({"create", "createwait", "bigwait"}) /\ At(Filling)
  BY <1>3 DEF Working, Filling
<1>5. /\ ~At({"createwait"})' /\ ~At({"create"})' /\ Working' /\ ~At({"bigwait", "finish"})' /\ ~At(Filling)'
      /\ ~At({"fill", "bigwait"})' /\ ~At({"create", "createwait", "bigwait"})' /\ At({"zio", "finish"})'
  BY <1>3 DEF Working, Filling
<1>6. PICK w : w = Last(lwbs)
  OBVIOUS
<1>7. CASE wlwb /\ w.zio # "none"
  <2>1. WriteStart(d) /\ lwbs' = Started(lwbs, d)
    BY <1>6, <1>7 DEF LastWrite
  <2>2. w \in Lwbs /\ w.zio = "init" /\ w.buf /\ w \in Chain /\ ~Quiet /\ ~(destroyTxg > floor)
    BY <1>4, <1>6, <1>7, LastIs
  <2>3. root /\ root' /\ root' \in BOOLEAN
    BY <1>1, <2>2 DEF IInv, WriteInv, TypeInv
  <2>4. PICK u : u = InIo(Inited(w), d)
    OBVIOUS
  <2>5. PICK g : g = Lwb(NextBlk(w, d), open)
    OBVIOUS
  <2>6. /\ d = Nobody => lwbs' = SetLast(lwbs, u)
        /\ d # Nobody => lwbs' = Append(SetLast(lwbs, u), g) /\ g \in Lwbs
    BY <1>4, <1>6, <1>7, <2>1, <2>4, <2>5, StartedLog
  <2>7. /\ holders' = holders \cup {<<w.blk.dva, open>>} /\ d \in Usable \cup {Nobody}
        /\ wlwb' = (d # Nobody)
        /\ d = Nobody => dirtied' = dirtied \cup {<<0, open>>} /\ space' = space
        /\ d # Nobody => dirtied' = dirtied /\ space' = Alloc(d, open)
    BY <1>6, <2>1 DEF WriteStart, TxgHeld
  <2>8. StartFrame
    BY <1>1, <1>4, <1>5, <1>6, <2>3, <2>7 DEF StartFrame
  <2>9. dirtied \subseteq dirtied' /\ dirtied' \subseteq Nat \X Nat /\ open \in Nat
        /\ until' \in [Callers -> Nat] /\ wnext' \in {-1} \cup 0..Len(itxs)
    <3>1. open \in Nat /\ dirtied \subseteq Nat \X Nat
      BY DEF IInv, TypeInv
    <3>2. dirtied' = dirtied \/ dirtied' = dirtied \cup {<<0, open>>}
      BY <2>7
    <3>3. until' \in [Callers -> Nat] /\ wnext' \in {-1} \cup 0..Len(itxs)
      BY <1>1 DEF IInv, TypeInv
    <3> QED
      BY <3>1, <3>2, <3>3
  <2>10. CASE d = Nobody
    <3>1. u = InIo(Inited(Last(lwbs)), Nobody) /\ lwbs' = SetLast(lwbs, u) /\ space' = space /\ wlwb' = FALSE
      BY <1>6, <2>4, <2>6, <2>7, <2>10
    <3>2. /\ SpaceInv' /\ LinkInv' /\ HeadInv' /\ WriteInv' /\ DiskInv' /\ BirthInv' /\ OrderInv'
          /\ lwbs' \in Seq(Lwbs) /\ lwbs' # << >>
          /\ \A m : (Settled(m) => Settled(m)') /\ (Logged(m) => Logged(m)')
          /\ \A v \in Chain' : v.maxTxg <= open /\ \A m \in v.recs :
                m \in Seqs /\ m \notin itxList /\ itxs[m].txg <= v.maxTxg
      BY <1>7, <2>8, <3>1, StartNoneStep
    <3>3. space' \in [DVAs -> [birth : Nat, freed : Nat]] /\ wlwb' \in BOOLEAN
          /\ \A v \in dead : FreedIn(v)' = FreedIn(v)
      BY <3>1 DEF IInv, TypeInv, FreedIn
    <3>4. TypeInv' /\ CallerInv' /\ WriterInv' /\ QuietInv' /\ RecInv' /\ LoopInv'
      BY <1>1, <1>2, <1>6, <1>7, <2>2, <2>3, <2>7, <2>9, <3>2, <3>3, StartRest
    <3> QED
      BY <3>2, <3>4 DEF IInv
  <2>11. CASE d # Nobody
    <3>1. d \in Usable /\ space' = Alloc(d, open) /\ wlwb' = TRUE /\ d \in DVAs
      BY <2>7, <2>11
    <3>2. g.blk = NextBlk(w, d) /\ g.recs = {} /\ g.next = Hole /\ g.buf /\ g.maxTxg = open /\ g.zio = "none"
      <4>1. NextBlk(w, d) \in Blks
        BY <2>2, <2>11, NextBlkIs
      <4> QED
        BY <2>5, <2>9, <4>1, LwbIs
    <3>3. /\ SpaceInv' /\ LinkInv' /\ HeadInv' /\ WriteInv' /\ DiskInv' /\ BirthInv' /\ OrderInv'
          /\ lwbs' \in Seq(Lwbs) /\ lwbs' # << >>
          /\ \A m : (Settled(m) => Settled(m)') /\ (Logged(m) => Logged(m)')
          /\ \A v \in Chain' : v = g \/ (v.maxTxg <= open /\ \A m \in v.recs :
                m \in Seqs /\ m \notin itxList /\ itxs[m].txg <= v.maxTxg)
          /\ g \in Chain' /\ space' \in [DVAs -> [birth : Nat, freed : Nat]]
      BY <1>6, <1>7, <2>4, <2>6, <2>8, <2>11, <3>1, <3>2, StartNextStep
    <3>4. \A v \in Chain' : v.maxTxg <= open /\ \A m \in v.recs :
                m \in Seqs /\ m \notin itxList' /\ itxs[m].txg <= v.maxTxg
      BY <1>1, <2>9, <3>2, <3>3
    <3>5. \A v \in dead : FreedIn(v)' = FreedIn(v)
      <4>1. \A v \in dead : v.blk.dva \in DVAs /\ v.blk.dva # d
        BY <3>1, UsableIs, ChainType, LwbFields DEF IInv
      <4> QED
        BY <3>1, <4>1, AllocIs DEF IInv, FreedIn
    <3>6. TypeInv' /\ CallerInv' /\ WriterInv' /\ QuietInv' /\ RecInv' /\ LoopInv'
      BY <1>1, <1>2, <1>6, <1>7, <2>2, <2>3, <2>7, <2>9, <3>1, <3>3, <3>4, <3>5, StartRest
    <3> QED
      BY <3>3, <3>6 DEF IInv
  <2> QED
    BY <2>10, <2>11
<1>8. CASE ~(wlwb /\ w.zio # "none")
  <2>1. UNCHANGED <<holders, dirtied, space, wlwb, lwbs>>
    BY <1>6, <1>8 DEF LastWrite
  <2>2. TypeInv'
    BY <1>1, <1>2, <1>3, <2>1 DEF IInv, TypeInv, Upto, Seqs
  <2>3. WriterInv'
    BY <1>1, <1>5, <2>1 DEF IInv, WriterInv
  <2>4. LogSame /\ DiskKept
    BY <1>1, <2>1 DEF LogSame, DiskKept
  <2>5. /\ SpaceInv' /\ LinkInv' /\ BirthInv' /\ OrderInv'
        /\ Chain' = Chain /\ Alive' = Alive /\ Upto' = Upto /\ Seqs' = Seqs /\ \A n : Settled(n) => Settled(n)'
    BY <1>1, <2>4, MoveStep
  <2>6. HeadInv'
    BY <1>4, <1>5, <2>4, MoveHead
  <2>7. WriteInv'
    <3>1. \A v \in Chain : v.zio # "init"
      BY <1>6, <1>8 DEF IInv, WriteInv
    <3> QED
      BY <1>1, <1>5, <2>1, <2>5, <3>1 DEF IInv, WriteInv
  <2>8. DiskInv'
    BY <1>1, <1>4, <1>5, <2>4, <2>5, OnKept DEF IInv, DiskInv
  <2>9. QuietInv'
    BY <1>1, <1>3, <1>4, <1>5, <2>1, <2>5 DEF IInv, QuietInv
  <2>10. RecInv'
    <3>1. \A n \in Seqs : n \notin itxList => Settled(n) \/ (Logged(n) \/ ~wlwb)
      BY <1>4 DEF IInv, RecInv
    <3> QED
      BY <1>1, <1>5, <2>1, <2>4, <2>5, <3>1, MoveRec
  <2>11. LoopInv'
    <3>1. \A m, f : Matches(m, f)' <=> Matches(m, f)
      BY <1>1 DEF Matches
    <3>2. (\A m \in Seqs : m < commitSeq => Settled(m)') /\ \A m \in promised : Settled(m)'
      BY <2>5 DEF IInv, LoopInv
    <3> QED
      BY <1>1, <1>2, <1>3, <1>5, <2>5, <3>1, <3>2 DEF LoopInv, Matches
  <2> QED
    BY <1>3, <2>2, <2>3, <2>5, <2>6, <2>7, <2>8, <2>9, <2>10, <2>11 DEF IInv
<1> QED
  BY <1>7, <1>8

\* zil_create()
LEMMA CreateStep ==
  ASSUME IInv, NEW c \in Callers, NEW d \in DVAs \cup {Nobody}, Create(c, d)
  PROVE  IInv'
  BY CreateKeptStep, CreateNoneStep, CreateNewStep

-----------------------------------------------------------------------------
(* Freeing blocks: zil_destroy() and zil_sync() *)

LEMMA FreedIs ==
  ASSUME TypeInv, NEW D \in SUBSET DVAs, NEW t \in Nat, space' = Freed(D, t)
  PROVE  /\ space' \in [DVAs -> [birth : Nat, freed : Nat]]
         /\ \A d \in DVAs : space'[d].birth = space[d].birth
         /\ \A d \in D : space'[d].freed = t
         /\ \A d \in DVAs \ D : space'[d] = space[d]
<1>1. space \in [DVAs -> [birth : Nat, freed : Nat]]
  BY DEF TypeInv
<1>2. \A d \in DVAs : space'[d] = IF d \in D THEN [space[d] EXCEPT !.freed = t] ELSE space[d]
  BY DEF Freed
<1>3. \A d \in DVAs : space[d] \in [birth : Nat, freed : Nat]
  BY <1>1
<1>4. \A d \in DVAs : [space[d] EXCEPT !.freed = t] \in [birth : Nat, freed : Nat]
                      /\ [space[d] EXCEPT !.freed = t].birth = space[d].birth
                      /\ [space[d] EXCEPT !.freed = t].freed = t
  BY <1>3
<1>5. \A d \in DVAs : space'[d] \in [birth : Nat, freed : Nat]
  BY <1>2, <1>3, <1>4
<1>6. space' = [d \in DVAs |-> IF d \in D THEN [space[d] EXCEPT !.freed = t] ELSE space[d]]
  BY DEF Freed
<1>7. space' \in [DVAs -> [birth : Nat, freed : Nat]]
  BY ONLY <1>2, <1>5, <1>6
<1> QED
  BY <1>2, <1>4, <1>7

\* The lwbs of F, a part of the log, are freed in txg t.
LEMMA FreeIs ==
  ASSUME IInv, NEW F \in SUBSET Alive, NEW t \in Nat, space' = Freed({w.blk.dva : w \in F}, t),
         Chain' = Chain, floor' = floor
  PROVE  /\ space' \in [DVAs -> [birth : Nat, freed : Nat]]
         /\ \A d \in DVAs : space'[d].birth = space[d].birth
         /\ \A w \in F : FreedIn(w)' = t
         /\ \A w \in Chain \ F : FreedIn(w)' = FreedIn(w)
         /\ \A w \in Chain : Birth(w)' = Birth(w)
         /\ \A d \in DVAs : space'[d].birth # 0 /\ space'[d].freed \notin 1..floor =>
              \E w \in Chain : w.blk.dva = d
         /\ \A w \in dead : w \notin Alive
<1>1. Alive \subseteq Chain /\ F \subseteq Chain /\ dead \subseteq Chain /\ \A w \in Chain : w.blk.dva \in DVAs
  BY ChainType, LwbFields DEF IInv
<1>2. PICK D : D = {w.blk.dva : w \in F}
  OBVIOUS
<1>3. D \in SUBSET DVAs
  BY <1>1, <1>2
<1>4. /\ space' \in [DVAs -> [birth : Nat, freed : Nat]]
      /\ \A d \in DVAs : space'[d].birth = space[d].birth
      /\ \A d \in D : space'[d].freed = t
      /\ \A d \in DVAs \ D : space'[d] = space[d]
  BY <1>2, <1>3, FreedIs DEF IInv
<1>5. \A w \in F : FreedIn(w)' = t
  BY <1>2, <1>4 DEF FreedIn
<1>6. \A w \in Chain \ F : w.blk.dva \notin D
  BY <1>1, <1>2 DEF IInv, SpaceInv
<1>7. \A w \in Chain \ F : FreedIn(w)' = FreedIn(w)
  BY <1>1, <1>4, <1>6 DEF FreedIn
<1>8. \A w \in Chain : Birth(w)' = Birth(w)
  BY <1>1, <1>4 DEF Birth
<1>9. \A d \in DVAs : space'[d].birth # 0 /\ space'[d].freed \notin 1..floor => \E w \in Chain : w.blk.dva = d
  <2>1. \A d \in D : \E w \in Chain : w.blk.dva = d
    BY <1>1, <1>2
  <2>2. \A d \in DVAs \ D : space'[d].birth # 0 /\ space'[d].freed \notin 1..floor => \E w \in Chain : w.blk.dva = d
    BY <1>4 DEF IInv, SpaceInv
  <2> QED
    BY <2>1, <2>2
<1>10. \A w \in dead : w \notin Alive
  <2>1. floor \in Nat
    BY DEF IInv, TypeInv
  <2> QED
    BY <2>1 DEF IInv, SpaceInv
<1> QED
  BY <1>4, <1>5, <1>7, <1>8, <1>9, <1>10

\* What does not depend on where the lwbs of the log are.
LEMMA FreeFrame ==
  ASSUME IInv, Chain' = Chain, WriterSame, \A d \in DVAs : space'[d].birth = space[d].birth,
         UNCHANGED <<open, floor, holders, itxs, itxList, commitSeq, chain, disk, promised>>,
         \A v \in dead' : v.maxTxg <= FreedIn(v)', wlwb => Last(lwbs)' = Last(lwbs)
  PROVE  WriteInv' /\ DiskInv' /\ BirthInv' /\ RecInv' /\ LoopInv' /\ OrderInv'
<1>1. /\ (\A L : At(L)' <=> At(L)) /\ (Working' <=> Working)
      /\ UNCHANGED <<writer, wlwb, root, wnext, wcommit>> /\ Seqs' = Seqs
  BY SameAt DEF WriterSame, wvars, Seqs
<1>2. \A w \in Chain : w.blk.dva \in DVAs /\ w.next \in Ptrs
  BY ChainType, LwbFields DEF IInv
<1>3. \A w \in Chain : w.next # Hole => space'[w.next.dva].birth = space[w.next.dva].birth
  BY <1>2, HoleIs DEF Ptrs
<1>4. WriteInv'
  BY <1>1, <1>3 DEF IInv, WriteInv
<1>5. \A w : On(w)' = On(w) /\ (Match(w)' <=> Match(w))
  BY DEF On, Match
<1>6. DiskInv'
  BY <1>1, <1>5 DEF IInv, DiskInv
<1>7. BirthInv'
  <2>1. \A w \in Chain : Birth(w)' = Birth(w)
    BY <1>2 DEF Birth
  <2> QED
    BY <1>5, <2>1 DEF IInv, BirthInv, Before, SameChain
<1>8. Durable' = Durable
  BY <1>1 DEF Durable
<1>9. \A n : (Settled(n)' <=> Settled(n)) /\ (Logged(n)' <=> Logged(n))
  <2>1. \A w : Sealed(w)' <=> Sealed(w)
    BY <1>5 DEF Sealed, Before, SameChain
  <2> QED
    BY <1>8, <2>1 DEF Settled, Logged
<1>10. OrderInv'
  BY <1>8 DEF IInv, OrderInv, Before, SameChain
<1>11. RecInv'
  <2>1. At({"bigwait", "finish"}) => until'[writer] = until[writer]
    BY DEF At, WriterSame
  <2> QED
    BY <1>1, <1>9, <2>1 DEF IInv, RecInv
<1>12. LoopInv'
  <2>1. writer # Nobody => seq'[writer] = seq[writer] /\ foid'[writer] = foid[writer]
    BY DEF WriterSame
  <2>2. \A L : At(L) => writer # Nobody
    BY DEF At
  <2>3. \A m, f : Matches(m, f)' <=> Matches(m, f)
    BY DEF Matches
  <2>4. At(Filling) => \A n \in itxList : Matches(n, foid'[writer]) =>
         IF wnext = -1 THEN n > seq'[writer] ELSE n >= wnext
    BY <2>1, <2>2 DEF IInv, LoopInv
  <2>5. At({"zio", "finish"}) => \A n \in itxList : n >= wcommit /\ (Matches(n, foid'[writer]) => n > seq'[writer])
    BY <2>1, <2>2 DEF IInv, LoopInv
  <2>6. (\A n \in Seqs : n < commitSeq => Settled(n)') /\ \A n \in promised : Settled(n)'
    BY <1>9 DEF IInv, LoopInv
  <2> QED
    BY <1>1, <2>3, <2>4, <2>5, <2>6 DEF LoopInv, Matches
<1> QED
  BY <1>4, <1>6, <1>7, <1>10, <1>11, <1>12

\* zil_destroy(), in a suspended log: all its lwbs are dead.
LEMMA DestroyStep ==
  ASSUME IInv, NEW c \in Suspenders, Destroy(c)
  PROVE  IInv'
<1>1. /\ pc[c] = "destroy" /\ floor >= until[c] /\ suspending' = FALSE
      /\ pc' = [pc EXCEPT ![c] = "suspended"] /\ until' = [until EXCEPT ![c] = 0]
      /\ UNCHANGED <<open, floor, holders, durable, seq, foid, itxs, itxList, writer, commitSeq, wlwb, wnext,
                     wcommit, root, logError, suspend, zh, zhDisk, synced, chain, disk, promised>>
  BY DEF Destroy, Synced, SetUntil, Goto, call, wvars, header
<1>2. c \in Callers /\ pc \in [Callers -> Labels] /\ until \in [Callers -> Nat] /\ destroyTxg \in Nat
  BY Names DEF IInv, TypeInv
<1>3. destroyTxg <= floor /\ Quiet /\ pc[c] \in FirstLabels /\ pc[c] \notin WriterLabels
  BY <1>1, <1>2 DEF IInv, CallerInv, Quiet, FirstLabels, WriterLabels
<1>4. WriterSame
  <2>1. UNCHANGED <<writer, wvars>> /\ \A d \in Callers : pc[d] \in WriterLabels => pc'[d] = pc[d]
    BY <1>1, <1>2, <1>3 DEF wvars
  <2>2. \A d \in Callers : d # c => until'[d] = until[d] /\ seq'[d] = seq[d] /\ foid'[d] = foid[d]
    BY <1>1, <1>2
  <2> QED
    BY <1>2, <1>3, <2>1, <2>2, OtherCaller DEF IInv
<1>5. (\A L : At(L)' <=> At(L)) /\ ~wlwb /\ ~At({"create", "createwait", "bigwait"})
      /\ (\A w \in Alive : w.zio \in Idle) /\ ~At({"createwait"}) /\ ~At({"create"})
  BY <1>3, <1>4, SameAt DEF IInv, QuietInv, At
<1>6. pc' \in [Callers -> Labels] /\ until' \in [Callers -> Nat]
  BY <1>1, <1>2 DEF Labels
<1>7. ASSUME \A e \in Callers : pc'[e] # "destroy", UNCHANGED open PROVE CallerInv'
  <2>1. \A e \in Suspenders : pc'[e] = "idle" <=> pc[e] = "idle"
    BY <1>1, <1>2
  <2>2. suspend' = Cardinality({e \in Suspenders : pc'[e] # "idle"})
    BY <1>1, <2>1, CountSame DEF IInv
  <2>3. \A e \in Callers : pc'[e] = IF e = c THEN "suspended" ELSE pc[e]
    BY <1>1, <1>2
  <2>4. \A e \in Suspenders : pc'[e] \notin FirstLabels
    <3>1. "suspended" \notin FirstLabels
      BY DEF FirstLabels, CallLabels, WriterLabels
    <3> QED
      BY <1>3, <2>3, <3>1, Names DEF IInv, CallerInv
  <2>5. \A e \in Callers : pc'[e] \in WriterLabels <=> e = writer'
    <3>1. "suspended" \notin WriterLabels
      BY DEF WriterLabels
    <3> QED
      BY <1>1, <1>2, <1>3, <2>3, <3>1 DEF IInv, CallerInv
  <2>6. (\A e \in Threads : pc'[e] \in {"idle", "tx"} \cup CallLabels) /\ \A e \in Suspenders : pc'[e] # "tx"
    BY <2>3, Names DEF IInv, CallerInv
  <2>7. \A e \in Callers : pc'[e] = "tx" => until'[e] <= open'
    BY <1>1, <1>2, <2>3 DEF IInv, CallerInv
  <2> QED
    BY <1>7, <2>2, <2>4, <2>5, <2>6, <2>7 DEF CallerInv
<1>8. \A e \in Callers : pc'[e] # "destroy"
  <2>1. \A e \in Threads : pc[e] # "destroy"
    BY DEF IInv, CallerInv, CallLabels, WriterLabels
  <2>2. \A e \in Suspenders : pc[e] = "destroy" => e = c
    BY <1>3 DEF IInv, CallerInv, FirstLabels
  <2>3. pc'[c] = "suspended"
    BY <1>1, <1>2
  <2> QED
    BY <1>1, <1>2, <2>1, <2>2, <2>3, Names
<1>9. CallerInv'
  BY <1>1, <1>7, <1>8
<1>10. CASE zh = Hole
  <2>1. UNCHANGED <<dirtied, destroyTxg, lwbs, space, dead>>
    BY <1>10 DEF Destroy
  <2>2. lwbs = << >>
    <3>1. lwbs # << >> => lwbs[1].blk # Hole
      <4>1. lwbs \in Seq(Lwbs)
        BY DEF IInv, TypeInv
      <4>2. lwbs # << >> => lwbs[1] \in Lwbs
        BY <4>1, MembersIs
      <4> QED
        BY <4>2, LwbFields
    <3> QED
      BY <1>5, <1>10, <3>1 DEF IInv, HeadInv
  <2>3. LogSame
    BY <1>1, <2>1 DEF LogSame
  <2>4. Frame
    BY <1>1, <1>4, <2>1, <2>3, PlainFrame
  <2>5. /\ WriterInv' /\ SpaceInv' /\ LinkInv' /\ HeadInv' /\ WriteInv' /\ DiskInv' /\ BirthInv'
        /\ RecInv' /\ LoopInv' /\ OrderInv'
    BY <2>4, FrameStep
  <2>6. TypeInv'
    BY <1>1, <1>6, <2>1 DEF IInv, TypeInv, Upto, Seqs
  <2>7. QuietInv'
    <3>1. Alive' = Alive
      BY <2>3, SameLog
    <3> QED
      BY <1>1, <1>5, <1>10, <2>1, <2>2, <3>1 DEF IInv, QuietInv
  <2> QED
    BY <1>9, <2>5, <2>6, <2>7 DEF IInv
<1>11. CASE zh # Hole
  <2>1. PICK log : log = IF lwbs = << >> THEN {Lwb(zh, 0)} ELSE Members(lwbs)
    OBVIOUS
  <2>2. /\ dirtied' = dirtied \cup {<<0, open>>} /\ destroyTxg' = open /\ lwbs' = << >>
        /\ space' = Freed({w.blk.dva : w \in log}, open) /\ dead' = dead \cup log
    BY <1>11, <2>1 DEF Destroy
  <2>3. log = Alive
    <3>1. Members(<< >>) = {}
      BY DEF Members
    <3> QED
      BY <1>3, <1>11, <2>1, <3>1 DEF Alive, Kept
  <2>4. open \in Nat /\ floor \in Nat /\ floor < open /\ ~(open <= floor) /\ Upto < open /\ Upto \in Nat
        /\ (synced => floor + 1 < open)
    BY DEF IInv, TypeInv, Upto
  <2>5. Alive' = {} /\ Chain' = Chain /\ Upto' = Upto
    <3>1. Members(<< >>) = {}
      BY DEF Members
    <3>2. Alive' = {}
      BY <1>1, <2>2, <2>4, <3>1 DEF Alive, Kept
    <3> QED
      BY <1>1, <2>2, <2>3, <3>2 DEF Chain, Upto
  <2>6. /\ space' \in [DVAs -> [birth : Nat, freed : Nat]]
        /\ \A d \in DVAs : space'[d].birth = space[d].birth
        /\ \A w \in Alive : FreedIn(w)' = open
        /\ \A w \in Chain \ Alive : FreedIn(w)' = FreedIn(w)
        /\ \A w \in Chain : Birth(w)' = Birth(w)
        /\ \A d \in DVAs : space'[d].birth # 0 /\ space'[d].freed \notin 1..floor =>
             \E w \in Chain : w.blk.dva = d
        /\ \A w \in dead : w \notin Alive
    BY <1>1, <2>2, <2>3, <2>4, <2>5, FreeIs
  <2>7. \A w \in dead' : w \in Alive \/ (w \in dead /\ w \in Chain /\ w \notin Alive)
    BY <2>2, <2>3, <2>6, ChainType DEF IInv
  <2>8. \A w \in dead : synced /\ FreedIn(w) = floor + 1 /\ FreedIn(w) \in Nat
    <3>1. \A w \in dead : w.blk.dva \in DVAs
      BY ChainType, LwbFields DEF IInv
    <3>2. \A w \in dead : FreedIn(w) \in Nat
      BY <3>1 DEF IInv, TypeInv, FreedIn
    <3> QED
      BY <1>2, <1>3, <2>4, <3>2 DEF IInv, SpaceInv
  <2>9. SpaceInv'
    <3>1. \A w \in dead' : /\ Birth(w)' > 0 /\ FreedIn(w)' > floor
                           /\ FreedIn(w)' = destroyTxg' \/ (synced' /\ FreedIn(w)' = floor' + 1)
                           /\ w.zio \in Idle
      <4> SUFFICES ASSUME NEW w \in dead'
                   PROVE  /\ Birth(w)' > 0 /\ FreedIn(w)' > floor
                          /\ FreedIn(w)' = open \/ (synced /\ FreedIn(w)' = floor + 1)
                          /\ w.zio \in Idle
        BY <1>1, <2>2
      <4>1. CASE w \in Alive
        BY <1>5, <2>4, <2>6, <4>1, ChainType DEF IInv, SpaceInv
      <4>2. CASE w \in dead /\ w \in Chain /\ w \notin Alive
        BY <2>4, <2>6, <2>8, <4>2 DEF IInv, SpaceInv
      <4> QED
        BY <2>7, <4>1, <4>2
    <3> QED
      BY <1>1, <2>5, <2>6, <3>1 DEF IInv, SpaceInv
  <2>10. LinkInv'
    <3>1. \A v, w \in dead' : Before(v, w) => FreedIn(v)' <= FreedIn(w)'
      <4> SUFFICES ASSUME NEW v \in dead', NEW w \in dead', Before(v, w) PROVE FreedIn(v)' <= FreedIn(w)'
        OBVIOUS
      <4>1. CASE w \in Alive
        <5>1. FreedIn(v)' <= open
          BY <2>4, <2>6, <2>7, <2>8
        <5> QED
          BY <2>6, <4>1, <5>1
      <4>2. CASE w \in dead /\ w \in Chain /\ w \notin Alive
        <5>1. v \notin Alive
          <6>1. v \in Alive => v \in Lwbs /\ w \in Lwbs
            BY <4>2, ChainType DEF IInv
          <6>2. v \in Alive => Before(w, v)
            BY <4>2 DEF IInv, LinkInv, Before, SameChain
          <6> QED
            BY <6>1, <6>2, LwbFields DEF Before
        <5> QED
          BY <2>4, <2>6, <2>7, <2>8, <4>2, <5>1
      <4> QED
        BY <2>7, <4>1, <4>2
    <3> QED
      BY <1>1, <2>2, <2>5, <3>1 DEF IInv, LinkInv, Before, SameChain
  <2>11. HeadInv'
    <3>1. \A w \in Chain : FreedIn(w)' \notin 1..Upto <=> FreedIn(w) \notin 1..Upto
      <4>1. \A w \in Alive : FreedIn(w) = 0
        BY DEF IInv, SpaceInv
      <4> QED
        BY <2>4, <2>6, <4>1
    <3> QED
      BY <1>1, <1>5, <2>2, <2>5, <3>1 DEF IInv, HeadInv
  <2>12. TypeInv'
    <3>1. dead' \subseteq Lwbs
      BY <2>2, <2>3, ChainType DEF IInv
    <3>2. dirtied' \subseteq Nat \X Nat
      BY <2>2, <2>4 DEF IInv, TypeInv
    <3>3. lwbs' \in Seq(Lwbs) /\ suspending' \in BOOLEAN /\ destroyTxg' \in Nat /\ Seqs' = Seqs
      <4>1. << >> \in Seq(Lwbs)
        OBVIOUS
      <4>2. Seqs' = Seqs
        BY <1>1 DEF Seqs
      <4> QED
        BY <1>1, <2>2, <2>4, <4>1, <4>2
    <3>4. space' \in [DVAs -> [birth : Nat, freed : Nat]] /\ Upto' = Upto
      BY <2>5, <2>6
    <3> QED
      BY <1>1, <1>6, <3>1, <3>2, <3>3, <3>4 DEF IInv, TypeInv
  <2>13. WriterInv'
    BY <1>1, <1>5 DEF WriterInv
  <2>14. QuietInv'
    BY <1>1, <1>5, <2>2, <2>4, <2>5 DEF QuietInv
  <2>15. \A v \in dead' : v.maxTxg <= FreedIn(v)'
    <3>1. \A v \in Alive : v.maxTxg <= open
      BY ChainType DEF IInv, RecInv
    <3> QED
      BY <2>6, <2>7, <3>1 DEF IInv, RecInv
  <2>16. WriteInv' /\ DiskInv' /\ BirthInv' /\ RecInv' /\ LoopInv' /\ OrderInv'
    BY <1>1, <1>4, <1>5, <2>5, <2>6, <2>15, FreeFrame
  <2> QED
    BY <1>9, <2>9, <2>10, <2>11, <2>12, <2>13, <2>14, <2>16 DEF IInv
<1> QED
  BY <1>10, <1>11

\* The lwbs that zil_sync() frees: the longest useless part at the head of the list.
Cut(i) ==
  /\ \A j \in 1..i : Useless(lwbs[j])
  /\ i < Len(lwbs) => ~Useless(lwbs[i + 1])

LEMMA PrefixIs ==
  ASSUME TypeInv
  PROVE  \E k \in 0..Len(lwbs) : Cut(k)
<1>1. Len(lwbs) \in Nat
  BY DEF TypeInv
<1>2. PICK S : S = {i \in 1..Len(lwbs) : ~Useless(lwbs[i])}
  OBVIOUS
<1>3. CASE S = {}
  <2>1. \A j \in 1..Len(lwbs) : Useless(lwbs[j])
    BY <1>2, <1>3
  <2> WITNESS Len(lwbs) \in 0..Len(lwbs)
  <2> QED
    BY <1>1, <2>1 DEF Cut
<1>4. CASE S # {}
  <2>1. S \in SUBSET Nat
    BY <1>1, <1>2
  <2>2. PICK n \in S : \A m \in S : n <= m
    BY <1>4, <2>1, Least
  <2>3. n \in 1..Len(lwbs) /\ ~Useless(lwbs[n]) /\ n \in Nat
    BY <1>1, <1>2, <2>2
  <2>4. \A j \in 1..(n - 1) : Useless(lwbs[j])
    <3> SUFFICES ASSUME NEW j \in 1..(n - 1) PROVE Useless(lwbs[j])
      OBVIOUS
    <3>1. j \in 1..Len(lwbs) /\ ~(n <= j)
      BY <1>1, <2>3
    <3> QED
      BY <1>2, <2>2, <3>1
  <2>5. PICK k : k = n - 1
    OBVIOUS
  <2>6. k \in 0..Len(lwbs) /\ k + 1 = n
    BY <1>1, <2>3, <2>5
  <2>7. (\A j \in 1..k : Useless(lwbs[j])) /\ ~Useless(lwbs[k + 1])
    BY <2>3, <2>4, <2>5, <2>6
  <2> QED
    BY <2>6, <2>7 DEF Cut
<1> QED
  BY <1>3, <1>4

\* The list is cut: F are the lwbs that are freed, and what is left starts at the next.
CutTo(s, k, r) ==
  /\ r \in Seq(Lwbs) /\ Len(r) = Len(s) - k /\ Len(s) \in Nat /\ k \in Nat
  /\ \A i \in 1..(Len(s) - k) : r[i] = s[k + i]
  /\ Members(r) = {s[i] : i \in (k + 1)..Len(s)}
  /\ Members(s) = {s[i] : i \in 1..k} \cup Members(r)
  /\ r = << >> <=> k = Len(s)
  /\ k < Len(s) => r[1] = s[k + 1] /\ Last(r) = Last(s)
  /\ k = 0 => r = s

LEMMA CutIs ==
  ASSUME NEW s \in Seq(Lwbs), NEW k \in 0..Len(s), NEW r, r = SubSeq(s, k + 1, Len(s))
  PROVE  CutTo(s, k, r)
<1>1. Len(s) \in Nat /\ k \in Nat /\ k <= Len(s)
  OBVIOUS
<1>2. r \in Seq(Lwbs) /\ Len(r) = Len(s) - k
  BY <1>1
<1>3. \A i \in 1..(Len(s) - k) : r[i] = s[k + i]
  BY <1>1
<1>4. Members(r) = {s[i] : i \in (k + 1)..Len(s)}
  <2>1. Members(r) = {r[i] : i \in 1..(Len(s) - k)}
    <3>1. Members(r) = {r[i] : i \in 1..Len(r)}
      BY ONLY <1>2, MembersIs
    <3> QED
      BY ONLY <1>2, <3>1
  <2>2. \A i \in 1..(Len(s) - k) : k + i \in (k + 1)..Len(s)
    BY <1>1
  <2>3. \A i \in (k + 1)..Len(s) : i - k \in 1..(Len(s) - k) /\ k + (i - k) = i
    BY <1>1
  <2>4. \A i \in (k + 1)..Len(s) : r[i - k] = s[i]
    BY <1>3, <2>3
  <2>5. \A x : x \in Members(r) <=> \E i \in (k + 1)..Len(s) : x = s[i]
    BY ONLY <1>3, <2>1, <2>2, <2>3, <2>4
  <2> QED
    BY ONLY <2>5
<1>5. Members(s) = {s[i] : i \in 1..k} \cup Members(r)
  <2>1. Members(s) = {s[i] : i \in 1..Len(s)}
    BY MembersIs
  <2>2. 1..Len(s) = (1..k) \cup ((k + 1)..Len(s))
    BY <1>1
  <2> QED
    BY <1>4, <2>1, <2>2
<1>6. r = << >> <=> k = Len(s)
  <2>1. r = << >> <=> Len(r) = 0
    <3>1. \A q \in Seq(Lwbs) : q = << >> <=> Len(q) = 0
      OBVIOUS
    <3> QED
      BY ONLY <1>2, <3>1
  <2> QED
    BY <1>1, <1>2, <2>1
<1>7. k < Len(s) => r[1] = s[k + 1] /\ Last(r) = Last(s)
  <2>1. k < Len(s) => 1 \in 1..(Len(s) - k) /\ Len(s) - k \in 1..(Len(s) - k) /\ k + (Len(s) - k) = Len(s)
    BY <1>1
  <2>2. k < Len(s) => r[1] = s[k + 1] /\ r[Len(s) - k] = s[Len(s)]
    BY <1>3, <2>1
  <2> QED
    BY <1>2, <2>2 DEF Last
<1>8. k = 0 => r = s
  OBVIOUS
<1> QED
  BY <1>1, <1>2, <1>3, <1>4, <1>5, <1>6, <1>7, <1>8 DEF CutTo

\* A writer that has an lwb keeps it.
LEMMA WriterKeeps ==
  ASSUME IInv, ~Panic, wlwb
  PROVE  lwbs # << >> /\ Last(lwbs).buf /\ (At({"createwait"}) => Len(lwbs) = 1)
<1>1. writer # Nobody /\ lwbs # << >>
  BY DEF IInv, WriterInv
<1>2. Last(lwbs).buf
  <2>1. lwbs \in Seq(Lwbs)
    BY DEF IInv, TypeInv
  <2> QED
    BY <1>1 DEF Panic
<1>3. At({"createwait"}) => Len(lwbs) = 1
  <2>1. At({"createwait"}) => \E x : lwbs = <<x>>
    BY DEF IInv, WriterInv
  <2> QED
    BY <2>1, OneIs
<1> QED
  BY <1>1, <1>2, <1>3

\* zil_sync(): the lwbs of F, the first k of the list, are dead.
LEMMA ZilSyncStep ==
  ASSUME IInv, ~Panic, ZilSync
  PROVE  IInv'
<1>1. PICK k : k = CHOOSE i \in 0..Len(lwbs) : Cut(i)
  OBVIOUS
<1>2. k \in 0..Len(lwbs) /\ Cut(k)
  <2>1. \E i \in 0..Len(lwbs) : Cut(i)
    BY PrefixIs DEF IInv
  <2> QED
    BY ONLY <1>1, <2>1, Zenon
<1>3. /\ floor + 1 < open /\ ~synced /\ synced' = TRUE /\ lwbs' = SubSeq(lwbs, k + 1, Len(lwbs))
      /\ space' = Freed({lwbs[i].blk.dva : i \in 1..k}, floor + 1)
      /\ dead' = dead \cup {lwbs[i] : i \in 1..k} /\ zh' = HeaderAfter(k)
      /\ UNCHANGED <<open, floor, holders, dirtied, durable, pc, seq, foid, until, itxs, itxList, writer, commitSeq,
                     wlwb, wnext, wcommit, root, logError, destroyTxg, suspend, suspending, zhDisk, chain,
                     disk, promised>>
  <2>1. /\ lwbs' = SubSeq(lwbs, k + 1, Len(lwbs))
        /\ space' = Freed({lwbs[i].blk.dva : i \in 1..k}, Syncing)
        /\ dead' = dead \cup {lwbs[i] : i \in 1..k} /\ zh' = HeaderAfter(k)
    BY <1>1, Zenon DEF ZilSync, Cut
  <2>2. /\ floor + 1 < open /\ ~synced /\ synced' = TRUE
        /\ UNCHANGED <<svc, pc, call, until, itxs, itxList, writer, commitSeq, wvars, logError,
                       susp, zhDisk, chain, disk, promised>>
    BY DEF ZilSync, InSync, Syncing
  <2> QED
    BY <2>1, <2>2 DEF Syncing, svc, call, wvars, susp
<1>4. lwbs \in Seq(Lwbs) /\ open \in Nat /\ floor \in Nat /\ destroyTxg \in Nat /\ Len(lwbs) \in Nat
  BY DEF IInv, TypeInv
<1>5. /\ lwbs' \in Seq(Lwbs) /\ Len(lwbs') = Len(lwbs) - k /\ k \in Nat
      /\ (\A i \in 1..(Len(lwbs) - k) : lwbs'[i] = lwbs[k + i])
      /\ Members(lwbs') = {lwbs[i] : i \in (k + 1)..Len(lwbs)}
      /\ Members(lwbs) = {lwbs[i] : i \in 1..k} \cup Members(lwbs')
      /\ (lwbs' = << >> <=> k = Len(lwbs))
      /\ (k < Len(lwbs) => lwbs'[1] = lwbs[k + 1] /\ Last(lwbs)' = Last(lwbs))
      /\ (k = 0 => lwbs' = lwbs)
  <2>1. PICK r : r = lwbs'
    OBVIOUS
  <2>2. r = SubSeq(lwbs, k + 1, Len(lwbs))
    BY <1>3, <2>1
  <2>3. k \in 0..Len(lwbs) /\ lwbs \in Seq(Lwbs)
    BY <1>2, <1>4
  <2>4. CutTo(lwbs, k, r)
    BY ONLY <2>2, <2>3, CutIs
  <2> QED
    BY <2>1, <2>4 DEF CutTo, Last
<1>6. PICK F : F = {lwbs[i] : i \in 1..k}
  OBVIOUS
<1>7. PICK R : R = {lwbs[i] : i \in (k + 1)..Len(lwbs)}
  OBVIOUS
<1>8. /\ F \subseteq Alive /\ F \subseteq Lwbs /\ dead' = dead \cup F /\ Members(lwbs) = F \cup R /\ Members(lwbs') = R
      /\ space' = Freed({w.blk.dva : w \in F}, floor + 1) /\ F \subseteq Chain
  <2>1. {w.blk.dva : w \in F} = {lwbs[i].blk.dva : i \in 1..k}
    BY <1>6
  <2> QED
    BY <1>3, <1>5, <1>6, <1>7, <2>1, ChainType DEF IInv
<1>9. \A w \in F : ~w.buf /\ w.maxTxg <= floor + 1 /\ w.zio = "done"
  <2>1. \A w \in F : ~w.buf /\ w.maxTxg <= floor + 1
    BY <1>2, <1>6 DEF Cut, Useless, Syncing
  <2> QED
    BY <1>8, <2>1 DEF IInv, WriteInv
<1>10. \A i \in 1..Len(lwbs) : /\ lwbs[i].blk.guid = lwbs[1].blk.guid /\ lwbs[i].blk.num = lwbs[1].blk.num + i - 1
                               /\ lwbs[i] \in Lwbs /\ lwbs[i].blk.num \in Nat /\ lwbs[1].blk.num \in Nat
  <2>1. DOMAIN lwbs = 1..Len(lwbs)
    BY <1>4
  <2>2. \A i \in 1..Len(lwbs) : lwbs[i] \in Lwbs /\ lwbs[1] \in Lwbs
    BY <1>4
  <2> QED
    BY <2>1, <2>2, LwbFields DEF IInv, LinkInv
<1>11. \A v \in F, w \in R : SameChain(v, w) /\ Before(v, w)
  <2> SUFFICES ASSUME NEW i \in 1..k, NEW j \in (k + 1)..Len(lwbs)
               PROVE  SameChain(lwbs[i], lwbs[j]) /\ Before(lwbs[i], lwbs[j])
    BY <1>6, <1>7
  <2>1. i \in 1..Len(lwbs) /\ j \in 1..Len(lwbs) /\ i < j
    BY <1>4, <1>5
  <2>2. lwbs[i].blk.num < lwbs[j].blk.num
    <3>1. lwbs[i].blk.num = lwbs[1].blk.num + i - 1 /\ lwbs[j].blk.num = lwbs[1].blk.num + j - 1
          /\ lwbs[1].blk.num \in Nat /\ i \in Nat /\ j \in Nat
      BY <1>4, <1>10, <2>1
    <3> QED
      BY ONLY <2>1, <3>1
  <2> QED
    BY <1>10, <2>1, <2>2 DEF Before, SameChain
<1>12. F \cap R = {}
  <2>1. \A w \in F : ~Before(w, w)
    BY <1>8, LwbFields DEF Before
  <2> QED
    BY <1>11, <2>1
<1>13. lwbs # << >> => destroyTxg <= floor /\ dead = {} /\ Kept = {}
  <2>1. lwbs # << >> => destroyTxg <= floor
    BY <1>4 DEF IInv, QuietInv
  <2>2. \A w \in dead : FreedIn(w) > floor /\ FreedIn(w) = destroyTxg
    BY <1>3 DEF IInv, SpaceInv
  <2> QED
    BY <1>4, <2>1, <2>2 DEF Kept
<1>14. Len(lwbs) = 0 <=> lwbs = << >>
  BY <1>4
<1>15. Alive' = Alive \ F /\ Kept' = Kept
  <2>1. Kept' = Kept
    <3>1. CASE lwbs = << >>
      <4>1. lwbs' = << >> /\ k = 0
        BY <1>2, <1>5, <1>14, <3>1
      <4>2. zh' = IF destroyTxg = floor + 1 THEN Hole ELSE zh
        BY <1>3, <1>14, <3>1, <4>1 DEF HeaderAfter, Syncing
      <4>3. destroyTxg' = destroyTxg /\ floor' = floor /\ (destroyTxg <= floor => destroyTxg # floor + 1)
        BY <1>3, <1>4
      <4>4. zh' # Hole /\ destroyTxg <= floor <=> zh # Hole /\ destroyTxg <= floor
        BY <4>2, <4>3
      <4>5. destroyTxg <= floor => zh' = zh
        BY <4>2, <4>3
      <4> QED
        BY ONLY <3>1, <4>1, <4>3, <4>4, <4>5 DEF Kept, Lwb
    <3>2. CASE lwbs # << >>
      <4>1. lwbs' = << >> => zh' = Hole
        BY <1>2, <1>3, <1>4, <1>5, <1>14, <3>2 DEF HeaderAfter
      <4> QED
        BY <1>13, <3>2, <4>1 DEF Kept
    <3> QED
      BY <3>1, <3>2
  <2>2. Members(lwbs) = {} \/ Kept = {}
    <3>1. lwbs = << >> => Members(lwbs) = {}
      BY <1>4, MembersIs
    <3> QED
      BY <1>13, <3>1
  <2> QED
    BY <1>8, <1>12, <2>1, <2>2 DEF Alive
<1>16. Chain' = Chain
  BY <1>8, <1>15 DEF Chain
<1>17. /\ space' \in [DVAs -> [birth : Nat, freed : Nat]]
       /\ \A d \in DVAs : space'[d].birth = space[d].birth
       /\ \A w \in F : FreedIn(w)' = floor + 1
       /\ \A w \in Chain \ F : FreedIn(w)' = FreedIn(w)
       /\ \A w \in Chain : Birth(w)' = Birth(w)
       /\ \A d \in DVAs : space'[d].birth # 0 /\ space'[d].freed \notin 1..floor =>
            \E w \in Chain : w.blk.dva = d
       /\ \A w \in dead : w \notin Alive
  <2>1. floor + 1 \in Nat /\ F \in SUBSET Alive
    BY <1>4, <1>8
  <2> QED
    BY <1>3, <1>8, <1>16, <2>1, FreeIs
<1>18. Upto' = floor + 1 /\ Upto = floor
  BY <1>3 DEF Upto
<1>19. wlwb => /\ k < Len(lwbs) /\ Last(lwbs)' = Last(lwbs) /\ lwbs' # << >>
               /\ At({"createwait"}) => k = 0 /\ lwbs' = lwbs
  <2>1. wlwb => lwbs # << >> /\ Last(lwbs).buf /\ (At({"createwait"}) => Len(lwbs) = 1)
    BY WriterKeeps
  <2>2. wlwb => k # Len(lwbs)
    <3>1. lwbs # << >> /\ k = Len(lwbs) => Last(lwbs) \in F
      <4>1. Last(lwbs) = lwbs[Len(lwbs)]
        BY DEF Last
      <4>2. lwbs # << >> => Len(lwbs) \in 1..Len(lwbs)
        BY <1>4, <1>14
      <4> QED
        BY <1>6, <4>1, <4>2
    <3> QED
      BY <1>9, <2>1, <3>1
  <2>3. wlwb => k < Len(lwbs)
    BY <1>2, <1>4, <1>5, <2>2
  <2> QED
    BY <1>4, <1>5, <2>1, <2>3
<1>20. (\A L : At(L)' <=> At(L)) /\ WriterSame
  BY <1>3, SameAt DEF WriterSame, wvars
<1>21. \A v \in dead' : v.maxTxg <= FreedIn(v)'
  BY <1>8, <1>9, <1>17, ChainType DEF IInv, RecInv
<1>22. WriteInv' /\ DiskInv' /\ BirthInv' /\ RecInv' /\ LoopInv' /\ OrderInv'
  BY <1>3, <1>16, <1>17, <1>19, <1>20, <1>21, FreeFrame
<1>23. k < Len(lwbs) => zh' = lwbs[k + 1].blk /\ lwbs[k + 1] \in R /\ lwbs[k + 1] \in Lwbs /\ zh' = lwbs'[1].blk
  <2>1. k < Len(lwbs) => k + 1 \in (k + 1)..Len(lwbs) /\ k + 1 \in 1..Len(lwbs)
    BY <1>4, <1>5
  <2> QED
    BY <1>3, <1>5, <1>7, <1>10, <2>1 DEF HeaderAfter
<1>24. k = Len(lwbs) => zh' = IF lwbs # << >> \/ destroyTxg = floor + 1 THEN Hole ELSE zh
  BY <1>3, <1>4, <1>14 DEF HeaderAfter, Syncing
<1>25. k < Len(lwbs) \/ k = Len(lwbs)
  BY <1>2, <1>4, <1>5
<1>26. TypeInv'
  <2>1. zh' \in Ptrs
    <3>1. k < Len(lwbs) => zh' \in Ptrs
      BY <1>23, LwbFields DEF Ptrs
    <3>2. k = Len(lwbs) => zh' \in Ptrs
      BY <1>24 DEF IInv, TypeInv, Ptrs
    <3> QED
      BY <1>25, <3>1, <3>2
  <2>2. dead' \subseteq Lwbs /\ Seqs' = Seqs /\ Upto' < open /\ synced' \in BOOLEAN
    BY <1>3, <1>8, <1>18 DEF IInv, TypeInv, Seqs
  <2>3. lwbs' \in Seq(Lwbs) /\ space' \in [DVAs -> [birth : Nat, freed : Nat]]
    BY <1>5, <1>17
  <2> QED
    BY <1>3, <2>1, <2>2, <2>3 DEF IInv, TypeInv
<1>27. CallerInv'
  BY <1>3 DEF IInv, CallerInv
<1>28. WriterInv'
  <2>1. lwbs = << >> => lwbs' = << >>
    BY <1>5, <1>14, <1>25, <1>2, <1>4
  <2>2. At({"createwait"}) /\ wlwb => Birth(lwbs[1])' = Birth(lwbs[1])
    <3>1. wlwb => 1 \in 1..Len(lwbs)
      BY <1>4, <1>5, <1>19
    <3>2. wlwb => lwbs[1] \in Chain
      <4>1. lwbs # << >> => lwbs[1] \in Members(lwbs)
        BY <1>4, MembersIs
      <4> QED
        BY <4>1, ChainType DEF IInv, WriterInv
    <3>3. wlwb => \A x : x = lwbs[1] => Birth(x)' = Birth(x)
      BY <1>17, <3>2
    <3> QED
      BY <1>3, <1>19, <3>3 DEF Birth
  <2> QED
    BY <1>3, <1>19, <1>20, <2>1, <2>2 DEF IInv, WriterInv
<1>29. QuietInv'
  <2>1. Quiet' <=> Quiet
    BY <1>3 DEF Quiet
  <2>2. lwbs = << >> => lwbs' = << >> /\ k = Len(lwbs)
    BY <1>2, <1>4, <1>5, <1>14
  <2>3. Quiet => ~wlwb /\ ~At({"create", "createwait", "bigwait"}) /\ \A w \in Alive' : w.zio \in Idle
    BY <1>15 DEF IInv, QuietInv
  <2>4. suspend > 0 /\ ~suspending => lwbs' = << >> /\ (zh' = Hole \/ destroyTxg > floor)
    BY <1>24, <2>2 DEF IInv, QuietInv
  <2>5. destroyTxg > floor => /\ lwbs' = << >> /\ <<0, destroyTxg>> \in dirtied /\ ~At({"createwait"})
                              /\ destroyTxg = floor + 1 => zh' = Hole
    BY <1>24, <2>2 DEF IInv, QuietInv
  <2> QED
    BY <1>3, <1>20, <2>1, <2>3, <2>4, <2>5 DEF IInv, QuietInv
<1>30. SpaceInv'
  <2>1. \A w \in Alive' : Birth(w)' > 0 /\ FreedIn(w)' = 0
    BY <1>15, <1>17, ChainType DEF IInv, SpaceInv
  <2>2. \A w \in dead : FreedIn(w)' = FreedIn(w) /\ w \in Chain
    BY <1>8, <1>17, ChainType DEF IInv
  <2>3. \A w \in dead : /\ Birth(w)' > 0 /\ FreedIn(w)' > floor /\ FreedIn(w)' = destroyTxg /\ w.zio \in Idle
    BY <1>3, <1>17, <2>2 DEF IInv, SpaceInv
  <2>4. \A w \in F : Birth(w)' > 0 /\ FreedIn(w)' > floor /\ FreedIn(w)' = floor + 1 /\ w.zio \in Idle
    BY <1>4, <1>8, <1>9, <1>17 DEF IInv, SpaceInv, Idle
  <2> QED
    BY <1>3, <1>8, <1>16, <1>17, <2>1, <2>3, <2>4 DEF IInv, SpaceInv
<1>31. LinkInv'
  <2>1. ASSUME NEW i \in DOMAIN lwbs'
        PROVE  /\ lwbs'[i].blk.guid = lwbs'[1].blk.guid /\ lwbs'[i].blk.num = lwbs'[1].blk.num + i - 1
               /\ lwbs'[i].next = IF i = Len(lwbs') THEN Hole ELSE lwbs'[i + 1].blk
               /\ i < Len(lwbs') => lwbs'[i].zio \in InFlight \cup {"done"}
    <3>1. i \in 1..(Len(lwbs) - k) /\ i \in Nat /\ k <= Len(lwbs)
      BY <1>2, <1>4, <1>5
    <3>2. PICK j : j = k + i
      OBVIOUS
    <3>3. /\ j \in 1..Len(lwbs) /\ k + 1 \in 1..Len(lwbs) /\ j \in Nat /\ (i = Len(lwbs) - k <=> j = Len(lwbs))
          /\ (i < Len(lwbs) - k <=> j < Len(lwbs)) /\ (i # Len(lwbs) - k => i + 1 \in 1..(Len(lwbs) - k))
          /\ k + (i + 1) = j + 1 /\ 1 \in 1..(Len(lwbs) - k)
      <4>1. k \in Nat /\ Len(lwbs) \in Nat
        BY <1>4, <1>5
      <4> QED
        BY ONLY <3>1, <3>2, <4>1
    <3>4. lwbs'[i] = lwbs[j] /\ (i # Len(lwbs) - k => lwbs'[i + 1] = lwbs[j + 1]) /\ lwbs'[1] = lwbs[k + 1]
      BY <1>5, <3>1, <3>2, <3>3
    <3>5. /\ lwbs[j].next = IF j = Len(lwbs) THEN Hole ELSE lwbs[j + 1].blk
          /\ j < Len(lwbs) => lwbs[j].zio \in InFlight \cup {"done"}
      <4>1. j \in DOMAIN lwbs
        BY <1>4, <3>3
      <4> QED
        BY <4>1 DEF IInv, LinkInv
    <3>6. lwbs[j].blk.guid = lwbs[k + 1].blk.guid /\ lwbs[j].blk.num = lwbs[k + 1].blk.num + i - 1
      <4>1. /\ lwbs[j].blk.guid = lwbs[1].blk.guid /\ lwbs[j].blk.num = lwbs[1].blk.num + j - 1
            /\ lwbs[k + 1].blk.guid = lwbs[1].blk.guid /\ lwbs[k + 1].blk.num = lwbs[1].blk.num + (k + 1) - 1
            /\ lwbs[1].blk.num \in Nat /\ k \in Nat
        BY <1>5, <1>10, <3>3
      <4>2. PICK a : a = lwbs[1].blk.num
        OBVIOUS
      <4>3. a \in Nat /\ a + j - 1 = a + (k + 1) - 1 + i - 1
        <5>1. a \in Nat /\ k \in Nat
          BY <4>1, <4>2
        <5> QED
          BY ONLY <3>1, <3>2, <5>1
      <4> QED
        BY <4>1, <4>2, <4>3
    <3> QED
      BY <1>5, <3>3, <3>4, <3>5, <3>6
  <2>2. \A v \in dead', w \in Alive' : SameChain(v, w) => Before(v, w)
    <3>1. \A v \in dead, w \in Alive' : SameChain(v, w) => Before(v, w)
      BY <1>15 DEF IInv, LinkInv
    <3>2. F # {} => Alive' \subseteq R
      <4>1. F # {} => lwbs # << >>
        BY <1>2, <1>4, <1>6, <1>14
      <4> QED
        BY <1>8, <1>13, <1>15, <4>1 DEF Alive
    <3> QED
      BY <1>8, <1>11, <3>1, <3>2
  <2>3. \A v, w \in dead' : Before(v, w) => FreedIn(v)' <= FreedIn(w)'
    <3>1. CASE F = {}
      <4>1. dead' = dead /\ \A w \in dead : FreedIn(w)' = FreedIn(w)
        BY <1>8, <1>17, <3>1, ChainType DEF IInv
      <4> QED
        BY <4>1 DEF IInv, LinkInv
    <3>2. CASE F # {}
      <4>1. lwbs # << >>
        BY <1>2, <1>4, <1>6, <1>14, <3>2
      <4> QED
        BY <1>4, <1>8, <1>13, <1>17, <4>1
    <3> QED
      BY <3>1, <3>2
  <2> QED
    BY <1>3, <1>16, <2>1, <2>2, <2>3 DEF IInv, LinkInv, Before, SameChain
<1>32. HeadInv'
  <2>1. lwbs' # << >> => zh' = lwbs'[1].blk
    BY <1>5, <1>23, <1>25
  <2>2. At({"createwait"}) /\ wlwb => zh' # Hole /\ lwbs' = lwbs
    BY <1>19, <1>23, LwbFields
  <2>3. zh' # Hole => \E w \in Chain : w.blk = zh' /\ FreedIn(w)' \notin 1..(floor + 1)
    <3>1. CASE k < Len(lwbs)
      <4>1. lwbs[k + 1] \in Alive /\ lwbs[k + 1] \notin F /\ lwbs[k + 1] \in Chain
        BY <1>8, <1>12, <1>23, <3>1, ChainType DEF IInv
      <4>2. PICK x : x = lwbs[k + 1]
        OBVIOUS
      <4>3. FreedIn(x)' = 0 /\ x \in Chain /\ x.blk = zh'
        BY <1>17, <1>23, <3>1, <4>1, <4>2 DEF IInv, SpaceInv
      <4>4. 0 \notin 1..(floor + 1)
        BY <1>4
      <4> QED
        BY <4>3, <4>4
    <3>2. CASE k = Len(lwbs) /\ zh' # Hole
      <4>1. lwbs = << >> /\ destroyTxg # floor + 1 /\ zh' = zh
        BY <1>24, <3>2
      <4>2. F = {}
        BY <1>4, <1>6, <1>14, <3>2, <4>1
      <4>3. PICK w \in Chain : w.blk = zh /\ FreedIn(w) \notin 1..floor
        BY <1>18, <3>2, <4>1 DEF IInv, HeadInv
      <4>4. FreedIn(w)' = FreedIn(w) /\ (w \in Alive \/ w \in dead)
        BY <1>17, <4>2, <4>3 DEF Chain
      <4>5. FreedIn(w) = 0 \/ FreedIn(w) = destroyTxg
        BY <1>3, <4>4 DEF IInv, SpaceInv
      <4>6. FreedIn(w) \notin 1..(floor + 1)
        BY <1>4, <4>1, <4>3, <4>5
      <4> QED
        BY <4>1, <4>3, <4>4, <4>6
    <3> QED
      BY <1>25, <3>1, <3>2
  <2>4. ASSUME NEW w \in Chain, FreedIn(w)' \notin 1..(floor + 1)
        PROVE  /\ zh' # Hole /\ w.blk.guid = zh'.guid => w.blk.num >= zh'.num
               /\ w.blk.guid = zh'.guid
    <3>1. w \notin F
      <4>1. floor + 1 \in 1..(floor + 1)
        BY <1>4
      <4> QED
        BY <1>17, <2>4, <4>1
    <3>2. FreedIn(w)' = FreedIn(w) /\ FreedIn(w) \notin 1..floor
      <4>1. FreedIn(w)' = FreedIn(w)
        BY <1>17, <3>1
      <4> QED
        BY <1>4, <2>4, <4>1
    <3>3. CASE lwbs # << >>
      <4>1. w \in R
        BY <1>8, <1>13, <3>1, <3>3 DEF Chain, Alive
      <4>2. PICK j \in (k + 1)..Len(lwbs) : w = lwbs[j]
        BY <1>7, <4>1
      <4>3. k < Len(lwbs) /\ j \in 1..Len(lwbs) /\ k + 1 \in 1..Len(lwbs) /\ j >= k + 1
        BY <1>4, <1>5, <4>2
      <4>4. w.blk.guid = lwbs[k + 1].blk.guid /\ w.blk.num >= lwbs[k + 1].blk.num
        <5>1. /\ w.blk.guid = lwbs[1].blk.guid /\ w.blk.num = lwbs[1].blk.num + j - 1
              /\ lwbs[k + 1].blk.guid = lwbs[1].blk.guid /\ lwbs[k + 1].blk.num = lwbs[1].blk.num + (k + 1) - 1
              /\ lwbs[1].blk.num \in Nat /\ k \in Nat /\ j \in Nat
          <6>1. 1 \in 1..Len(lwbs) /\ k \in Nat /\ j \in Nat
            BY <1>4, <1>5, <4>2, <4>3
          <6>2. /\ lwbs[j].blk.guid = lwbs[1].blk.guid /\ lwbs[j].blk.num = lwbs[1].blk.num + j - 1
                /\ lwbs[1].blk.num \in Nat
            BY <1>10, <4>3
          <6>3. lwbs[k + 1].blk.guid = lwbs[1].blk.guid /\ lwbs[k + 1].blk.num = lwbs[1].blk.num + (k + 1) - 1
            BY <1>10, <4>3
          <6> QED
            BY <4>2, <6>1, <6>2, <6>3
        <5> QED
          BY ONLY <4>3, <5>1
      <4> QED
        BY <1>23, <4>3, <4>4
    <3>4. CASE lwbs = << >>
      <4>1. k = Len(lwbs) /\ ~wlwb
        BY <1>2, <1>4, <1>14, <3>4 DEF IInv, WriterInv
      <4>2. CASE destroyTxg = floor + 1
        <5>1. w \in dead
          <6>1. Alive = {}
            <7>1. Members(lwbs) = {}
              BY <1>4, <3>4, MembersIs
            <7>2. ~(destroyTxg <= floor)
              BY <1>4, <4>2
            <7> QED
              BY <7>1, <7>2 DEF Alive, Kept
          <6> QED
            BY <6>1 DEF Chain
        <5>2. FreedIn(w) = floor + 1
          BY <1>3, <4>2, <5>1 DEF IInv, SpaceInv
        <5>3. floor + 1 \in 1..(floor + 1)
          BY <1>4
        <5> QED
          BY <2>4, <3>2, <5>2, <5>3
      <4>3. CASE destroyTxg # floor + 1
        <5>1. zh' = zh
          BY <1>24, <3>4, <4>1, <4>3
        <5> QED
          BY <1>18, <3>2, <4>1, <5>1 DEF IInv, HeadInv
      <4> QED
        BY <4>2, <4>3
    <3> QED
      BY <3>3, <3>4
  <2>5. At({"createwait"}) /\ wlwb => zhDisk = lwbs'[1].blk \/ until[writer] > floor
    BY <2>2 DEF IInv, HeadInv
  <2>6. zhDisk # Hole => /\ \E w \in Chain : w.blk = zhDisk
                         /\ \A w \in Chain : w.blk.guid = zhDisk.guid => w.blk.num >= zhDisk.num
    BY DEF IInv, HeadInv
  <2>7. \A w \in Chain : w.blk.guid = zhDisk.guid \/ (At({"createwait"}) /\ wlwb /\ w = lwbs'[1])
    BY <2>2 DEF IInv, HeadInv
  <2> QED
    BY <1>3, <1>16, <1>18, <1>20, <2>1, <2>2, <2>3, <2>4, <2>5, <2>6, <2>7 DEF HeadInv
<1> QED
  BY <1>22, <1>26, <1>27, <1>28, <1>29, <1>30, <1>31, <1>32 DEF IInv

\* A txg is on disk: the lwbs that it freed are forgotten, and their records are durable.
LEMMA CommitTxgStep ==
  ASSUME IInv, CommitTxg
  PROVE  IInv'
<1>1. /\ floor + 1 < open /\ (\A h \in holders : h[2] > floor + 1) /\ floor' = floor + 1
      /\ (Dirty(floor + 1) => synced) /\ zhDisk' = zh /\ synced' = FALSE
      /\ dead' = {w \in dead : FreedIn(w) > floor + 1}
      /\ UNCHANGED <<open, holders, dirtied, pc, seq, foid, until, itxs, itxList, lwbs, writer, commitSeq,
                     wlwb, wnext, wcommit, root, logError, destroyTxg, suspend, suspending, zh, space, chain,
                     promised>>
  BY DEF CommitTxg, Engine!Commit, Syncing, FreedIn, call, wvars, susp
<1>f. PICK F : disk' = [d \in DVAs |-> [disk[d] EXCEPT !.stable = disk[d].stable \/ d \in F]]
  BY DEF CommitTxg, TxgFlushed
<1>2. /\ open \in Nat /\ floor \in Nat /\ destroyTxg \in Nat /\ floor + 1 \in Nat /\ Upto' = floor + 1
      /\ Upto = IF synced THEN floor + 1 ELSE floor
  BY <1>1 DEF IInv, TypeInv, Upto
<1>3. destroyTxg = floor + 1 => synced /\ zh = Hole
  <2>1. destroyTxg = floor + 1 => destroyTxg > floor
    BY <1>2
  <2>2. destroyTxg = floor + 1 => <<0, floor + 1>> \in dirtied
    BY <2>1 DEF IInv, QuietInv
  <2>3. destroyTxg = floor + 1 => Dirty(floor + 1)
    BY <2>2 DEF Dirty
  <2> QED
    BY <1>1, <2>1, <2>3 DEF IInv, QuietInv
<1>4. Alive' = Alive
  <2>1. destroyTxg <= floor + 1 <=> (destroyTxg <= floor \/ destroyTxg = floor + 1)
    BY <1>2
  <2>2. Kept' = IF lwbs = << >> /\ zh # Hole /\ destroyTxg <= floor + 1 THEN {Lwb(zh, 0)} ELSE {}
    BY <1>1 DEF Kept
  <2>3. Kept' = Kept
    BY <1>3, <2>1, <2>2 DEF Kept
  <2>4. Members(lwbs)' = Members(lwbs)
    BY <1>1
  <2> QED
    BY <2>3, <2>4 DEF Alive
<1>5. /\ Alive \subseteq Chain /\ dead \subseteq Chain /\ Chain \subseteq Lwbs
      /\ \A w \in Chain : w.blk.dva \in DVAs /\ w.blk.num \in Nat /\ w.maxTxg \in Nat /\ FreedIn(w) \in Nat
                          /\ Birth(w) \in Nat
  <2>1. Alive \subseteq Chain /\ dead \subseteq Chain /\ Chain \subseteq Lwbs
    BY ChainType DEF IInv
  <2>2. \A w \in Chain : w.blk.dva \in DVAs /\ w.blk.num \in Nat /\ w.maxTxg \in Nat
    BY <2>1, LwbFields
  <2> QED
    BY <2>1, <2>2 DEF IInv, TypeInv, FreedIn, Birth
<1>6. (\A w \in Alive : FreedIn(w) = 0) /\ \A w \in dead : FreedIn(w) > floor
  BY DEF IInv, SpaceInv
<1>7. \A w : FreedIn(w)' = FreedIn(w) /\ Birth(w)' = Birth(w)
  BY <1>1 DEF FreedIn, Birth
<1>8. Chain' = dead' \cup Alive /\ Chain' \subseteq Chain /\ dead' \subseteq dead
  BY <1>1, <1>4 DEF Chain
<1>9. \A w \in Chain : (w \in Chain' <=> FreedIn(w) \notin 1..(floor + 1)) /\ (w \notin Chain' => w \in dead)
  <2> SUFFICES ASSUME NEW w \in Chain
               PROVE  (w \in Chain' <=> FreedIn(w) \notin 1..(floor + 1)) /\ (w \notin Chain' => w \in dead)
    OBVIOUS
  <2>1. CASE w \in Alive
    BY <1>2, <1>6, <1>8, <2>1
  <2>2. CASE w \in dead /\ w \notin Alive
    <3>1. FreedIn(w) \in Nat /\ FreedIn(w) > floor
      BY <1>5, <1>6, <2>2
    <3>2. FreedIn(w) > floor + 1 <=> FreedIn(w) \notin 1..(floor + 1)
      BY <1>2, <3>1
    <3> QED
      BY <1>1, <1>8, <2>2, <3>2
  <2> QED
    BY <2>1, <2>2 DEF Chain
<1>10. ~synced => Chain' = Chain /\ ~Dirty(floor + 1)
  <2>1. ~synced => \A w \in dead : FreedIn(w) = destroyTxg
    BY DEF IInv, SpaceInv
  <2>2. ~synced => \A w \in dead : FreedIn(w) > floor + 1
    BY <1>2, <1>3, <1>6, <2>1
  <2> QED
    BY <1>1, <1>8, <2>2 DEF Chain
<1>11. \A w \in Chain' : FreedIn(w) \notin 1..Upto
  <2>1. 1..Upto \subseteq 1..(floor + 1)
    BY <1>2
  <2> QED
    BY <1>8, <1>9, <2>1
<1>12. \A w \in Chain : FreedIn(w) \notin 1..Upto => w \in Chain'
  BY <1>2, <1>9, <1>10
<1>13. \A d \in DVAs : /\ disk'[d].blk = disk[d].blk /\ disk'[d].recs = disk[d].recs /\ disk'[d].next = disk[d].next
                       /\ disk'[d].bad = disk[d].bad /\ (disk[d].stable => disk'[d].stable)
  <2>1. \A d \in DVAs : disk[d] \in [blk : Ptrs, recs : SUBSET Nat, next : Ptrs, stable : BOOLEAN, bad : BOOLEAN]
    BY DEF IInv, TypeInv
  <2>2. \A d \in DVAs : disk'[d] = [disk[d] EXCEPT !.stable = disk[d].stable \/ d \in F]
    BY <1>f
  <2> QED
    BY <2>1, <2>2
<1>14. disk' \in [DVAs -> [blk : Ptrs, recs : SUBSET Nat, next : Ptrs, stable : BOOLEAN, bad : BOOLEAN]]
  <2>1. \A d \in DVAs : disk[d] \in [blk : Ptrs, recs : SUBSET Nat, next : Ptrs, stable : BOOLEAN, bad : BOOLEAN]
    BY DEF IInv, TypeInv
  <2>2. \A d \in DVAs : [disk[d] EXCEPT !.stable = disk[d].stable \/ d \in F] \in
          [blk : Ptrs, recs : SUBSET Nat, next : Ptrs, stable : BOOLEAN, bad : BOOLEAN]
    BY <2>1
  <2> QED
    BY ONLY <1>f, <2>2
<1>15. DiskKept
  BY <1>13 DEF DiskKept
<1>16. \A w \in Chain : On(w)'.blk = On(w).blk /\ On(w)'.bad = On(w).bad /\ (Match(w)' <=> Match(w)) /\ (On(w).stable => On(w)'.stable)
  BY <1>5, <1>13, <1>15, OnKept DEF IInv, On
<1>17. (\A L : At(L)' <=> At(L)) /\ (Working' <=> Working) /\ Seqs' = Seqs /\ (Quiet' <=> Quiet)
  BY <1>1 DEF At, Working, Seqs, Quiet
<1>18. TypeInv'
  <2>1. dead' \subseteq Lwbs /\ 3 <= floor + 1 /\ synced' \in BOOLEAN
    <3>1. 3 <= floor
      BY DEF IInv, TypeInv
    <3>2. dead' \subseteq Lwbs
      BY <1>5, <1>8
    <3>3. 3 <= floor + 1
      BY <1>2, <3>1
    <3>4. synced' \in BOOLEAN
      BY <1>1
    <3> QED
      BY <3>2, <3>3, <3>4
  <2> QED
    BY <1>1, <1>2, <1>14, <1>17, <2>1 DEF IInv, TypeInv
<1>19. CallerInv'
  BY <1>1 DEF IInv, CallerInv
<1>20. WriterInv'
  BY <1>1, <1>7, <1>17 DEF IInv, WriterInv
<1>21. QuietInv'
  <2>1. destroyTxg > floor + 1 => destroyTxg > floor
    BY <1>2
  <2>2. destroyTxg > floor => destroyTxg > floor + 1 \/ destroyTxg = floor + 1
    BY <1>2
  <2>3. zh = Hole \/ destroyTxg > floor => zh = Hole \/ destroyTxg > floor + 1
    BY <1>3, <2>2
  <2> QED
    BY <1>1, <1>4, <1>17, <2>1, <2>3 DEF IInv, QuietInv
<1>22. SpaceInv'
  <2>1. \A w \in dead' : /\ Birth(w) > 0 /\ FreedIn(w) > floor + 1 /\ FreedIn(w) = destroyTxg /\ w.zio \in Idle
    <3>1. \A w \in dead' : w \in dead /\ FreedIn(w) > floor + 1 /\ FreedIn(w) # floor + 1
      BY <1>1, <1>2
    <3> QED
      BY <3>1 DEF IInv, SpaceInv
  <2>2. ASSUME NEW d \in DVAs, space[d].birth # 0, space[d].freed \notin 1..(floor + 1)
        PROVE  \E w \in Chain' : w.blk.dva = d
    <3>1. space[d].freed \notin 1..floor
      BY <1>2, <2>2
    <3>2. PICK w \in Chain : w.blk.dva = d
      BY <2>2, <3>1 DEF IInv, SpaceInv
    <3>3. FreedIn(w) \notin 1..(floor + 1)
      BY <2>2, <3>2 DEF FreedIn
    <3> QED
      BY <1>9, <3>2, <3>3
  <2>3. \A w \in Alive : Birth(w) > 0 /\ FreedIn(w) = 0
    BY DEF IInv, SpaceInv
  <2>4. \A v, w \in Chain' : v.blk.dva = w.blk.dva => v = w
    BY <1>8 DEF IInv, SpaceInv
  <2>5. \A d \in DVAs : space[d].birth <= open
    BY DEF IInv, SpaceInv
  <2> QED
    BY <1>1, <1>4, <1>7, <2>1, <2>2, <2>3, <2>4, <2>5 DEF SpaceInv
<1>23. LinkInv'
  <2>1. ASSUME NEW w \in Chain', w.next # Hole
        PROVE  \E v \in Chain' : v.blk = w.next
    <3>1. PICK v \in Chain : v.blk = w.next
      BY <1>8, <2>1 DEF IInv, LinkInv
    <3>2. SameChain(w, v) /\ v.blk.num = w.blk.num + 1 /\ w \in Chain
      BY <1>8, <2>1, <3>1 DEF IInv, LinkInv, SameChain
    <3>3. Before(w, v) /\ ~Before(v, w) /\ SameChain(v, w)
      BY <1>5, <3>2 DEF Before, SameChain
    <3>4. v \in Chain'
      <4> SUFFICES ASSUME v \notin Chain' PROVE FALSE
        OBVIOUS
      <4>1. v \in dead /\ FreedIn(v) \in 1..(floor + 1)
        BY <1>9
      <4>2. w \notin Alive
        BY <3>3, <4>1 DEF IInv, LinkInv
      <4>3. w \in dead /\ FreedIn(w) > floor + 1
        BY <1>1, <1>8, <4>2
      <4>4. FreedIn(w) <= FreedIn(v)
        BY <3>3, <4>1, <4>3 DEF IInv, LinkInv
      <4>5. FreedIn(w) \in Nat /\ FreedIn(v) \in Nat
        BY <1>5, <3>2
      <4> QED
        BY <1>2, <4>1, <4>3, <4>4, <4>5
    <3> QED
      BY <3>1, <3>4
  <2>2. /\ \A w \in Chain' : w.blk.guid <= chain
        /\ \A w \in Chain' : w.next # Hole =>
             w.next.guid = w.blk.guid /\ w.next.num = w.blk.num + 1 /\ w.zio \notin {"none", "init"}
        /\ \A v, w \in Chain' : Before(v, w) => v.next # Hole
        /\ \A v, w \in Chain' : SameChain(v, w) /\ v.blk.num = w.blk.num => v = w
        /\ \A v \in dead', w \in Alive : SameChain(v, w) => Before(v, w)
        /\ \A v, w \in dead' : Before(v, w) => FreedIn(v) <= FreedIn(w)
    BY <1>8 DEF IInv, LinkInv
  <2>3. \A i \in DOMAIN lwbs :
          /\ lwbs[i].blk.guid = lwbs[1].blk.guid /\ lwbs[i].blk.num = lwbs[1].blk.num + i - 1
          /\ lwbs[i].next = IF i = Len(lwbs) THEN Hole ELSE lwbs[i + 1].blk
          /\ i < Len(lwbs) => lwbs[i].zio \in InFlight \cup {"done"}
    BY DEF IInv, LinkInv
  <2> QED
    BY <1>1, <1>4, <1>7, <2>1, <2>2, <2>3 DEF LinkInv, Before, SameChain
<1>24. HeadInv'
  <2>1. At({"createwait"}) /\ wlwb => zh # Hole \/ until[writer] > floor + 1
    <3>1. At({"createwait"}) => <<0, until[writer]>> \in dirtied /\ until[writer] \in Nat
      BY DEF IInv, WriterInv, TypeInv, At
    <3>2. At({"createwait"}) /\ until[writer] = floor + 1 => Dirty(floor + 1)
      BY <3>1 DEF Dirty
    <3>3. At({"createwait"}) /\ wlwb => zh # Hole \/ until[writer] > Upto
      BY DEF IInv, HeadInv
    <3> QED
      BY <1>2, <1>10, <3>1, <3>2, <3>3
  <2>2. lwbs # << >> => zh = lwbs[1].blk \/ (zh = Hole /\ At({"createwait"}))
    BY DEF IInv, HeadInv
  <2>3. At({"createwait"}) /\ wlwb => zh = lwbs[1].blk \/ until[writer] > floor + 1
    BY <2>1, <2>2 DEF IInv, WriterInv
  <2>4. zh # Hole => \E w \in Chain' : w.blk = zh /\ FreedIn(w) \notin 1..(floor + 1)
    <3>1. zh # Hole => \E w \in Chain : w.blk = zh /\ FreedIn(w) \notin 1..Upto
      BY DEF IInv, HeadInv
    <3> QED
      BY <1>8, <1>9, <1>12, <3>1
  <2>5. zh # Hole => \A w \in Chain' : w.blk.guid = zh.guid => w.blk.num >= zh.num
    BY <1>8, <1>11 DEF IInv, HeadInv
  <2>6. \A w \in Chain' : w.blk.guid = zh.guid \/ (At({"createwait"}) /\ wlwb /\ w = lwbs[1])
    BY <1>8, <1>11 DEF IInv, HeadInv
  <2> QED
    BY <1>1, <1>2, <1>7, <1>17, <2>1, <2>2, <2>3, <2>4, <2>5, <2>6 DEF HeadInv
<1>25. WriteInv'
  BY <1>1, <1>8, <1>17 DEF IInv, WriteInv
<1>26. DiskInv'
  BY <1>1, <1>8, <1>13, <1>16, <1>17 DEF IInv, DiskInv
<1>27. BirthInv'
  <2> SUFFICES ASSUME NEW v \in Chain, NEW w \in Chain, Before(v, w)
               PROVE  /\ Birth(v) <= Birth(w)
                      /\ Birth(w) <= floor + 1 => v.zio \in {"released", "failed", "done"}
    BY <1>1, <1>7, <1>8, <1>16 DEF BirthInv, Before, SameChain
  <2>1. Birth(v) <= Birth(w)
    BY DEF IInv, BirthInv
  <2>2. v.next # Hole
    BY DEF IInv, LinkInv
  <2>3. v.zio \in {"io", "released", "failed", "done"}
    BY <1>5, <2>2, LwbFields DEF IInv, LinkInv
  <2>4. ASSUME v.zio = "io", Birth(w) <= floor + 1 PROVE FALSE
    <3>1. PICK h \in holders : h[2] <= space[v.next.dva].birth
      BY <2>2, <2>4 DEF IInv, WriteInv
    <3>2. PICK x \in Chain : x.blk = v.next /\ SameChain(v, x) /\ x.blk.num = v.blk.num + 1
      BY <2>2 DEF IInv, LinkInv, SameChain
    <3>3. x.blk.num = w.blk.num \/ x.blk.num < w.blk.num
      BY <1>5, <3>2 DEF Before
    <3>4. SameChain(x, w)
      BY <3>2 DEF Before, SameChain
    <3>5. x = w \/ Before(x, w)
      BY <3>3, <3>4 DEF IInv, LinkInv, Before
    <3>6. Birth(x) <= Birth(w)
      BY <1>5, <3>5 DEF IInv, BirthInv
    <3>7. h[2] <= Birth(x) /\ h[2] > floor + 1
      BY <1>1, <3>1, <3>2 DEF Birth
    <3>8. h[2] \in Nat
      BY DEF IInv, TypeInv
    <3> QED
      BY <1>2, <1>5, <2>4, <3>6, <3>7, <3>8
  <2> QED
    BY <2>1, <2>3, <2>4
<1>28. Durable \subseteq Durable'
  <2>1. \A n \in Seqs : itxs[n].txg \in Nat
    BY ItxIs DEF IInv
  <2> QED
    BY <1>1, <1>2, <1>17, <2>1 DEF Durable
<1>29. \A w \in Chain : \A n \in w.recs : w \notin Chain' => n \in Durable'
  <2> SUFFICES ASSUME NEW w \in Chain, NEW n \in w.recs, w \notin Chain' PROVE n \in Durable'
    OBVIOUS
  <2>1. n \in Seqs /\ itxs[n].txg <= w.maxTxg /\ itxs[n].txg \in Nat
    BY ItxIs DEF IInv, RecInv
  <2>2. w \in dead /\ FreedIn(w) \in 1..(floor + 1) /\ w.maxTxg <= FreedIn(w)
    BY <1>9 DEF IInv, RecInv
  <2>3. itxs[n].txg <= floor + 1
    BY <1>2, <1>5, <2>1, <2>2
  <2> QED
    BY <1>1, <1>17, <2>1, <2>3 DEF Durable
<1>30. \A n : (Settled(n) => Settled(n)') /\ (Logged(n) => Logged(n)' \/ Settled(n)')
  <2>1. \A w \in Chain' : Sealed(w) => Sealed(w)'
    BY <1>8, <1>16 DEF Sealed, Before, SameChain
  <2> QED
    BY <1>8, <1>28, <1>29, <2>1 DEF Settled, Logged
<1>31. RecInv'
  <2>1. \A w \in dead' : w.maxTxg <= FreedIn(w)
    BY <1>8 DEF IInv, RecInv
  <2>2. \A w \in Chain' : w.maxTxg <= open /\ \A n \in w.recs :
          n \in Seqs /\ n \notin itxList /\ itxs[n].txg <= w.maxTxg
    BY <1>8 DEF IInv, RecInv
  <2>3. \A n \in Seqs : n \notin itxList =>
       \/ Settled(n)'
       \/ At({"bigwait", "finish"}) /\ itxs[n].txg <= until[writer]
       \/ Working /\ (Logged(n)' \/ ~wlwb)
    BY <1>30 DEF IInv, RecInv
  <2> QED
    BY <1>1, <1>7, <1>17, <2>1, <2>2, <2>3 DEF IInv, RecInv
<1>32. LoopInv'
  <2>1. (\A n \in Seqs : n < commitSeq => Settled(n)') /\ \A n \in promised : Settled(n)'
    BY <1>30 DEF IInv, LoopInv
  <2>2. \A m, f : Matches(m, f)' <=> Matches(m, f)
    BY <1>1 DEF Matches
  <2> QED
    BY <1>1, <1>17, <2>1, <2>2 DEF IInv, LoopInv, Matches
<1>33. OrderInv'
  <2> SUFFICES ASSUME NEW w \in Chain', NEW n \in w.recs, NEW m \in 1..(n - 1),
                      itxs[m].file \in {itxs[n].file, AnyFile}
               PROVE  m \in Durable' \/ \E v \in Chain' : m \in v.recs /\ (v = w \/ Before(v, w))
    BY <1>1 DEF OrderInv, Before, SameChain
  <2>1. m \in Durable \/ \E v \in Chain : m \in v.recs /\ (v = w \/ Before(v, w))
    BY <1>8 DEF IInv, OrderInv
  <2> QED
    BY <1>28, <1>29, <2>1
<1> QED
  BY <1>18, <1>19, <1>20, <1>21, <1>22, <1>23, <1>24, <1>25, <1>26, <1>27, <1>31, <1>32, <1>33 DEF IInv

-----------------------------------------------------------------------------
(* The invariant *)

LEMMA InitInv ==
  ASSUME Init
  PROVE  IInv
<1>1. /\ open = TxgInit /\ floor = TxgInit - 1 /\ holders = {} /\ dirtied = {}
      /\ pc = [c \in Callers |-> "idle"] /\ seq = [c \in Callers |-> 0]
      /\ foid = [c \in Callers |-> AnyFile] /\ until = [c \in Callers |-> 0]
      /\ itxs = << >> /\ itxList = {} /\ lwbs = << >> /\ writer = Nobody /\ commitSeq = 0
      /\ wlwb = FALSE /\ wnext = 0 /\ wcommit = 0 /\ root = FALSE /\ logError = FALSE
      /\ destroyTxg = 3 /\ suspend = 0 /\ suspending = FALSE
      /\ zhDisk = zh /\ synced = FALSE /\ chain = 1
      /\ disk = [d \in DVAs |-> [blk |-> Hole, recs |-> {}, next |-> Hole, stable |-> TRUE, bad |-> FALSE]]
      /\ promised = {} /\ dead = {}
  BY DEF Init, Engine!Init, TXG_INITIAL
<1>2. PICK first \in DVAs \cup {Nobody} :
        /\ zh = IF first = Nobody THEN Hole ELSE Blk(first, 1, 1)
        /\ space = [d \in DVAs |-> [birth |-> IF d = first THEN floor ELSE 0, freed |-> 0]]
  BY DEF Init
<1>3. open \in Nat /\ floor \in Nat /\ 3 <= floor /\ floor < open /\ destroyTxg <= floor /\ destroyTxg <= open
  BY <1>1, TxgInitAssumption
<1>4. Seqs = {} /\ Len(itxs) = 0 /\ Upto = floor /\ Members(lwbs) = {} /\ (\A L : ~At(L))
  BY <1>1 DEF Seqs, Upto, Members, At
<1>5. /\ zh \in Ptrs /\ (first = Nobody <=> zh = Hole)
      /\ zh # Hole => zh.dva = first /\ zh.guid = 1 /\ zh.num = 1 /\ zh \in Blks /\ first \in DVAs
  <2>1. first # Nobody => first \in DVAs
    OBVIOUS
  <2> QED
    BY <1>2, <2>1, BlkIs DEF Ptrs
<1>6. PICK g : g = Lwb(zh, 0)
  OBVIOUS
<1>7. zh # Hole => /\ g \in Lwbs /\ g.blk = zh /\ g.recs = {} /\ g.next = Hole /\ g.buf /\ g.maxTxg = 0 /\ g.zio = "none"
  BY <1>5, <1>6, LwbIs
<1>8. Chain = (IF zh # Hole THEN {g} ELSE {}) /\ Alive = Chain
  BY <1>1, <1>3, <1>4, <1>6 DEF Chain, Alive, Kept
<1>9. \A d \in DVAs : space[d].birth = (IF d = first THEN floor ELSE 0) /\ space[d].freed = 0
  BY <1>2
<1>10. \A w \in Chain : /\ w = g /\ zh # Hole /\ Birth(w) = floor /\ FreedIn(w) = 0 /\ ~Before(w, w)
                        /\ w.blk = zh /\ w.recs = {} /\ w.next = Hole /\ w.buf /\ w.maxTxg = 0 /\ w.zio = "none"
  <2>1. \A w \in Chain : w = g /\ zh # Hole
    BY <1>8
  <2>2. ~(1 < 1)
    OBVIOUS
  <2> QED
    BY <1>5, <1>7, <1>9, <2>1, <2>2 DEF Birth, FreedIn, Before
<1>11. \A d \in DVAs : disk[d].blk = Hole
  BY <1>1
<1>12. TypeInv
  <2>1. space \in [DVAs -> [birth : Nat, freed : Nat]]
    BY <1>2, <1>3
  <2>2. disk \in [DVAs -> [blk : Ptrs, recs : SUBSET Nat, next : Ptrs, stable : BOOLEAN, bad : BOOLEAN]]
    BY <1>1 DEF Ptrs
  <2>3. pc \in [Callers -> Labels] /\ until \in [Callers -> Nat] /\ seq \in [Callers -> 0..Len(itxs)]
        /\ foid \in [Callers -> Files \cup {AnyFile}]
    BY <1>1, <1>4 DEF Labels
  <2>4. itxs \in Seq([file : Files \cup {AnyFile}, txg : Nat]) /\ lwbs \in Seq(Lwbs)
    BY <1>1
  <2>5. commitSeq \in 0..Len(itxs) /\ wnext \in {-1} \cup 0..Len(itxs) /\ wcommit \in 0..Len(itxs)
    BY <1>1, <1>4
  <2>6. /\ open \in Nat /\ floor \in Nat /\ 3 <= floor /\ Upto < open
        /\ destroyTxg \in Nat /\ suspend \in Nat /\ chain \in Nat \ {0}
    BY <1>1, <1>3, <1>4
  <2>7. /\ dirtied \subseteq Nat \X Nat /\ holders \subseteq (Callers \cup DVAs) \X Nat /\ itxList \subseteq Seqs
        /\ dead \subseteq Lwbs /\ writer \in Callers \cup {Nobody} /\ promised \subseteq Seqs
    BY <1>1
  <2>8. /\ wlwb \in BOOLEAN /\ root \in BOOLEAN /\ logError \in BOOLEAN /\ suspending \in BOOLEAN
        /\ synced \in BOOLEAN /\ zh \in Ptrs /\ zhDisk \in Ptrs
    BY <1>1, <1>5
  <2> QED
    BY <2>1, <2>2, <2>3, <2>4, <2>5, <2>6, <2>7, <2>8 DEF TypeInv
<1>13. CallerInv
  <2>1. \A c \in Callers : pc[c] = "idle"
    BY <1>1
  <2>2. {c \in Suspenders : pc[c] # "idle"} = {}
    BY <2>1, Names
  <2>3. suspend = Cardinality({c \in Suspenders : pc[c] # "idle"})
    BY <1>1, <2>2, FS_EmptySet
  <2> QED
    BY <1>1, <2>1, <2>3, Names DEF CallerInv, WriterLabels, FirstLabels, CallLabels
<1>14. WriterInv
  BY <1>1, <1>4 DEF WriterInv
<1>15. QuietInv
  <2>1. \A c \in Suspenders : pc[c] # "destroy"
    BY <1>1, Names
  <2>2. ~Quiet /\ ~(suspend > 0 /\ ~suspending)
    BY <1>1, <2>1 DEF Quiet
  <2>3. ~(destroyTxg > floor)
    BY <1>1, <1>3
  <2> QED
    BY <1>3, <2>2, <2>3 DEF QuietInv
<1>16. SpaceInv
  <2>1. \A w \in Alive : Birth(w) > 0 /\ FreedIn(w) = 0
    BY <1>3, <1>8, <1>10
  <2>2. \A d \in DVAs : space[d].birth # 0 => \E w \in Chain : w.blk.dva = d
    BY <1>5, <1>7, <1>8, <1>9, Names
  <2>3. \A d \in DVAs : space[d].birth <= open
    BY <1>3, <1>9
  <2>4. \A v, w \in Chain : v = w
    BY <1>10
  <2> QED
    BY <1>1, <2>1, <2>2, <2>3, <2>4 DEF SpaceInv
<1>17. LinkInv
  <2>1. DOMAIN lwbs = {}
    BY <1>1
  <2>2. \A w \in Chain : w.blk.guid <= chain
    BY <1>1, <1>5, <1>10
  <2>3. \A v, w \in Chain : v = w /\ ~Before(v, w) /\ v.next = Hole
    BY <1>10
  <2> QED
    BY <1>1, <2>1, <2>2, <2>3 DEF LinkInv
<1>18. HeadInv
  <2>1. zh # Hole => g \in Chain /\ g.blk = zh /\ FreedIn(g) \notin 1..Upto
    <3>1. 0 \notin 1..Upto
      BY <1>3, <1>4
    <3> QED
      BY <1>8, <1>10, <3>1
  <2>2. \A w \in Chain : w.blk = zh /\ (zh # Hole => w.blk.num >= zh.num)
    BY <1>5, <1>10
  <2> QED
    BY <1>1, <1>4, <2>1, <2>2 DEF HeadInv
<1>19. WriteInv /\ BirthInv
  <2>1. BirthInv
    BY <1>10 DEF BirthInv
  <2> QED
    BY <1>1, <1>10, <2>1 DEF WriteInv, InFlight
<1>20. DiskInv
  <2>1. \A w \in Chain : On(w).blk # w.blk
    BY <1>5, <1>10, <1>11 DEF On
  <2> QED
    BY <1>10, <1>11, <2>1 DEF DiskInv
<1>21. RecInv /\ OrderInv
  BY <1>1, <1>3, <1>4, <1>10 DEF RecInv, OrderInv
<1>22. LoopInv
  BY <1>1, <1>4 DEF LoopInv
<1> QED
  BY <1>12, <1>13, <1>14, <1>15, <1>16, <1>17, <1>18, <1>19, <1>20, <1>21, <1>22 DEF IInv

LEMMA NextInv ==
  ASSUME IInv, Next
  PROVE  IInv'
<1>1. ~Panic
  BY DEF Next
<1>2. CASE OpenTxg \/ SyncStep \/ ItxClean
  BY <1>1, <1>2, OpenTxgStep, ZilSyncStep, CommitTxgStep, ItxCleanStep DEF SyncStep
<1>3. CASE DiskStep \/ DiskError
  BY <1>3, WriteDoneStep, BufFreeStep, WriteFailedStep DEF DiskStep, DiskError
<1>4. CASE \E c \in Threads : Begin(c) \/ \E f \in Files \cup {AnyFile} : ItxAssign(c, f) \/ Fsync(c, f)
  BY <1>4, BeginStep, ItxAssignStep, FsyncStep
<1>5. CASE \E c \in Suspenders : Suspend(c) \/ SuspendStep(c) \/ Resume(c)
  BY <1>5, SuspendStepInv, DrainedStep, DestroyStep, SuspendWaitedStep, ResumeStep DEF SuspendStep
<1>6. ASSUME NEW c \in Callers, WriterStep(c) \/ NoSpace(c) PROVE IInv'
  <2>1. CASE Commit(c) \/ CreateDone(c) \/ BigDone(c) \/ ZioWait(c) \/ Finish(c)
    BY <1>1, <2>1, CommitStep, CreateDoneStep, BigDoneStep, ZioWaitStep, FinishStep
  <2>2. CASE \E d \in DVAs \cup {Nobody} : Create(c, d) \/ Push(c, d) \/ LastWrite(c, d)
    BY <1>1, <2>2, CreateStep, PushStep, LastWriteStep
  <2> QED
    BY <1>6, <2>1, <2>2 DEF WriterStep, NoSpace
<1> QED
  BY <1>2, <1>3, <1>4, <1>5, <1>6 DEF Next

LEMMA StutterInv ==
  ASSUME IInv, UNCHANGED vars
  PROVE  IInv'
<1>1. UNCHANGED <<open, floor, holders, dirtied, durable, pc, seq, foid, until, itxs, itxList, lwbs, writer,
                  commitSeq, wlwb, wnext, wcommit, root, logError, destroyTxg, suspend, suspending, zh, zhDisk,
                  synced, space, chain, disk, promised, dead>>
  BY DEF vars, svc, call, wvars, susp, header, pool
<1>2. Frame
  BY <1>1, PlainFrame DEF LogSame, WriterSame, wvars
<1>3. QuietInv'
  BY <1>1, <1>2, FrameQuiet DEF Quiet
<1>4. TypeInv' /\ CallerInv'
  BY <1>1 DEF IInv, TypeInv, CallerInv, Upto, Seqs
<1> QED
  BY <1>2, <1>3, <1>4, FrameStep DEF IInv

\* The invariant of the log: its blocks, what is on disk and what zil_commit() promised,
\* whatever callers, syncs, suspensions, failures of writes and of allocations do.
THEOREM Invariant == Spec => []IInv
<1>1. Init => IInv
  BY InitInv
<1>2. IInv /\ [Next]_vars => IInv'
  BY NextInv, StutterInv
<1> QED
  BY <1>1, <1>2, PTL DEF Spec


-----------------------------------------------------------------------------
(* Log writes that fail *)

\* An lwb whose block is not known to be on disk.
Pending(w) == w.zio # "done" \/ On(w).bad

\* The writer knows that a log write failed, or waits for the txg of the record.
Noticed(n) == (Working /\ logError) \/ (At({"finish"}) /\ itxs[n].txg <= until[writer])

\* A record of such an lwb is durable, or nobody was promised it, and when the
\* write is over the writer has noticed.
Unpromised(n) == n \notin promised /\ n >= commitSeq

ErrorInv ==
  /\ \A w \in Chain : w.zio = "released" => ~On(w).bad
  /\ \A w \in Chain : Pending(w) =>
       \A n \in w.recs : n \in Durable \/ (Unpromised(n) /\ (w.zio = "done" => Noticed(n)))

\* A record on zl_itx_list is durable or not promised.
LEMMA FreshRec ==
  ASSUME IInv, NEW n \in itxList
  PROVE  n \in Durable \/ Unpromised(n)
<1>1. n \in Seqs /\ n \in Nat /\ commitSeq \in Nat
  BY DEF IInv, TypeInv, Seqs
<1>2. Settled(n) => n \in Durable
  BY DEF Settled, IInv, RecInv
<1> QED
  BY <1>1, <1>2 DEF Unpromised, IInv, LoopInv

LEMMA DurableGrows ==
  ASSUME IInv, ItxsKept, floor' \in Nat, floor <= floor'
  PROVE  Durable \subseteq Durable'
<1>1. \A n \in Seqs : itxs[n].txg \in Nat
  BY ItxIs DEF IInv
<1>2. floor \in Nat
  BY DEF IInv, TypeInv
<1> QED
  BY <1>1, <1>2 DEF Durable, ItxsKept

\* The lwbs stay, but for new ones whose write is not over, with records of the list
\* or of such lwbs.
LEMMA ErrorStep ==
  ASSUME IInv, ErrorInv,
         \A w \in Chain' :
           \/ w \in Chain
           \/ /\ w.zio \notin {"released", "done"}
              /\ \A n \in w.recs : n \in itxList \/ \E v \in Chain : n \in v.recs /\ v.zio # "done",
         \A w \in Chain : On(w)'.bad = On(w).bad,
         Durable \subseteq Durable', UNCHANGED <<promised, commitSeq>>,
         \A n \in Seqs : Noticed(n) => Noticed(n)' \/ n \in Durable'
  PROVE  ErrorInv'
<1>1. \A n : Unpromised(n)' <=> Unpromised(n)
  BY DEF Unpromised
<1>2. \A w \in Chain' : w.zio = "released" => ~On(w)'.bad
  BY DEF ErrorInv
<1>3. ASSUME NEW w \in Chain', Pending(w)', NEW n \in w.recs, n \notin Durable'
      PROVE  Unpromised(n) /\ (w.zio = "done" => Noticed(n)')
  <2>1. CASE w \in Chain
    <3>1. Pending(w)
      BY <1>3, <2>1 DEF Pending
    <3>2. n \notin Durable /\ n \in Seqs
      BY <1>3, <2>1 DEF IInv, RecInv
    <3> QED
      BY <1>3, <2>1, <3>1, <3>2 DEF ErrorInv
  <2>2. CASE w \notin Chain
    <3>1. w.zio # "done" /\ (n \in itxList \/ \E v \in Chain : n \in v.recs /\ v.zio # "done")
      BY <1>3, <2>2
    <3>2. \A v \in Chain : n \in v.recs /\ v.zio # "done" => n \in Durable \/ Unpromised(n)
      BY DEF ErrorInv, Pending
    <3> QED
      BY <1>3, <3>1, <3>2, FreshRec
  <2> QED
    BY <2>1, <2>2
<1> QED
  BY <1>1, <1>2, <1>3 DEF ErrorInv

LEMMA NoticedSame ==
  ASSUME IInv, WriterSame, logError => logError', ItxsKept, NEW n \in Seqs, Noticed(n)
  PROVE  Noticed(n)'
<1>1. (\A L : At(L)' <=> At(L)) /\ (Working' <=> Working)
  BY SameAt
<1>2. CASE Working /\ logError
  BY <1>1, <1>2 DEF Noticed
<1>3. CASE At({"finish"}) /\ itxs[n].txg <= until[writer]
  <2>1. until'[writer'] = until[writer] /\ itxs'[n] = itxs[n]
    BY <1>3 DEF At, WriterSame, ItxsKept
  <2> QED
    BY <1>1, <1>3, <2>1 DEF Noticed
<1> QED
  BY <1>2, <1>3 DEF Noticed

\* Steps that leave the log and its writer alone.
LEMMA ErrorIdle ==
  ASSUME IInv, ErrorInv, LogSame, WriterSame, ItxsKept, UNCHANGED <<disk, promised, commitSeq, logError>>
  PROVE  ErrorInv'
<1>1. Chain' = Chain
  BY SameLog
<1>2. \A w : On(w)' = On(w)
  BY DEF On
<1>3. Durable \subseteq Durable'
  BY DurableGrows DEF LogSame, IInv, TypeInv
<1>4. \A n \in Seqs : Noticed(n) => Noticed(n)'
  BY NoticedSame
<1> QED
  BY <1>1, <1>2, <1>3, <1>4, ErrorStep

LEMMA ErrorCaller ==
  ASSUME IInv, ErrorInv, NEW c \in Callers,
         \/ c \in Threads /\ (Begin(c) \/ \E f \in Files \cup {AnyFile} : ItxAssign(c, f) \/ Fsync(c, f))
         \/ c \in Suspenders /\ (Suspend(c) \/ Drained(c) \/ SuspendWaited(c) \/ Resume(c))
  PROVE  ErrorInv'
<1>t. TypeInv /\ CallerInv
  BY DEF IInv
<1>1. CASE Begin(c)
  <2>1. WriterSame
    BY <1>1, <1>t, OtherCaller DEF Begin, Goto, SetUntil, call, WriterLabels, TypeInv
  <2> QED
    BY <1>1, <2>1, ErrorIdle DEF Begin, Engine!Enter, LogSame, ItxsKept, Seqs, header, pool, susp
<1>2. ASSUME NEW f \in Files \cup {AnyFile}, ItxAssign(c, f) PROVE ErrorInv'
  <2>1. WriterSame
    BY <1>2, <1>t, OtherCaller DEF ItxAssign, Goto, SetUntil, call, WriterLabels, TypeInv
  <2>2. ItxsKept
    <3>1. PICK r : r \in [file : Files \cup {AnyFile}, txg : Nat] /\ itxs' = Append(itxs, r)
      BY <1>2, <1>t DEF ItxAssign, TypeInv
    <3> QED
      BY <1>t, <3>1 DEF ItxsKept, Seqs, TypeInv
  <2> QED
    BY <1>2, <2>1, <2>2, ErrorIdle DEF ItxAssign, LogSame, header, pool, susp
<1>3. ASSUME NEW f \in Files \cup {AnyFile}, Fsync(c, f) PROVE ErrorInv'
  <2>1. WriterSame
    BY <1>3, <1>t, OtherCaller DEF Fsync, Goto, WriterLabels, TypeInv
  <2> QED
    BY <1>3, <2>1, ErrorIdle DEF Fsync, svc, LogSame, ItxsKept, Seqs, header, pool, susp
<1>4. CASE Suspend(c)
  <2>1. WriterSame
    BY <1>4, <1>t, OtherCaller DEF Suspend, Goto, WriterLabels, TypeInv
  <2> QED
    BY <1>4, <2>1, ErrorIdle DEF Suspend, svc, LogSame, ItxsKept, Seqs, header, pool
<1>5. CASE Drained(c) \/ SuspendWaited(c) \/ Resume(c)
  <2>1. WriterSame
    BY <1>5, <1>t, OtherCaller DEF Drained, SuspendWaited, Resume, Goto, SetUntil, call, WriterLabels, TypeInv
  <2> QED
    BY <1>5, <2>1, ErrorIdle DEF Drained, SuspendWaited, Resume, svc, LogSame, ItxsKept, Seqs, header, pool, susp
<1> QED
  BY <1>1, <1>2, <1>3, <1>4, <1>5

\* The lwb that an empty log keeps, and one that is freed with it, have no records.
LEMMA KeptIs ==
  ASSUME NEW w \in Kept
  PROVE  w.zio = "none" /\ w.recs = {}
  BY DEF Kept, Lwb

\* Steps that move lwbs to the dead, or forget dead ones.
LEMMA ErrorFree ==
  ASSUME IInv, ErrorInv, WriterSame, ItxsKept, floor' \in Nat, floor <= floor',
         \A w \in dead' \cup Members(lwbs') :
            w \in dead \cup Members(lwbs) \/ (w.zio = "none" /\ w.recs = {}),
         \A d \in DVAs : disk'[d].bad = disk[d].bad,
         UNCHANGED <<promised, commitSeq, logError>>
  PROVE  ErrorInv'
<1>1. \A w \in Chain' : w \in Chain \/ (w.zio = "none" /\ w.recs = {})
  <2>1. \A w \in Kept' : w.zio = "none" /\ w.recs = {}
    BY DEF Kept, Lwb
  <2> QED
    BY <2>1 DEF Chain, Alive
<1>2. \A w \in Chain : On(w)'.bad = On(w).bad
  BY ChainType, LwbFields DEF IInv, On
<1>3. Durable \subseteq Durable'
  BY DurableGrows
<1>4. \A n \in Seqs : Noticed(n) => Noticed(n)'
  BY NoticedSame
<1> QED
  BY <1>1, <1>2, <1>3, <1>4, ErrorStep

LEMMA ErrorSync ==
  ASSUME IInv, IInv', ErrorInv, OpenTxg \/ ItxClean \/ ZilSync \/ CommitTxg
  PROVE  ErrorInv'
<1>t. floor \in Nat /\ floor' \in Nat /\ lwbs \in Seq(Lwbs)
  BY DEF IInv, TypeInv
<1>1. CASE OpenTxg
  <2>1. WriterSame
    BY <1>1 DEF OpenTxg, WriterSame, call
  <2> QED
    BY <1>1, <2>1, ErrorIdle DEF OpenTxg, Engine!OpenNext, LogSame, ItxsKept, Seqs, header, pool, susp
<1>2. CASE ItxClean
  <2>1. WriterSame
    BY <1>2 DEF ItxClean, WriterSame
  <2> QED
    BY <1>2, <2>1, ErrorIdle DEF ItxClean, svc, LogSame, ItxsKept, Seqs, header, pool, susp
<1>3. CASE ZilSync
  <2>1. WriterSame /\ UNCHANGED <<floor, itxs, disk, promised, commitSeq, logError>>
    BY <1>3 DEF ZilSync, WriterSame, call, svc
  <2>2. ItxsKept
    BY <2>1 DEF ItxsKept, Seqs
  <2>3. PICK k : k = CHOOSE i \in 0..Len(lwbs) : Cut(i)
    OBVIOUS
  <2>4. lwbs' = SubSeq(lwbs, k + 1, Len(lwbs)) /\ dead' = dead \cup {lwbs[i] : i \in 1..k}
    BY <1>3, <2>3, Zenon DEF ZilSync, Cut
  <2>5. k \in 0..Len(lwbs)
    <3>1. \E i \in 0..Len(lwbs) : Cut(i)
      BY PrefixIs DEF IInv
    <3> QED
      BY ONLY <2>3, <3>1, Zenon
  <2>6. Members(lwbs') \subseteq Members(lwbs) /\ {lwbs[i] : i \in 1..k} \subseteq Members(lwbs)
    BY <1>t, <2>4, <2>5 DEF Members
  <2> QED
    BY <1>t, <2>1, <2>2, <2>4, <2>6, ErrorFree
<1>4. CASE CommitTxg
  <2>1. /\ WriterSame /\ UNCHANGED <<itxs, promised, commitSeq, logError, lwbs>> /\ floor' = floor + 1
        /\ dead' \subseteq dead
    BY <1>4 DEF CommitTxg, Engine!Commit, WriterSame, call
  <2>2. ItxsKept
    BY <2>1 DEF ItxsKept, Seqs
  <2>3. PICK F : disk' = [d \in DVAs |-> [disk[d] EXCEPT !.stable = disk[d].stable \/ d \in F]]
    BY <1>4 DEF CommitTxg, TxgFlushed
  <2>4. \A d \in DVAs : disk[d] \in [blk : Ptrs, recs : SUBSET Nat, next : Ptrs, stable : BOOLEAN, bad : BOOLEAN]
    BY DEF IInv, TypeInv
  <2>5. \A d \in DVAs : disk'[d].bad = disk[d].bad
    BY <2>3, <2>4
  <2> QED
    BY <1>t, <2>1, <2>2, <2>5, ErrorFree
<1> QED
  BY <1>1, <1>2, <1>3, <1>4

LEMMA ErrorDestroy ==
  ASSUME IInv, ErrorInv, NEW c \in Suspenders, Destroy(c)
  PROVE  ErrorInv'
<1>c. c \in Callers
  BY Names
<1>1. /\ pc[c] = "destroy" /\ pc' = [pc EXCEPT ![c] = "suspended"] /\ until' = [until EXCEPT ![c] = 0]
      /\ UNCHANGED <<floor, seq, foid, itxs, writer, commitSeq, wvars, logError, disk, promised>>
  BY DEF Destroy, Goto, SetUntil, call
<1>2. WriterSame
  BY <1>1, <1>c, OtherCaller DEF IInv, TypeInv, WriterLabels
<1>3. ItxsKept
  BY <1>1 DEF ItxsKept, Seqs
<1>4. \A w \in dead' \cup Members(lwbs') :
            w \in dead \cup Members(lwbs) \/ (w.zio = "none" /\ w.recs = {})
  <2>1. Lwb(zh, 0).zio = "none" /\ Lwb(zh, 0).recs = {} /\ Members(<< >>) = {}
    BY DEF Lwb, Members
  <2>2. CASE zh = Hole
    BY <2>2 DEF Destroy
  <2>3. CASE zh # Hole
    BY <2>1, <2>3 DEF Destroy
  <2> QED
    BY <2>2, <2>3
<1> QED
  BY <1>1, <1>2, <1>3, <1>4, ErrorFree DEF IInv, TypeInv

\* zil_lwb_write_done()
LEMMA ErrorIo ==
  ASSUME IInv, ErrorInv, NEW i \in DOMAIN lwbs, NEW u \in Lwbs, Replaced(i, u), lwbs[i].zio # "done",
         u.recs = lwbs[i].recs, \A d \in DVAs : d # lwbs[i].blk.dva => disk'[d] = disk[d],
         UNCHANGED <<pc, seq, foid, until, writer, wvars, promised, commitSeq>>, logError => logError',
         u.zio = "released" => ~On(u)'.bad,
         u.zio = "done" /\ On(u)'.bad => Working /\ logError'
  PROVE  ErrorInv'
<1>1. PICK w : w = lwbs[i]
  OBVIOUS
<1>2. w \in Chain /\ Chain' = (Chain \ {w}) \cup {u} /\ w.zio # "done" /\ u.recs = w.recs
  BY <1>1, ReplacedIs
<1>3. WriterSame
  BY DEF WriterSame
<1>4. ItxsKept /\ Durable' = Durable
  BY DEF Replaced, ItxsKept, Durable, Seqs
<1>5. \A n \in Seqs : Noticed(n) => Noticed(n)'
  BY <1>3, <1>4, NoticedSame
<1>6. \A v \in Chain : v # w => On(v)' = On(v)
  <2>1. \A v \in Chain : v.blk.dva \in DVAs
    BY ChainType, LwbFields DEF IInv
  <2>2. \A v \in Chain : v # w => v.blk.dva # w.blk.dva
    BY <1>2 DEF IInv, SpaceInv
  <2> QED
    BY <1>1, <2>1, <2>2 DEF On
<1>7. \A n : Unpromised(n)' <=> Unpromised(n)
  BY DEF Unpromised
<1>8. \A v \in Chain' : v.zio = "released" => ~On(v)'.bad
  BY <1>2, <1>6 DEF ErrorInv
<1>9. ASSUME NEW v \in Chain', Pending(v)', NEW n \in v.recs, n \notin Durable
      PROVE  Unpromised(n) /\ (v.zio = "done" => Noticed(n)')
  <2>1. CASE v \in Chain /\ v # w
    <3>1. Pending(v) /\ n \in Seqs
      BY <1>6, <1>9, <2>1 DEF Pending, IInv, RecInv
    <3> QED
      BY <1>5, <1>9, <2>1, <3>1 DEF ErrorInv
  <2>2. CASE v = u
    <3>1. Unpromised(n)
      BY <1>2, <1>9, <2>2 DEF ErrorInv, Pending
    <3>2. v.zio = "done" => Working' /\ logError'
      BY <1>3, <1>9, <2>2, SameAt DEF Pending
    <3> QED
      BY <3>1, <3>2 DEF Noticed
  <2> QED
    BY <1>2, <2>1, <2>2
<1> QED
  BY <1>4, <1>7, <1>8, <1>9 DEF ErrorInv

LEMMA ErrorDisk ==
  ASSUME IInv, ErrorInv, NEW i \in DOMAIN lwbs, WriteDone(i) \/ WriteFailed(i) \/ BufFree(i)
  PROVE  ErrorInv'
<1>1. PICK w : w = lwbs[i]
  OBVIOUS
<1>d. disk \in [DVAs -> [blk : Ptrs, recs : SUBSET Nat, next : Ptrs, stable : BOOLEAN, bad : BOOLEAN]]
  BY DEF IInv, TypeInv
<1>2. CASE WriteDone(i)
  <2>1. PICK u : u = [lwbs[i] EXCEPT !.zio = "released"]
    OBVIOUS
  <2>2. /\ u \in Lwbs /\ Replaced(i, u) /\ w.zio = "io" /\ w.blk.dva \in DVAs
        /\ u.recs = w.recs /\ u.zio = "released"
        /\ UNCHANGED <<pc, seq, foid, until, writer, commitSeq, wvars, promised, logError>>
    BY <1>1, <1>2, <2>1, ReleasedIs DEF WriteDone
  <2>3. disk' = [disk EXCEPT ![w.blk.dva] = [blk |-> w.blk, recs |-> w.recs, next |-> w.next,
                                            stable |-> FALSE, bad |-> FALSE]]
    BY <1>1, <1>2 DEF WriteDone
  <2>4. (\A d \in DVAs : d # w.blk.dva => disk'[d] = disk[d]) /\ ~disk'[w.blk.dva].bad
    BY <1>d, <2>2, <2>3
  <2>5. ~On(u)'.bad
    BY <1>1, <2>2, <2>4 DEF On, Replaced
  <2> QED
    BY <1>1, <2>2, <2>4, <2>5, ErrorIo
<1>3. CASE WriteFailed(i)
  <2>1. PICK u : u = [lwbs[i] EXCEPT !.zio = "failed"]
    OBVIOUS
  <2>2. /\ u \in Lwbs /\ Replaced(i, u) /\ w.zio = "io" /\ w.blk.dva \in DVAs
        /\ u.recs = w.recs /\ u.zio = "failed"
        /\ UNCHANGED <<pc, seq, foid, until, writer, commitSeq, wvars, promised, logError>>
    BY <1>1, <1>3, <2>1, ReleasedIs DEF WriteFailed
  <2>3. disk' = [disk EXCEPT ![w.blk.dva].bad = TRUE]
    BY <1>1, <1>3 DEF WriteFailed
  <2>4. \A d \in DVAs : d # w.blk.dva => disk'[d] = disk[d]
    BY <1>d, <2>2, <2>3
  <2> QED
    BY <1>1, <2>2, <2>4, ErrorIo
<1>4. CASE BufFree(i)
  <2>1. /\ w.zio \in {"released", "failed"} /\ lwbs' = [lwbs EXCEPT ![i].zio = "done", ![i].buf = FALSE]
        /\ logError' = (logError \/ w.zio = "failed")
        /\ UNCHANGED <<floor, open, dead, zh, zhDisk, synced, space, chain, destroyTxg, itxs, disk, pc, seq,
                       foid, until, writer, commitSeq, wvars, promised>>
    BY <1>1, <1>4 DEF BufFree, svc, call, susp, header, pool
  <2>2. lwbs \in Seq(Lwbs) /\ w \in Lwbs /\ w \in Chain
    <3>1. lwbs \in Seq(Lwbs)
      BY DEF IInv, TypeInv
    <3>2. lwbs[i] \in Members(lwbs)
      BY DEF Members
    <3> QED
      BY <1>1, <3>1, <3>2, MembersIs, ChainType DEF IInv
  <2>3. PICK u : u = [w EXCEPT !.zio = "done", !.buf = FALSE]
    OBVIOUS
  <2>4. /\ u \in Lwbs /\ u.blk = w.blk /\ u.recs = w.recs /\ u.next = w.next /\ u.zio = "done"
    BY <2>2, <2>3, InFlightIs DEF IInv
  <2>5. lwbs' = [lwbs EXCEPT ![i] = u]
    BY <1>1, <2>1, <2>3
  <2>6. Replaced(i, u)
    BY <1>1, <2>1, <2>4, <2>5 DEF Replaced
  <2>7. On(u)'.bad => Working /\ logError'
    <3>1. On(u)' = On(w)
      BY <2>1, <2>4 DEF On
    <3>2. On(w).bad => w.zio = "failed"
      BY <2>1, <2>2 DEF ErrorInv
    <3>3. Working
      BY <2>1, <2>2 DEF IInv, WriteInv, InFlight
    <3> QED
      BY <2>1, <3>1, <3>2, <3>3
  <2> QED
    BY <1>1, <2>1, <2>4, <2>6, <2>7, ErrorIo
<1> QED
  BY <1>2, <1>3, <1>4

\* Without a writer every record of such an lwb is durable.
LEMMA NoWriterErrors ==
  ASSUME IInv, ErrorInv, ~Working, ~At({"finish"}), NEW w \in Chain, Pending(w), NEW n \in w.recs
  PROVE  n \in Durable
<1>1. w.zio \in Idle
  BY NoWriter DEF IInv
<1>2. w.zio = "done"
  BY <1>1 DEF IInv, WriteInv, Idle
<1> QED
  BY <1>2 DEF ErrorInv, Noticed

\* When nothing of the log is pending.
LEMMA ErrorNone ==
  ASSUME IInv, ErrorInv, LogSame, UNCHANGED <<itxs, disk>>,
         \A w \in Chain : Pending(w) => w.recs \subseteq Durable
  PROVE  ErrorInv'
<1>1. Chain' = Chain
  BY SameLog
<1>2. \A w : On(w)' = On(w) /\ (Pending(w)' <=> Pending(w))
  BY DEF On, Pending
<1>3. Durable' = Durable
  BY DEF Durable, Seqs, LogSame
<1> QED
  BY <1>1, <1>2, <1>3 DEF ErrorInv

LEMMA ErrorCommit ==
  ASSUME IInv, ErrorInv, NEW c \in Callers, Commit(c)
  PROVE  ErrorInv'
<1>1. /\ pc[c] \in {"commit", "woken"} /\ LogSame /\ UNCHANGED <<itxs, disk, commitSeq, logError, until>>
  BY DEF Commit, LogSame, svc, susp, header, pool
<1>2. CASE StartWriter(c)
  <2>1. writer = Nobody
    BY <1>2 DEF StartWriter
  <2>2. ~Working /\ ~At({"finish"})
    BY <2>1 DEF Working, At
  <2>3. \A w \in Chain : Pending(w) => w.recs \subseteq Durable
    BY <2>2, NoWriterErrors
  <2> QED
    BY <1>1, <2>3, ErrorNone
<1>3. CASE Wait(c)
  <2>1. WriterSame
    BY <1>1, <1>3, OtherCaller DEF Wait, Goto, call, IInv, TypeInv, WriterLabels
  <2>2. ItxsKept /\ promised' = promised
    BY <1>1, <1>3 DEF ItxsKept, Seqs, Wait
  <2> QED
    BY <1>1, <2>1, <2>2, ErrorIdle
<1>4. CASE /\ OtherCommitted(c) /\ Goto(c, After(c)) /\ Keep(c) /\ UNCHANGED <<writer, wvars>>
  <2>1. WriterSame
    <3>1. /\ pc' = [pc EXCEPT ![c] = After(c)] /\ seq' = [seq EXCEPT ![c] = 0]
          /\ foid' = [foid EXCEPT ![c] = AnyFile]
      BY <1>4 DEF Goto, Keep
    <3> QED
      BY <1>1, <1>4, <3>1, OtherCaller DEF IInv, TypeInv, WriterLabels
  <2>2. ItxsKept /\ Chain' = Chain /\ Durable' = Durable
    BY <1>1, SameLog DEF ItxsKept, Seqs, Durable, LogSame
  <2>3. \A n \in Seqs : Noticed(n) => Noticed(n)'
    BY <1>1, <2>1, <2>2, NoticedSame
  <2>4. \A n \in Seqs : Unpromised(n) => Unpromised(n)'
    <3>1. seq[c] \in Nat /\ commitSeq \in Nat /\ Seqs \subseteq Nat
      BY DEF IInv, TypeInv, Seqs
    <3>2. seq[c] < commitSeq
      BY <1>4 DEF OtherCommitted
    <3>3. promised' = promised \cup {n \in Seqs : n <= seq[c] /\ Matches(n, foid[c])}
      BY <1>4 DEF Keep
    <3>4. \A n \in Seqs : n >= commitSeq => ~(n <= seq[c])
      BY <3>1, <3>2
    <3>5. \A n \in Seqs : n >= commitSeq /\ n \notin promised => n \notin promised'
      BY <3>3, <3>4
    <3>6. commitSeq' = commitSeq
      BY <1>1
    <3> QED
      BY <3>5, <3>6 DEF Unpromised
  <2>5. \A w : On(w)' = On(w) /\ (Pending(w)' <=> Pending(w))
    BY <1>1 DEF On, Pending
  <2>6. \A w \in Chain : w.recs \subseteq Seqs
    BY DEF IInv, RecInv
  <2> QED
    BY <2>2, <2>3, <2>4, <2>5, <2>6 DEF ErrorInv
<1> QED
  BY <1>2, <1>3, <1>4 DEF Commit

LEMMA ErrorFinish ==
  ASSUME IInv, ErrorInv, NEW c \in Callers, Finish(c)
  PROVE  ErrorInv'
<1>1. /\ pc[c] = "finish" /\ floor >= until[c] /\ LogSame /\ UNCHANGED <<itxs, disk>>
  BY DEF Finish, Synced, LogSame, svc, susp, header, pool
<1>2. writer = c /\ \A L : At(L) <=> pc[c] \in L
  BY <1>1, Positions DEF IInv, WriterLabels
<1>3. ~Working
  BY <1>1, <1>2 DEF Working
<1>4. ASSUME NEW w \in Chain, Pending(w), NEW n \in w.recs PROVE n \in Durable
  <2>1. w.zio = "done"
    BY <1>3, <1>4, NoWriter DEF IInv, WriteInv, Idle
  <2>2. n \in Durable \/ itxs[n].txg <= until[c]
    BY <1>2, <1>3, <1>4, <2>1 DEF ErrorInv, Noticed
  <2>3. n \in Seqs /\ itxs[n].txg \in Nat /\ until[c] \in Nat /\ floor \in Nat
    BY <1>4, ItxIs DEF IInv, RecInv, TypeInv
  <2>4. itxs[n].txg <= until[c] => itxs[n].txg <= floor
    BY <1>1, <2>3
  <2> QED
    BY <2>2, <2>3, <2>4 DEF Durable
<1>5. \A w \in Chain : Pending(w) => w.recs \subseteq Durable
  BY <1>4
<1> QED
  BY <1>1, <1>5, ErrorNone

LEMMA ErrorWait ==
  ASSUME IInv, ErrorInv, NEW c \in Callers, CreateDone(c) \/ BigDone(c) \/ ZioWait(c)
  PROVE  ErrorInv'
<1>1. LogSame /\ UNCHANGED <<itxs, writer, promised, commitSeq, open>> /\ pc[c] \in {"createwait", "bigwait", "zio"}
  BY DEF CreateDone, BigDone, ZioWait, LogSame, svc, susp, header, pool
<1>2. writer = c /\ (\A L : At(L) <=> pc[c] \in L) /\ c # Nobody
  BY <1>1, Positions, Names DEF IInv, WriterLabels
<1>3. Chain' = Chain /\ Durable' = Durable
  BY <1>1, SameLog DEF Durable, Seqs, LogSame
<1>4. \A w \in Chain : On(w)'.bad = On(w).bad
  <2>1. \A w \in Chain : w.blk.dva \in DVAs
    BY ChainType, LwbFields DEF IInv
  <2>2. disk \in [DVAs -> [blk : Ptrs, recs : SUBSET Nat, next : Ptrs, stable : BOOLEAN, bad : BOOLEAN]]
    BY DEF IInv, TypeInv
  <2>3. disk' = disk \/ disk' = Flushed
    BY DEF CreateDone, BigDone, ZioWait, pool
  <2>4. \A d \in DVAs : Flushed[d].bad = disk[d].bad
    BY <2>2 DEF Flushed
  <2> QED
    BY <2>1, <2>3, <2>4 DEF On
<1>5. ASSUME NEW n \in Seqs, Noticed(n) PROVE Noticed(n)'
  <2>1. Working /\ logError /\ pc[c] \in {"bigwait", "zio"}
    BY <1>1, <1>2, <1>5 DEF Noticed, Working
  <2>2. CASE BigDone(c)
    <3>1. Working' /\ logError'
      BY <1>1, <1>2, <2>1, <2>2 DEF BigDone, Goto, Working, At, IInv, TypeInv
    <3> QED
      BY <3>1 DEF Noticed
  <2>3. CASE ZioWait(c)
    <3>1. until' = [until EXCEPT ![c] = open] /\ pc' = [pc EXCEPT ![c] = "finish"]
      BY <2>1, <2>3 DEF ZioWait, LogLost, SetUntil, Goto
    <3>2. until'[writer'] = open /\ At({"finish"})'
      BY <1>1, <1>2, <3>1 DEF At, IInv, TypeInv
    <3>3. itxs'[n].txg <= open
      BY <1>1, <1>5 DEF IInv, RecInv
    <3> QED
      BY <3>2, <3>3 DEF Noticed
  <2> QED
    BY <2>1, <2>2, <2>3 DEF CreateDone
<1> QED
  BY <1>1, <1>3, <1>4, <1>5, ErrorStep

\* The steps of the loop: the last lwb grows or is written, and a new one is empty or has
\* the record that was taken from the list.
LEMMA ErrorLoop ==
  ASSUME IInv, ErrorInv, UNCHANGED <<floor, dead, itxs, disk, promised, commitSeq, logError>>,
         lwbs' # << >>,
         \A w \in Members(lwbs') :
           \/ w \in Members(lwbs)
           \/ /\ w.zio \notin {"released", "done"}
              /\ \A n \in w.recs : n \in itxList \/ \E v \in Chain : n \in v.recs /\ v.zio # "done",
         At({"finish"}) => FALSE, Working => Working'
  PROVE  ErrorInv'
<1>1. \A w \in Chain' :
           \/ w \in Chain
           \/ /\ w.zio \notin {"released", "done"}
              /\ \A n \in w.recs : n \in itxList \/ \E v \in Chain : n \in v.recs /\ v.zio # "done"
  BY DEF Chain, Alive, Kept
<1>2. \A w : On(w)' = On(w)
  BY DEF On
<1>3. Durable' = Durable
  BY DEF Durable, Seqs
<1>4. \A n \in Seqs : Noticed(n) => Noticed(n)'
  BY DEF Noticed
<1> QED
  BY <1>1, <1>2, <1>3, <1>4, ErrorStep

LEMMA ErrorCreate ==
  ASSUME IInv, ErrorInv, NEW c \in Callers, NEW d \in DVAs \cup {Nobody}, Create(c, d)
  PROVE  ErrorInv'
<1>1. /\ pc[c] = "create" /\ UNCHANGED <<floor, dead, itxs, disk, promised, commitSeq, logError>>
  BY DEF Create, header
<1>2. \A L : At(L) <=> pc[c] \in L
  BY <1>1, Positions DEF IInv, WriterLabels
<1>3. ~At({"finish"}) /\ ~Working
  BY <1>1, <1>2 DEF Working
<1>4. CASE lwbs' = lwbs
  <2>1. \A w \in Chain' : w \in Chain \/ (w.zio = "none" /\ w.recs = {})
    BY <1>1, <1>4 DEF Chain, Alive, Kept, Lwb
  <2>2. \A w : On(w)' = On(w)
    BY <1>1 DEF On
  <2>3. Durable' = Durable
    BY <1>1 DEF Durable, Seqs
  <2>4. \A n \in Seqs : ~Noticed(n)
    BY <1>3 DEF Noticed
  <2> QED
    BY <1>1, <2>1, <2>2, <2>3, <2>4, ErrorStep
<1>5. ASSUME NEW b, NEW t, lwbs' = <<Lwb(b, t)>> PROVE ErrorInv'
  <2>1. Lwb(b, t).zio = "none" /\ Lwb(b, t).recs = {}
    BY DEF Lwb
  <2>2. Members(lwbs') = {Lwb(b, t)} /\ lwbs' # << >>
    BY <1>5 DEF Members
  <2> QED
    BY <1>1, <1>3, <2>1, <2>2, ErrorLoop
<1> QED
  BY <1>4, <1>5 DEF Create

\* What the log has after a step of the loop.
LEMMA LoopMembers ==
  ASSUME NEW L \in Seq(Lwbs), L # << >>, NEW u \in Lwbs, NEW g \in Lwbs
  PROVE  /\ SetLast(L, u) # << >> /\ \A w \in Members(SetLast(L, u)) : w \in Members(L) \/ w = u
         /\ Append(SetLast(L, u), g) # << >>
         /\ \A w \in Members(Append(SetLast(L, u), g)) : w \in Members(L) \/ w \in {u, g}
<1>1. PICK M : M = SetLast(L, u)
  OBVIOUS
<1>2. M \in Seq(Lwbs) /\ Len(M) = Len(L) /\ M # << >>
  BY <1>1, SetLastIs
<1>3. \A w \in Members(M) : w \in Members(L) \/ w = u
  BY <1>1, <1>2 DEF Members, SetLast
<1>4. Append(M, g) # << >> /\ \A w \in Members(Append(M, g)) : w \in Members(M) \/ w = g
  BY <1>2 DEF Members
<1> QED
  BY <1>1, <1>2, <1>3, <1>4

LEMMA ErrorPush ==
  ASSUME IInv, ErrorInv, ~Panic, NEW c \in Callers, NEW d \in DVAs \cup {Nobody}, Push(c, d)
  PROVE  ErrorInv'
<1>1. /\ pc[c] = "fill" /\ ~Stop(c) /\ Take(MinOf(Pushable(c)))
      /\ UNCHANGED <<open, floor, seq, foid, itxs, writer, commitSeq, logError, destroyTxg, zh, zhDisk, synced,
                     chain, disk, promised, dead>>
  BY DEF Push, call, susp, header
<1>2. PICK n : n = MinOf(Pushable(c))
  OBVIOUS
<1>3. n \in itxList /\ n \in Seqs
  BY <1>1, <1>2, TakeIs
<1>4. writer = c /\ c # Nobody /\ \A L : At(L) <=> pc[c] \in L
  BY <1>1, Positions, Names DEF IInv, WriterLabels
<1>5. Working /\ ~At({"finish"}) /\ ~At({"createwait"})
  BY <1>1, <1>4 DEF Working
<1>6. Working'
  <2>1. pc' = pc \/ pc' = [pc EXCEPT ![c] = "bigwait"]
    BY DEF Push, Goto
  <2> QED
    BY <1>1, <1>4, <2>1 DEF Working, At, IInv, TypeInv
<1>7. CASE UNCHANGED <<lwbs, space>>
  <2>1. Chain' = Chain /\ Durable' = Durable
    BY <1>1, <1>7, SameLog DEF LogSame, Durable, Seqs
  <2>2. \A w : On(w)' = On(w)
    BY <1>1 DEF On
  <2>3. \A m \in Seqs : Noticed(m) => Noticed(m)'
    BY <1>1, <1>5, <1>6 DEF Noticed
  <2> QED
    BY <1>1, <2>1, <2>2, <2>3, ErrorStep
<1>8. ASSUME wlwb PROVE /\ lwbs \in Seq(Lwbs) /\ lwbs # << >> /\ Last(lwbs) \in Lwbs /\ Last(lwbs) \in Chain
                        /\ Last(lwbs).zio \in {"none", "init"} /\ Last(lwbs).buf
  BY <1>5, <1>8, LastIs DEF IInv, TypeInv
<1>9. PICK w : w = Last(lwbs)
  OBVIOUS
<1>10. CASE wlwb /\ lwbs' = SetLast(lwbs, Copied(Inited(w), n))
  <2>1. PICK u : u = Copied(Inited(w), n)
    OBVIOUS
  <2>2. /\ Inited(w) \in Lwbs /\ Inited(w).recs = w.recs /\ Inited(w).zio = "init"
    BY <1>8, <1>9, <1>10, InitedIs
  <2>3. /\ u \in Lwbs /\ u.recs = w.recs \cup {n} /\ u.zio = "init"
    BY <1>3, <2>1, <2>2, CopiedIs DEF IInv
  <2>4. lwbs' # << >> /\ \A x \in Members(lwbs') : x \in Members(lwbs) \/ x = u
    BY <1>8, <1>10, <2>1, <2>3, LoopMembers
  <2>5. \A m \in u.recs : m \in itxList \/ \E v \in Chain : m \in v.recs /\ v.zio # "done"
    BY <1>3, <1>8, <1>9, <1>10, <2>3
  <2> QED
    BY <1>1, <1>5, <1>6, <2>3, <2>4, <2>5, ErrorLoop
<1>11. CASE /\ wlwb
            /\ LET L == Started(SetLast(lwbs, Inited(w)), d)
                   v == Inited(Last(L))
               IN  lwbs' = IF d = Nobody THEN L
                           ELSE SetLast(L, IF Size(n) > Cap THEN v ELSE Copied(v, n))
  <2>1. PICK u : u = InIo(Inited(w), d)
    OBVIOUS
  <2>2. PICK g : g = Lwb(NextBlk(w, d), open)
    OBVIOUS
  <2>3. PICK L : L = Started(SetLast(lwbs, Inited(w)), d)
    OBVIOUS
  <2>4. /\ u \in Lwbs
        /\ d = Nobody => L = SetLast(lwbs, u)
        /\ d # Nobody => /\ L = Append(SetLast(lwbs, u), g) /\ g \in Lwbs /\ Last(L) = g
                         /\ \A y \in Lwbs : SetLast(L, y) = Append(SetLast(lwbs, u), y)
    BY <1>5, <1>9, <1>11, <2>1, <2>2, <2>3, StartedLog
  <2>5. u.recs = w.recs /\ u.zio = "io"
    BY <1>8, <1>9, <1>11, <2>1, IoLwbIs
  <2>6. \A m \in u.recs : \E v \in Chain : m \in v.recs /\ v.zio # "done"
    BY <1>8, <1>9, <1>11, <2>5
  <2>7. CASE d = Nobody
    <3>1. lwbs' # << >> /\ \A x \in Members(lwbs') : x \in Members(lwbs) \/ x = u
      BY <1>8, <1>11, <2>3, <2>4, <2>7, LoopMembers
    <3> QED
      BY <1>1, <1>5, <1>6, <2>5, <2>6, <3>1, ErrorLoop
  <2>8. CASE d # Nobody
    <3>1. g.recs = {} /\ g.zio = "none"
      BY <2>2 DEF Lwb
    <3>2. Inited(g) \in Lwbs /\ Inited(g).recs = {} /\ Inited(g).zio = "init"
      BY <2>4, <2>8, <3>1, InitedIs
    <3>3. /\ Copied(Inited(g), n) \in Lwbs /\ Copied(Inited(g), n).recs = {n} /\ Copied(Inited(g), n).zio = "init"
      BY <1>3, <3>2, CopiedIs DEF IInv
    <3>4. PICK y : y = IF Size(n) > Cap THEN Inited(g) ELSE Copied(Inited(g), n)
      OBVIOUS
    <3>5. y \in Lwbs /\ y.recs \subseteq {n} /\ y.zio = "init"
      BY <3>2, <3>3, <3>4
    <3>6. lwbs' = Append(SetLast(lwbs, u), y)
      <4>1. lwbs' = SetLast(L, IF Size(n) > Cap THEN Inited(Last(L)) ELSE Copied(Inited(Last(L)), n))
        BY ONLY <1>11, <2>3, <2>8, Zenon
      <4>2. Last(L) = g
        BY ONLY <2>4, <2>8, Zenon
      <4>3. lwbs' = SetLast(L, y)
        BY ONLY <3>4, <4>1, <4>2, Zenon
      <4> QED
        BY ONLY <2>4, <2>8, <3>5, <4>3, Zenon
    <3>7. lwbs' # << >> /\ \A x \in Members(lwbs') : x \in Members(lwbs) \/ x \in {u, y}
      <4>1. /\ Append(SetLast(lwbs, u), y) # << >>
            /\ \A x \in Members(Append(SetLast(lwbs, u), y)) : x \in Members(lwbs) \/ x \in {u, y}
        BY <1>8, <1>11, <2>4, <3>5, LoopMembers
      <4> QED
        BY ONLY <3>6, <4>1, Zenon
    <3>8. \A m \in y.recs : m \in itxList
      BY <1>3, <3>5
    <3> QED
      BY <1>1, <1>5, <1>6, <2>5, <2>6, <3>5, <3>7, <3>8, ErrorLoop
  <2> QED
    BY <2>7, <2>8
<1> QED
  BY <1>2, <1>7, <1>9, <1>10, <1>11 DEF Push

LEMMA ErrorLastWrite ==
  ASSUME IInv, ErrorInv, ~Panic, NEW c \in Callers, NEW d \in DVAs \cup {Nobody}, LastWrite(c, d)
  PROVE  ErrorInv'
<1>1. /\ pc[c] = "fill" /\ pc' = [pc EXCEPT ![c] = "zio"]
      /\ UNCHANGED <<open, floor, itxs, writer, commitSeq, logError, destroyTxg, zh, zhDisk, synced,
                     chain, disk, promised, dead>>
  BY DEF LastWrite, Goto, susp, header
<1>2. writer = c /\ c # Nobody /\ \A L : At(L) <=> pc[c] \in L
  BY <1>1, Positions, Names DEF IInv, WriterLabels
<1>3. Working /\ ~At({"finish"}) /\ ~At({"createwait"}) /\ Working'
  BY <1>1, <1>2 DEF Working, At, IInv, TypeInv
<1>4. CASE UNCHANGED <<lwbs, space>>
  <2>1. Chain' = Chain /\ Durable' = Durable
    BY <1>1, <1>4, SameLog DEF LogSame, Durable, Seqs
  <2>2. \A w : On(w)' = On(w)
    BY <1>1 DEF On
  <2>3. \A m \in Seqs : Noticed(m) => Noticed(m)'
    BY <1>1, <1>3 DEF Noticed
  <2> QED
    BY <1>1, <2>1, <2>2, <2>3, ErrorStep
<1>5. PICK w : w = Last(lwbs)
  OBVIOUS
<1>6. CASE wlwb /\ w.zio # "none" /\ lwbs' = Started(lwbs, d)
  <2>1. /\ lwbs \in Seq(Lwbs) /\ lwbs # << >> /\ w \in Lwbs /\ w \in Chain /\ w.zio \in {"none", "init"} /\ w.buf
    BY <1>3, <1>5, <1>6, LastIs DEF IInv, TypeInv
  <2>2. PICK u : u = InIo(Inited(w), d)
    OBVIOUS
  <2>3. PICK g : g = Lwb(NextBlk(w, d), open)
    OBVIOUS
  <2>4. /\ u \in Lwbs
        /\ d = Nobody => lwbs' = SetLast(lwbs, u)
        /\ d # Nobody => lwbs' = Append(SetLast(lwbs, u), g) /\ g \in Lwbs
    BY <1>3, <1>5, <1>6, <2>2, <2>3, StartedLog
  <2>5. u.recs = w.recs /\ u.zio = "io"
    BY <2>1, <2>2, IoLwbIs
  <2>6. g.recs = {} /\ g.zio = "none"
    BY <2>3 DEF Lwb
  <2>7. lwbs' # << >> /\ \A x \in Members(lwbs') : x \in Members(lwbs) \/ x \in {u, g}
    <3>1. CASE d = Nobody
      BY <2>1, <2>4, <3>1, LoopMembers
    <3>2. CASE d # Nobody
      <4>1. lwbs' = Append(SetLast(lwbs, u), g) /\ g \in Lwbs
        BY ONLY <2>4, <3>2, Zenon
      <4>2. /\ Append(SetLast(lwbs, u), g) # << >>
            /\ \A x \in Members(Append(SetLast(lwbs, u), g)) : x \in Members(lwbs) \/ x \in {u, g}
        BY <2>1, <2>4, <4>1, LoopMembers
      <4> QED
        BY ONLY <4>1, <4>2, Zenon
    <3> QED
      BY <3>1, <3>2
  <2>8. \A m \in u.recs : \E v \in Chain : m \in v.recs /\ v.zio # "done"
    BY <2>1, <2>5
  <2> QED
    BY <1>1, <1>3, <2>5, <2>6, <2>7, <2>8, ErrorLoop
<1> QED
  BY <1>4, <1>5, <1>6 DEF LastWrite

\* No record is promised while the write of its block is under way or has failed, unless
\* its txg is on disk: zil_commit_writer() sees zl_log_error and waits for the txg.
THEOREM Errors == Spec => []ErrorInv
<1>1. Init => ErrorInv
  <2>1. Init => \A w \in Chain : w.recs = {} /\ w.zio = "none"
    BY DEF Init, Chain, Alive, Kept, Members, Lwb
  <2> QED
    BY <2>1 DEF ErrorInv
<1>2. ASSUME IInv, IInv', ErrorInv, Next PROVE ErrorInv'
  <2>1. ~Panic
    BY <1>2 DEF Next
  <2>2. CASE OpenTxg \/ SyncStep \/ ItxClean
    BY <1>2, <2>2, ErrorSync DEF SyncStep
  <2>3. CASE DiskStep \/ DiskError
    BY <1>2, <2>3, ErrorDisk DEF DiskStep, DiskError
  <2>4. CASE \E c \in Threads : Begin(c) \/ \E f \in Files \cup {AnyFile} : ItxAssign(c, f) \/ Fsync(c, f)
    BY <1>2, <2>4, ErrorCaller, Names
  <2>5. CASE \E c \in Suspenders : Suspend(c) \/ SuspendStep(c) \/ Resume(c)
    BY <1>2, <2>5, ErrorCaller, ErrorDestroy, Names DEF SuspendStep
  <2>6. ASSUME NEW c \in Callers, WriterStep(c) \/ NoSpace(c) PROVE ErrorInv'
    <3>1. CASE Commit(c) \/ CreateDone(c) \/ BigDone(c) \/ ZioWait(c) \/ Finish(c)
      BY <1>2, <3>1, ErrorCommit, ErrorWait, ErrorFinish
    <3>2. CASE \E d \in DVAs \cup {Nobody} : Create(c, d) \/ Push(c, d) \/ LastWrite(c, d)
      BY <1>2, <2>1, <3>2, ErrorCreate, ErrorPush, ErrorLastWrite
    <3> QED
      BY <2>6, <3>1, <3>2 DEF WriterStep, NoSpace
  <2> QED
    BY <1>2, <2>2, <2>3, <2>4, <2>5, <2>6 DEF Next
<1>3. ASSUME IInv, ErrorInv, UNCHANGED vars PROVE ErrorInv'
  <2>1. LogSame /\ WriterSame /\ ItxsKept /\ UNCHANGED <<disk, promised, commitSeq, logError>>
    BY <1>3 DEF vars, svc, call, susp, header, pool, LogSame, WriterSame, ItxsKept, Seqs
  <2> QED
    BY <1>3, <2>1, ErrorIdle
<1>4. IInv /\ IInv' /\ ErrorInv /\ [Next]_vars => ErrorInv'
  BY <1>2, <1>3
<1> QED
  BY <1>1, <1>4, Invariant, PTL DEF Spec

-----------------------------------------------------------------------------
(* A suspended log is empty *)

\* A caller that zil_suspend() returned to has seen the end of the suspending.
SuspInv == (\E c \in Suspenders : pc[c] = "suspended") => ~suspending

\* A caller becomes suspended at the end of zil_suspend() only.
LEMMA SuspPosition ==
  ASSUME IInv, SuspInv, NEW c \in Callers, NEW l, l # "suspended",
         \/ pc' = [pc EXCEPT ![c] = l] \/ pc' = [WakeAll EXCEPT ![c] = l] \/ pc' = WakeAll \/ pc' = pc,
         UNCHANGED suspending
  PROVE  SuspInv'
<1>1. pc \in [Callers -> Labels] /\ WakeAll \in [Callers -> Labels]
  BY WakeIs DEF IInv, TypeInv
<1>2. \A t \in Callers : pc'[t] = "suspended" => pc[t] = "suspended"
  BY <1>1, WakeIs DEF IInv
<1> QED
  BY <1>2, Names DEF SuspInv

LEMMA SuspWriter ==
  ASSUME IInv, SuspInv, NEW c \in Callers, WriterStep(c) \/ NoSpace(c)
  PROVE  SuspInv'
<1>a. After(c) # "suspended"
  BY AfterIs
<1>1. CASE Commit(c)
  <2>1. UNCHANGED suspending
    BY <1>1 DEF Commit, susp
  <2>2. \/ pc' = [WakeAll EXCEPT ![c] = After(c)] \/ pc' = [pc EXCEPT ![c] = After(c)]
        \/ pc' = [pc EXCEPT ![c] = IF lwbs = << >> /\ ~Suspended THEN "create" ELSE "fill"]
        \/ pc' = [pc EXCEPT ![c] = "cvwait"]
    BY <1>1 DEF Commit, StartWriter, Wait, Goto
  <2>3. (IF lwbs = << >> /\ ~Suspended THEN "create" ELSE "fill") # "suspended"
    OBVIOUS
  <2> QED
    BY <1>a, <2>1, <2>2, <2>3, SuspPosition
<1>2. CASE CreateDone(c) \/ BigDone(c)
  <2>1. UNCHANGED suspending /\ pc' = [pc EXCEPT ![c] = "fill"]
    BY <1>2 DEF CreateDone, BigDone, Goto, susp
  <2> QED
    BY <2>1, SuspPosition
<1>3. CASE ZioWait(c)
  <2>1. UNCHANGED suspending /\ pc' = [pc EXCEPT ![c] = "finish"]
    BY <1>3 DEF ZioWait, Goto, susp
  <2> QED
    BY <2>1, SuspPosition
<1>4. CASE Finish(c)
  <2>1. UNCHANGED suspending /\ pc' = [WakeAll EXCEPT ![c] = After(c)]
    BY <1>4 DEF Finish, susp
  <2> QED
    BY <1>a, <2>1, SuspPosition
<1>5. CASE \E d \in DVAs \cup {Nobody} : Create(c, d) \/ Push(c, d) \/ LastWrite(c, d)
  <2>1. UNCHANGED suspending
    BY <1>5 DEF Create, Push, LastWrite, susp
  <2>2. \/ pc' = [pc EXCEPT ![c] = "fill"] \/ pc' = [pc EXCEPT ![c] = "createwait"]
        \/ pc' = [pc EXCEPT ![c] = "bigwait"] \/ pc' = [pc EXCEPT ![c] = "zio"] \/ pc' = pc
    BY <1>5 DEF Create, Push, LastWrite, Goto
  <2> QED
    BY <2>1, <2>2, SuspPosition
<1> QED
  BY <1>1, <1>2, <1>3, <1>4, <1>5 DEF WriterStep, NoSpace

LEMMA SuspSuspender ==
  ASSUME IInv, SuspInv, NEW c \in Suspenders, Suspend(c) \/ SuspendStep(c) \/ Resume(c)
  PROVE  SuspInv'
<1>1. c \in Callers
  BY Names
<1>2. CASE Suspend(c)
  <2>1. CASE suspend = 0
    <3>1. \A d \in Suspenders : pc[d] = "idle"
      BY <2>1, Counted DEF IInv
    <3>2. pc' = [pc EXCEPT ![c] = "commit"] /\ pc \in [Callers -> Labels]
      BY <1>2, <2>1 DEF Suspend, Goto, IInv, TypeInv
    <3> QED
      BY <1>1, <3>1, <3>2, Names DEF SuspInv
  <2>2. CASE suspend # 0
    <3>1. pc' = [pc EXCEPT ![c] = "suspwait"] /\ UNCHANGED suspending
      BY <1>2, <2>2 DEF Suspend, Goto
    <3> QED
      BY <1>1, <3>1, SuspPosition
  <2> QED
    BY <2>1, <2>2
<1>3. CASE Drained(c)
  <2>1. pc' = [pc EXCEPT ![c] = "destroy"] /\ UNCHANGED suspending
    BY <1>3 DEF Drained, Goto, susp
  <2> QED
    BY <1>1, <2>1, SuspPosition
<1>4. CASE Destroy(c)
  BY <1>4 DEF Destroy, SuspInv
<1>5. CASE SuspendWaited(c)
  BY <1>5 DEF SuspendWaited, SuspInv, susp
<1>6. CASE Resume(c)
  <2>1. pc' = [pc EXCEPT ![c] = "idle"] /\ UNCHANGED suspending
    BY <1>6 DEF Resume, Goto
  <2> QED
    BY <1>1, <2>1, SuspPosition
<1> QED
  BY <1>2, <1>3, <1>4, <1>5, <1>6 DEF SuspendStep

LEMMA SuspNext ==
  ASSUME IInv, SuspInv, [Next]_vars
  PROVE  SuspInv'
<1>1. CASE OpenTxg \/ SyncStep \/ DiskStep \/ DiskError
  <2>1. UNCHANGED <<pc, suspending>>
    BY <1>1 DEF OpenTxg, SyncStep, ZilSync, CommitTxg, DiskStep, DiskError, WriteDone, WriteFailed, Released,
                BufFree, susp
  <2> QED
    BY <2>1 DEF SuspInv
<1>2. CASE ItxClean
  <2>1. UNCHANGED suspending /\ pc' = WakeAll
    BY <1>2 DEF ItxClean, susp
  <2>2. \A t \in Callers : pc'[t] = "suspended" => pc[t] = "suspended"
    BY <2>1, WakeIs DEF IInv
  <2> QED
    BY <2>1, <2>2, Names DEF SuspInv
<1>3. ASSUME NEW c \in Threads, NEW f \in Files \cup {AnyFile}, Begin(c) \/ ItxAssign(c, f) \/ Fsync(c, f)
      PROVE  SuspInv'
  <2>1. UNCHANGED suspending
    BY <1>3 DEF Begin, ItxAssign, Fsync, susp
  <2>2. pc' = [pc EXCEPT ![c] = "tx"] \/ pc' = [pc EXCEPT ![c] = "idle"] \/ pc' = [pc EXCEPT ![c] = "commit"]
    BY <1>3 DEF Begin, ItxAssign, Fsync, Goto
  <2>3. c \in Callers
    BY Names
  <2> QED
    BY <2>1, <2>2, <2>3, SuspPosition
<1>4. CASE UNCHANGED vars
  BY <1>4 DEF vars, susp, SuspInv
<1>5. CASE Next
  BY <1>1, <1>2, <1>3, <1>5, SuspWriter, SuspSuspender DEF Next
<1> QED
  BY <1>4, <1>5

\* While the log is suspended for a snapshot it has no lwb, and its header is or
\* will be empty (zil_suspend() and the zil_destroy() in it).
THEOREM SuspendedIsEmpty == Spec => []SuspendedEmpty
<1>1. Init => SuspInv
  BY DEF Init, SuspInv
<1>2. IInv /\ SuspInv /\ [Next]_vars => SuspInv'
  BY SuspNext
<1>3. IInv /\ SuspInv => SuspendedEmpty
  <2> SUFFICES ASSUME IInv, SuspInv, NEW c \in Suspenders, pc[c] = "suspended"
               PROVE  /\ lwbs = << >> /\ (zh = Hole \/ destroyTxg > floor)
                      /\ zhDisk = Hole \/ synced \/ destroyTxg > floor
    BY DEF SuspendedEmpty
  <2>1. suspend > 0 /\ ~suspending
    BY Counted DEF IInv, SuspInv
  <2> QED
    BY <2>1 DEF IInv, QuietInv, HeadInv
<1> QED
  BY <1>1, <1>2, <1>3, Invariant, PTL DEF Spec

-----------------------------------------------------------------------------
(* Allocation and freeing of log blocks *)

\* Every step leaves the blocks as they are, allocates one, or frees those of a part
\* of the log.
SpaceStep ==
  \/ UNCHANGED space
  \/ \E d \in DVAs : space' = Alloc(d, open)
  \/ \E F \in SUBSET Alive, t \in Nat : space' = Freed({w.blk.dva : w \in F}, t)

LEMMA DestroySpace ==
  ASSUME IInv, NEW c \in Suspenders, Destroy(c)
  PROVE  SpaceStep
<1>1. pc[c] = "destroy" /\ floor >= until[c] /\ c \in Callers /\ open \in Nat /\ lwbs \in Seq(Lwbs)
  BY Names DEF Destroy, Synced, IInv, TypeInv
<1>2. destroyTxg <= floor
  BY <1>1 DEF IInv, CallerInv
<1>3. PICK log : log = IF lwbs = << >> THEN {Lwb(zh, 0)} ELSE Members(lwbs)
  OBVIOUS
<1>4. zh # Hole => log \subseteq Alive
  BY <1>2, <1>3, ChainType DEF IInv, Alive, Kept
<1>5. zh # Hole => space' = Freed({w.blk.dva : w \in log}, open)
  BY <1>3 DEF Destroy
<1>6. zh = Hole => UNCHANGED space
  BY DEF Destroy
<1> QED
  BY <1>1, <1>4, <1>5, <1>6 DEF SpaceStep

LEMMA ZilSyncSpace ==
  ASSUME IInv, ZilSync
  PROVE  SpaceStep
<1>1. PICK k : k = CHOOSE i \in 0..Len(lwbs) : Cut(i)
  OBVIOUS
<1>2. k \in 0..Len(lwbs)
  <2>1. \E i \in 0..Len(lwbs) : Cut(i)
    BY PrefixIs DEF IInv
  <2> QED
    BY ONLY <1>1, <2>1, Zenon
<1>3. space' = Freed({lwbs[i].blk.dva : i \in 1..k}, Syncing)
  BY <1>1, Zenon DEF ZilSync, Cut
<1>4. PICK F : F = {lwbs[i] : i \in 1..k}
  OBVIOUS
<1>5. lwbs \in Seq(Lwbs) /\ Syncing \in Nat /\ Len(lwbs) \in Nat
  BY DEF IInv, TypeInv, Syncing
<1>6. F \subseteq Alive
  <2>1. 1..k \subseteq 1..Len(lwbs)
    BY <1>2, <1>5
  <2> QED
    BY <1>4, <1>5, <2>1, MembersIs DEF Alive
<1>7. {w.blk.dva : w \in F} = {lwbs[i].blk.dva : i \in 1..k}
  BY <1>4
<1> QED
  BY <1>3, <1>5, <1>6, <1>7 DEF SpaceStep

LEMMA NextSpace ==
  ASSUME IInv, [Next]_vars
  PROVE  SpaceStep
<1>1. CASE OpenTxg \/ CommitTxg \/ ItxClean \/ DiskStep \/ DiskError
  BY <1>1 DEF OpenTxg, CommitTxg, ItxClean, DiskStep, DiskError, WriteDone, WriteFailed, Released, BufFree, pool,
              SpaceStep
<1>2. CASE \E c \in Threads : Begin(c) \/ \E f \in Files \cup {AnyFile} : ItxAssign(c, f) \/ Fsync(c, f)
  BY <1>2 DEF Begin, ItxAssign, Fsync, pool, SpaceStep
<1>3. CASE \E c \in Suspenders : Suspend(c) \/ Drained(c) \/ SuspendWaited(c) \/ Resume(c)
  BY <1>3 DEF Suspend, Drained, SuspendWaited, Resume, pool, SpaceStep
<1>4. ASSUME NEW c \in Callers, WriterStep(c) \/ NoSpace(c) PROVE SpaceStep
  <2>1. CASE Commit(c) \/ CreateDone(c) \/ BigDone(c) \/ ZioWait(c) \/ Finish(c)
    BY <2>1 DEF Commit, CreateDone, BigDone, ZioWait, Finish, pool, SpaceStep
  <2>2. ASSUME NEW d \in DVAs \cup {Nobody}, Create(c, d) \/ Push(c, d) \/ LastWrite(c, d) PROVE SpaceStep
    <3>1. UNCHANGED space \/ (d # Nobody /\ space' = Alloc(d, open))
      BY <2>2 DEF Create, Push, LastWrite, WriteStart
    <3> QED
      BY <3>1 DEF SpaceStep
  <2> QED
    BY <1>4, <2>1, <2>2 DEF WriterStep, NoSpace
<1>5. CASE UNCHANGED vars
  BY <1>5 DEF vars, pool, SpaceStep
<1>6. CASE Next
  BY <1>1, <1>2, <1>3, <1>4, <1>6, DestroySpace, ZilSyncSpace DEF Next, SyncStep, SuspendStep
<1> QED
  BY <1>5, <1>6

\* A log block is freed once after each allocation, by zil_sync() or by zil_destroy(),
\* whatever the order in which they take the blocks from the list and from the header.
THEOREM FreedOnceHolds == Spec => FreedOnce
<1>1. IInv /\ [Next]_vars =>
        \A d \in DVAs : space'[d].freed \notin {0, space[d].freed} => space[d].freed = 0 /\ space[d].birth # 0
  <2> SUFFICES ASSUME IInv, [Next]_vars, NEW d \in DVAs, space'[d].freed \notin {0, space[d].freed}
               PROVE  space[d].freed = 0 /\ space[d].birth # 0
    OBVIOUS
  <2>1. TypeInv /\ SpaceStep
    BY NextSpace DEF IInv
  <2>2. ASSUME NEW e \in DVAs, space' = Alloc(e, open) PROVE FALSE
    BY <2>1, <2>2, AllocIs
  <2>3. ASSUME NEW F \in SUBSET Alive, NEW t \in Nat, space' = Freed({w.blk.dva : w \in F}, t)
        PROVE  \E w \in Alive : w.blk.dva = d
    <3>1. PICK D : D = {w.blk.dva : w \in F}
      OBVIOUS
    <3>2. D \in SUBSET DVAs
      BY <2>1, <3>1, ChainType, LwbFields
    <3>3. d \in D
      BY <2>1, <2>3, <3>1, <3>2, FreedIs
    <3> QED
      BY <3>1, <3>3
  <2>4. PICK w \in Alive : w.blk.dva = d
    BY <2>1, <2>2, <2>3 DEF SpaceStep
  <2>5. Birth(w) > 0 /\ FreedIn(w) = 0
    BY DEF IInv, SpaceInv
  <2> QED
    BY <2>4, <2>5 DEF Birth, FreedIn
<1>2. IInv /\ [Next]_vars =>
        [\A d \in DVAs : space'[d].freed \notin {0, space[d].freed} => space[d].freed = 0 /\ space[d].birth # 0]_vars
  BY <1>1
<1> QED
  BY <1>2, Invariant, PTL DEF Spec, FreedOnce

-----------------------------------------------------------------------------
(* What a crash leaves: the blocks that zil_parse() finds *)

NextOf(b, D) == IF Valid(b, D) THEN disk[b.dva].next ELSE Hole

\* f[i] is the i-th pointer that zil_parse() follows, up to the n-th.
Walk(f, n, D) == f = [i \in 0..n |-> IF i = 0 THEN zhDisk ELSE NextOf(f[i - 1], D)]

LEMMA WalkExists ==
  ASSUME NEW D, NEW n \in Nat
  PROVE  \E f : Walk(f, n, D)
<1> DEFINE S == {m \in Nat : ~\E f : Walk(f, m, D)}
<1> SUFFICES ASSUME S # {} PROVE FALSE
  OBVIOUS
<1>1. PICK m \in S : \A y \in S : m <= y
  <2>1. S \in SUBSET Nat
    OBVIOUS
  <2> HIDE DEF S
  <2> QED
    BY <2>1, Least
<1>2. CASE m = 0
  <2>1. PICK g : g = [i \in 0..0 |-> zhDisk]
    OBVIOUS
  <2>2. g = [i \in 0..0 |-> IF i = 0 THEN zhDisk ELSE NextOf(g[i - 1], D)]
    BY <2>1
  <2>3. Walk(g, 0, D)
    BY <2>2 DEF Walk
  <2> QED
    BY <1>1, <1>2, <2>3
<1>3. CASE m # 0
  <2>1. m - 1 \in Nat /\ m \in Nat /\ m - 1 \notin S
    BY <1>1, <1>3
  <2>2. PICK f : Walk(f, m - 1, D)
    BY <2>1
  <2>3. PICK b : b = NextOf(f[m - 1], D)
    OBVIOUS
  <2>4. PICK g : g = [i \in 0..m |-> IF i = m THEN b ELSE f[i]]
    OBVIOUS
  <2>5. \A i \in 0..(m - 1) : f[i] = IF i = 0 THEN zhDisk ELSE NextOf(f[i - 1], D)
    BY <2>2, Zenon DEF Walk
  <2>6. \A i \in 0..(m - 1) : i \in 0..m /\ i # m
    BY <2>1
  <2>7. \A i \in 0..(m - 1) : g[i] = f[i]
    BY <2>4, <2>6
  <2>8. g[m] = b /\ m - 1 \in 0..(m - 1) /\ m \in 0..m
    BY <2>1, <2>4
  <2>9. \A i \in 0..m : g[i] = IF i = 0 THEN zhDisk ELSE NextOf(g[i - 1], D)
    <3> SUFFICES ASSUME NEW i \in 0..m PROVE g[i] = IF i = 0 THEN zhDisk ELSE NextOf(g[i - 1], D)
      OBVIOUS
    <3>1. CASE i = m
      BY <1>3, <2>3, <2>7, <2>8, <3>1
    <3>2. CASE i # m
      <4>1. i \in 0..(m - 1) /\ (i # 0 => i - 1 \in 0..(m - 1))
        BY <2>1, <3>2
      <4> QED
        BY <2>5, <2>7, <4>1
    <3> QED
      BY <3>1, <3>2
  <2>10. g = [i \in 0..m |-> g[i]]
    BY <2>4
  <2>11. g = [i \in 0..m |-> IF i = 0 THEN zhDisk ELSE NextOf(g[i - 1], D)]
    BY ONLY <2>9, <2>10
  <2>12. Walk(g, m, D)
    BY <2>11 DEF Walk
  <2> QED
    BY <1>1, <2>12
<1> QED
  BY <1>2, <1>3

\* zil_parse() starts at the header and goes on while blocks are valid.
LEMMA ChainOfIs ==
  ASSUME NEW D
  PROVE  /\ Cardinality(DVAs) \in Nat
         /\ \E f : /\ ChainOf(D) = {f[i] : i \in 0..Cardinality(DVAs)} \ {Hole}
                   /\ f[0] = zhDisk
                   /\ \A i \in 1..Cardinality(DVAs) : f[i] = NextOf(f[i - 1], D)
<1>1. Cardinality(DVAs) \in Nat
  BY FiniteAssumption, FS_CardinalityType
<1>2. PICK f : f = CHOOSE g : Walk(g, Cardinality(DVAs), D)
  OBVIOUS
<1>3. Walk(f, Cardinality(DVAs), D)
  <2>1. \E g : Walk(g, Cardinality(DVAs), D)
    BY <1>1, WalkExists
  <2> QED
    BY ONLY <1>2, <2>1, Zenon
<1>4. ChainOf(D) = {f[i] : i \in 0..Cardinality(DVAs)} \ {Hole}
  BY <1>2, Zenon DEF ChainOf, Walk, NextOf
<1>5. \A i \in 0..Cardinality(DVAs) : f[i] = IF i = 0 THEN zhDisk ELSE NextOf(f[i - 1], D)
  BY <1>3, Zenon DEF Walk
<1>6. 0 \in 0..Cardinality(DVAs) /\ \A i \in 1..Cardinality(DVAs) : i \in 0..Cardinality(DVAs) /\ i # 0
  BY <1>1
<1> QED
  BY <1>1, <1>4, <1>5, <1>6

\* The lwb of the i-th block of the chain of the header: those before it were found valid.
Found(b, i, D) ==
  \E w \in Chain : /\ w.blk = b /\ w.blk.guid = zhDisk.guid /\ w.blk.num = zhDisk.num + i
                   /\ \A v \in Chain : Before(v, w) => v.blk \in ChainOf(D) /\ Valid(v.blk, D)

LEMMA HeadIs ==
  ASSUME IInv, zhDisk # Hole
  PROVE  /\ zhDisk.guid \in Nat /\ zhDisk.num \in Nat
         /\ \E w \in Chain : w.blk = zhDisk /\ \A v \in Chain : ~Before(v, w)
<1>1. zhDisk \in Blks
  BY DEF IInv, TypeInv, Ptrs
<1>2. zhDisk.guid \in Nat /\ zhDisk.num \in Nat
  BY <1>1, HoleIs
<1>3. PICK w \in Chain : w.blk = zhDisk
  BY DEF IInv, HeadInv
<1>4. \A v \in Chain : v.blk.num \in Nat
  BY ChainType, LwbFields DEF IInv
<1>5. \A v \in Chain : ~Before(v, w)
  BY <1>2, <1>3, <1>4 DEF IInv, HeadInv, Before, SameChain
<1> QED
  BY <1>2, <1>3, <1>5

\* A valid block of the log has a next one, which is in the log.
LEMMA ValidIs ==
  ASSUME IInv, NEW D, NEW w \in Chain, Valid(w.blk, D)
  PROVE  /\ w.recs = On(w).recs /\ On(w).next # Hole
         /\ \E v \in Chain : v.blk = NextOf(w.blk, D) /\ SameChain(v, w) /\ v.blk.num = w.blk.num + 1
<1>1. On(w).blk = w.blk /\ On(w).next # Hole /\ NextOf(w.blk, D) = On(w).next
  BY DEF Valid, On, NextOf
<1>2. w.recs = On(w).recs /\ w.next = On(w).next
  BY <1>1 DEF IInv, DiskInv, Match
<1>3. w.next.guid = w.blk.guid /\ w.next.num = w.blk.num + 1
  BY <1>1, <1>2 DEF IInv, LinkInv
<1>4. PICK v \in Chain : v.blk = w.next
  BY <1>1, <1>2 DEF IInv, LinkInv
<1> QED
  BY <1>1, <1>2, <1>3, <1>4 DEF SameChain

\* Every block that zil_parse() finds is one of the log, and so are those before it.
LEMMA WalkFinds ==
  ASSUME IInv, NEW D, NEW f, ChainOf(D) = {f[i] : i \in 0..Cardinality(DVAs)} \ {Hole},
         f[0] = zhDisk, \A i \in 1..Cardinality(DVAs) : f[i] = NextOf(f[i - 1], D)
  PROVE  \A i \in 0..Cardinality(DVAs) : f[i] # Hole => Found(f[i], i, D)
<1>n. PICK N : N = Cardinality(DVAs)
  OBVIOUS
<1>N. N \in Nat
  BY <1>n, FiniteAssumption, FS_CardinalityType
<1>c. \A i \in 0..N : f[i] # Hole => f[i] \in ChainOf(D)
  BY <1>n
<1> DEFINE S == {i \in 0..N : f[i] # Hole /\ ~Found(f[i], i, D)}
<1> SUFFICES ASSUME S # {} PROVE FALSE
  BY <1>n
<1>1. PICK k \in S : \A y \in S : k <= y
  <2>1. S \in SUBSET Nat
    BY <1>N
  <2> HIDE DEF S
  <2> QED
    BY <2>1, Least
<1>k. k \in 0..N /\ k \in Nat /\ f[k] # Hole /\ ~Found(f[k], k, D)
  BY <1>1, <1>N
<1>2. CASE k = 0
  <2>1. zhDisk # Hole
    BY <1>k, <1>2
  <2>2. PICK w \in Chain : w.blk = zhDisk /\ \A v \in Chain : ~Before(v, w)
    BY <2>1, HeadIs
  <2>3. zhDisk.num \in Nat
    BY <2>1, HeadIs
  <2>4. w.blk = f[0] /\ w.blk.guid = zhDisk.guid /\ w.blk.num = zhDisk.num + 0
    BY <2>2, <2>3
  <2>5. Found(f[0], 0, D)
    BY <2>2, <2>4 DEF Found
  <2> QED
    BY <1>k, <1>2, <2>5
<1>3. CASE k # 0
  <2>1. k - 1 \in 0..N /\ k - 1 < k /\ k \in 1..N
    BY <1>k, <1>3, <1>N
  <2>2. f[k] = NextOf(f[k - 1], D)
    BY <2>1, <1>n
  <2>3. Valid(f[k - 1], D) /\ f[k - 1] # Hole
    BY <1>k, <2>2 DEF NextOf, Valid
  <2>4. Found(f[k - 1], k - 1, D)
    <3>1. k - 1 \notin S
      BY <1>1, <2>1, <1>k
    <3> QED
      BY <2>1, <2>3, <3>1
  <2>5. PICK u \in Chain : /\ u.blk = f[k - 1] /\ u.blk.guid = zhDisk.guid /\ u.blk.num = zhDisk.num + (k - 1)
                           /\ \A v \in Chain : Before(v, u) => v.blk \in ChainOf(D) /\ Valid(v.blk, D)
    BY <2>4 DEF Found
  <2>6. PICK w \in Chain : w.blk = f[k] /\ SameChain(w, u) /\ w.blk.num = u.blk.num + 1
    BY <2>2, <2>3, <2>5, ValidIs
  <2>7. f[0] # Hole
    <3>1. Hole.guid = 0
      BY DEF Hole
    <3>2. u.blk.guid # 0
      BY ChainType, LwbFields DEF IInv
    <3> QED
      BY <2>5, <3>1, <3>2
  <2>8. zhDisk.num \in Nat
    BY <2>7, HeadIs
  <2>9. w.blk.guid = zhDisk.guid /\ w.blk.num = zhDisk.num + k
    BY <1>k, <2>5, <2>6, <2>8 DEF SameChain
  <2>10. \A v \in Chain : Before(v, w) => v.blk \in ChainOf(D) /\ Valid(v.blk, D)
    <3> SUFFICES ASSUME NEW v \in Chain, Before(v, w) PROVE v.blk \in ChainOf(D) /\ Valid(v.blk, D)
      OBVIOUS
    <3>1. v.blk.num \in Nat /\ u.blk.num \in Nat
      BY ChainType, LwbFields DEF IInv
    <3>2. SameChain(v, u) /\ (v.blk.num < u.blk.num \/ v.blk.num = u.blk.num)
      BY <2>6, <3>1 DEF Before, SameChain
    <3>3. Before(v, u) \/ v = u
      BY <3>2 DEF IInv, LinkInv, Before
    <3> QED
      BY <1>c, <2>1, <2>3, <2>5, <3>3
  <2>11. Found(f[k], k, D)
    BY <2>6, <2>9, <2>10 DEF Found
  <2> QED
    BY <1>k, <2>11
<1> QED
  BY <1>2, <1>3

\* The chain of the header has an lwb at every place up to one of its lwbs.
LEMMA NoGap ==
  ASSUME IInv, zhDisk # Hole, NEW w \in Chain, w.blk.guid = zhDisk.guid, NEW k \in Nat, w.blk.num = zhDisk.num + k
  PROVE  \A i \in 0..k : \E v \in Chain : v.blk.guid = zhDisk.guid /\ v.blk.num = zhDisk.num + i
<1> DEFINE P(i) == \E v \in Chain : v.blk.guid = zhDisk.guid /\ v.blk.num = zhDisk.num + i
<1> DEFINE S == {i \in 0..k : ~P(i)}
<1> SUFFICES ASSUME S # {} PROVE FALSE
  OBVIOUS
<1>1. PICK m \in S : \A y \in S : m <= y
  <2>1. S \in SUBSET Nat
    OBVIOUS
  <2> HIDE DEF S
  <2> QED
    BY <2>1, Least
<1>2. zhDisk.num \in Nat /\ \A v \in Chain : v.blk.num \in Nat
  BY HeadIs, ChainType, LwbFields DEF IInv
<1>3. m # 0
  <2>1. PICK v \in Chain : v.blk = zhDisk
    BY HeadIs
  <2>2. v.blk.num = zhDisk.num + 0
    BY <1>2, <2>1
  <2>3. P(0)
    BY <2>1, <2>2
  <2> QED
    BY <1>1, <2>3
<1>4. m \in Nat /\ m <= k /\ m - 1 \in 0..k /\ m - 1 < m /\ m - 1 \in Nat
  BY <1>1, <1>3
<1>5. m - 1 \notin S
  BY <1>1, <1>4
<1>6. PICK u \in Chain : u.blk.guid = zhDisk.guid /\ u.blk.num = zhDisk.num + (m - 1)
  BY <1>4, <1>5
<1>7. Before(u, w)
  <2>1. u.blk.num < w.blk.num
    BY <1>2, <1>4, <1>6
  <2> QED
    BY <1>6, <2>1 DEF Before, SameChain
<1>8. u.next # Hole
  BY <1>7 DEF IInv, LinkInv
<1>9. PICK v \in Chain : v.blk = u.next
  BY <1>8 DEF IInv, LinkInv
<1>10. v.blk.guid = u.blk.guid /\ v.blk.num = u.blk.num + 1
  BY <1>8, <1>9 DEF IInv, LinkInv
<1>11. v.blk.num = zhDisk.num + m
  BY <1>2, <1>4, <1>6, <1>10
<1>12. P(m)
  BY <1>6, <1>10, <1>11
<1> QED
  BY <1>1, <1>12

\* The chain is not longer than the number of blocks, so that zil_parse() comes to
\* its end.
LEMMA ShortChain ==
  ASSUME IInv, zhDisk # Hole, NEW w \in Chain, w.blk.guid = zhDisk.guid, NEW k \in Nat, w.blk.num = zhDisk.num + k
  PROVE  k + 1 <= Cardinality(DVAs)
<1>1. Cardinality(DVAs) \in Nat /\ IsFiniteSet(0..k) /\ Cardinality(0..k) = k + 1
  <2>1. Cardinality(DVAs) \in Nat
    BY FiniteAssumption, FS_CardinalityType
  <2>2. 0 \in Int /\ k \in Int /\ ~(0 > k) /\ k - 0 + 1 = k + 1
    OBVIOUS
  <2>3. IsFiniteSet(0..k) /\ Cardinality(0..k) = IF 0 > k THEN 0 ELSE k - 0 + 1
    BY <2>2, FS_Interval, Zenon
  <2> QED
    BY <2>1, <2>2, <2>3
<1> SUFFICES ASSUME Cardinality(DVAs) < k + 1 PROVE FALSE
  BY <1>1
<1> DEFINE Pos(i) == CHOOSE v \in Chain : v.blk.guid = zhDisk.guid /\ v.blk.num = zhDisk.num + i
<1>2. \A i \in 0..k : Pos(i) \in Chain /\ Pos(i).blk.guid = zhDisk.guid /\ Pos(i).blk.num = zhDisk.num + i
  BY NoGap
<1> HIDE DEF Pos
<1>3. PICK g : g = [i \in 0..k |-> Pos(i).blk.dva]
  OBVIOUS
<1>4. \A v \in Chain : v.blk.dva \in DVAs
  BY ChainType, LwbFields DEF IInv
<1>5. g \in [0..k -> DVAs]
  BY <1>2, <1>3, <1>4
<1>6. PICK i \in 0..k, j \in 0..k : i # j /\ g[i] = g[j]
  BY <1>1, <1>5, FiniteAssumption, FS_PigeonHole
<1>7. Pos(i) = Pos(j)
  BY <1>2, <1>3, <1>6 DEF IInv, SpaceInv
<1>8. zhDisk.num \in Nat
  BY HeadIs
<1> QED
  BY <1>2, <1>6, <1>7, <1>8

\* A block of the log is found if those before it, as far as they are found, are valid.
LEMMA Reach ==
  ASSUME IInv, NEW D, NEW w \in Chain, w.blk.guid = zhDisk.guid,
         \A v \in Chain : Before(v, w) /\ v.blk \in ChainOf(D) => Valid(v.blk, D)
  PROVE  w.blk \in ChainOf(D)
<1>1. zhDisk # Hole
  <2>1. Hole.guid = 0
    BY DEF Hole
  <2>2. w.blk.guid # 0
    BY ChainType, LwbFields DEF IInv
  <2> QED
    BY <2>1, <2>2
<1>2. w.blk.num >= zhDisk.num /\ w.blk.num \in Nat /\ zhDisk.num \in Nat
  BY <1>1, HeadIs, ChainType, LwbFields DEF IInv, HeadInv
<1>3. PICK k : k = w.blk.num - zhDisk.num
  OBVIOUS
<1>4. k \in Nat /\ w.blk.num = zhDisk.num + k
  BY <1>2, <1>3
<1>n. PICK N : N = Cardinality(DVAs)
  OBVIOUS
<1>5. N \in Nat /\ k + 1 <= N
  BY <1>n, <1>1, <1>4, ShortChain, ChainOfIs
<1>6. PICK f : /\ ChainOf(D) = {f[i] : i \in 0..N} \ {Hole} /\ f[0] = zhDisk
               /\ \A i \in 1..N : f[i] = NextOf(f[i - 1], D)
  BY <1>n, ChainOfIs
<1>7. \A i \in 0..N : f[i] # Hole => Found(f[i], i, D)
  BY <1>n, <1>6, WalkFinds
<1>8. \A i \in 0..N : f[i] # Hole => f[i] \in ChainOf(D)
  BY <1>6
<1>9. \A i \in 0..k : f[i] # Hole
  <2> DEFINE S == {i \in 0..k : f[i] = Hole}
  <2> SUFFICES ASSUME S # {} PROVE FALSE
    OBVIOUS
  <2>1. PICK m \in S : \A y \in S : m <= y
    <3>1. S \in SUBSET Nat
      BY <1>4
    <3> HIDE DEF S
    <3> QED
      BY <3>1, Least
  <2>2. m # 0
    BY <1>1, <1>6, <2>1
  <2>3. m \in 1..N /\ m - 1 \in 0..N /\ m - 1 \in 0..k /\ m - 1 < m /\ m <= k /\ m \in Nat
    BY <1>4, <1>5, <2>1, <2>2
  <2>4. f[m - 1] # Hole
    BY <2>1, <2>3
  <2>5. PICK v \in Chain : v.blk = f[m - 1] /\ v.blk.guid = zhDisk.guid /\ v.blk.num = zhDisk.num + (m - 1)
    BY <1>7, <2>3, <2>4 DEF Found
  <2>6. v.blk.num < w.blk.num
    BY <1>2, <1>4, <2>3, <2>5
  <2>7. Before(v, w)
    BY <2>5, <2>6 DEF Before, SameChain
  <2>8. Valid(v.blk, D)
    BY <1>8, <2>3, <2>4, <2>5, <2>7
  <2>9. NextOf(v.blk, D) # Hole
    BY <2>8 DEF NextOf, Valid
  <2> QED
    BY <1>6, <2>1, <2>3, <2>5, <2>9
<1>10. k \in 0..N /\ k \in 0..k
  BY <1>4, <1>5
<1>11. PICK v \in Chain : v.blk = f[k] /\ v.blk.guid = zhDisk.guid /\ v.blk.num = zhDisk.num + k
  BY <1>7, <1>9, <1>10 DEF Found
<1>12. v = w
  BY <1>4, <1>11 DEF IInv, LinkInv, SameChain
<1> QED
  BY <1>8, <1>9, <1>10, <1>11, <1>12

\* A block that is found is one of the log, and those before it are valid.
LEMMA FoundIs ==
  ASSUME IInv, NEW D, NEW b \in ChainOf(D)
  PROVE  \E w \in Chain : /\ w.blk = b
                          /\ \A v \in Chain : Before(v, w) => v.blk \in ChainOf(D) /\ Valid(v.blk, D)
<1>n. PICK N : N = Cardinality(DVAs)
  OBVIOUS
<1>1. PICK f : /\ ChainOf(D) = {f[i] : i \in 0..N} \ {Hole} /\ f[0] = zhDisk
               /\ \A i \in 1..N : f[i] = NextOf(f[i - 1], D)
  BY <1>n, ChainOfIs
<1>2. PICK i \in 0..N : b = f[i] /\ f[i] # Hole
  BY <1>1
<1>3. Found(b, i, D)
  BY <1>n, <1>1, <1>2, WalkFinds
<1> QED
  BY <1>3 DEF Found

LEMMA HeadFound ==
  ASSUME NEW D, zhDisk # Hole
  PROVE  zhDisk \in ChainOf(D)
<1>n. PICK N : N = Cardinality(DVAs)
  OBVIOUS
<1>1. N \in Nat
  BY <1>n, ChainOfIs
<1>2. PICK f : ChainOf(D) = {f[i] : i \in 0..N} \ {Hole} /\ f[0] = zhDisk
  BY <1>n, ChainOfIs
<1> QED
  BY <1>1, <1>2

-----------------------------------------------------------------------------
(* What a crash leaves: the theorems *)

\* A block that was written without an error, and survives, is read.
LEMMA Readable ==
  ASSUME IInv, NEW D \in Outcomes, NEW w \in Chain, w.zio \in {"released", "done"}, ~On(w).bad,
         On(w).stable \/ D = DVAs, w.next # Hole
  PROVE  Valid(w.blk, D) /\ On(w).recs = w.recs
<1>1. w.blk # Hole /\ w.blk.dva \in DVAs
  BY ChainType, LwbFields DEF IInv
<1>2. Match(w)
  BY DEF IInv, DiskInv
<1>3. w.blk.dva \in D
  BY <1>1 DEF Outcomes, Stable, On
<1> QED
  BY <1>1, <1>2, <1>3 DEF Valid, Match, On

\* The lwb of a new log is empty until zil_create() has seen it in the header.
LEMMA NewLog ==
  ASSUME IInv, At({"createwait"}), wlwb
  PROVE  lwbs[1].recs = {} /\ Birth(lwbs[1]) = until[writer]
<1>1. lwbs = <<Lwb(lwbs[1].blk, until[writer])>> /\ Birth(lwbs[1]) = until[writer]
  BY DEF IInv, WriterInv
<1>2. lwbs[1] = Lwb(lwbs[1].blk, until[writer])
  BY <1>1, OneIs
<1>3. \A b, t : Lwb(b, t).recs = {}
  BY DEF Lwb
<1> QED
  BY <1>1, <1>2, <1>3

\* The lwbs of the log are those that a crash can cut off.
LEMMA ChainLogged == Chain \subseteq LogBlocks
  BY DEF Chain, Alive, Kept, LogBlocks

LEMMA SurviveInv ==
  ASSUME IInv, ErrorInv
  PROVE  CommittedSurvive
<1> SUFFICES ASSUME NEW D \in Outcomes, NEW n \in promised, n \notin Durable,
                    \A w \in CutOff(D) : n \notin w.recs
             PROVE  n \in LogRecs(D)
  BY DEF CommittedSurvive
<1>1. PICK w \in Chain : n \in w.recs /\ Sealed(w)
  BY DEF IInv, LoopInv, Settled
<1>2. w.blk.guid = zhDisk.guid
  BY <1>1, NewLog DEF IInv, HeadInv
<1>3. \A v \in Chain : v.blk \in ChainOf(D) /\ (v = w \/ Before(v, w)) =>
        Valid(v.blk, D) /\ On(v).recs = v.recs
  <2> SUFFICES ASSUME NEW v \in Chain, v.blk \in ChainOf(D), v = w \/ Before(v, w)
               PROVE  Valid(v.blk, D) /\ On(v).recs = v.recs
    OBVIOUS
  <2>1. ~On(v).bad
    <3>1. v = w => ~On(v).bad
      <4>1. ~Pending(w)
        BY <1>1 DEF ErrorInv, Unpromised
      <4> QED
        BY <4>1 DEF Pending
    <3>2. Before(v, w) /\ On(v).bad => w \in CutOff(D)
      BY ChainLogged DEF CutOff, On, Before, SameChain
    <3> QED
      BY <1>1, <3>1, <3>2
  <2>2. v.zio = "done" /\ On(v).stable /\ v.next # Hole
    BY <1>1, <2>1 DEF Sealed
  <2> QED
    BY <2>1, <2>2, Readable
<1>4. w.blk \in ChainOf(D)
  BY <1>2, <1>3, Reach
<1>5. Valid(w.blk, D) /\ n \in disk[w.blk.dva].recs
  BY <1>1, <1>3, <1>4 DEF On
<1> QED
  BY <1>4, <1>5 DEF LogRecs

\* The records of every zil_commit() that returned are in a synced txg or in the blocks
\* that zil_parse() will find, whenever power fails: a write in flight, a failed write
\* after which the txg was waited for, a freed block or a new chain do not hide them.
\* Only those put behind a block whose write had failed before may be lost (CutOff).
THEOREM CommittedSurvives == Spec => []CommittedSurvive
  BY Invariant, Errors, SurviveInv, PTL

LEMMA LeakInv ==
  ASSUME IInv
  PROVE  NoLeak
<1> SUFFICES ASSUME NEW D \in Outcomes, Unflushed => D = DVAs, NEW d \in DVAs, space[d].birth \in 1..floor,
                    space[d].freed \notin 1..floor, \A w \in CutOff(D) : w.blk.dva # d
             PROVE  \E b \in ChainOf(D) : b.dva = d
  BY DEF NoLeak
<1>1. floor \in Nat /\ space[d].birth # 0
  BY DEF IInv, TypeInv
<1>2. PICK w \in Chain : w.blk.dva = d
  BY <1>1 DEF IInv, SpaceInv
<1>3. Birth(w) <= floor /\ Birth(w) \in Nat
  BY <1>1, <1>2 DEF Birth
<1>4. CASE w.blk.guid = zhDisk.guid
  <2>1. \A v \in Chain : Before(v, w) /\ v.blk \in ChainOf(D) => Valid(v.blk, D)
    <3> SUFFICES ASSUME NEW v \in Chain, Before(v, w), v.blk \in ChainOf(D) PROVE Valid(v.blk, D)
      OBVIOUS
    <3>1. ~On(v).bad
      <4>1. On(v).bad => w \in CutOff(D)
        BY ChainLogged DEF CutOff, On, Before, SameChain
      <4> QED
        BY <1>2, <4>1
    <3>2. v.zio \in {"released", "failed", "done"}
      BY <1>3 DEF IInv, BirthInv
    <3>3. v.zio \in {"released", "done"}
      BY <3>1, <3>2 DEF IInv, DiskInv
    <3>4. v.next # Hole
      BY DEF IInv, LinkInv
    <3>5. On(v).stable \/ D = DVAs
      <4>1. root /\ Working => Unflushed
        BY DEF Unflushed, Working, At, IInv, TypeInv
      <4> QED
        BY <3>1, <3>3, <3>4, <4>1 DEF IInv, DiskInv
    <3> QED
      BY <3>1, <3>3, <3>4, <3>5, Readable
  <2>2. w.blk \in ChainOf(D)
    BY <1>4, <2>1, Reach
  <2> QED
    BY <1>2, <2>2
<1>5. CASE w.blk.guid # zhDisk.guid
  <2>1. At({"createwait"}) /\ wlwb /\ w = lwbs[1]
    BY <1>5 DEF IInv, HeadInv
  <2>2. until[writer] = Birth(w)
    BY <2>1, NewLog
  <2>3. w.blk = zhDisk
    BY <1>1, <1>3, <2>1, <2>2 DEF IInv, HeadInv
  <2> QED
    BY <1>5, <2>3
<1> QED
  BY <1>4, <1>5

\* A block that is allocated in the last synced txg, and not freed in it, is found
\* from the header of that txg: a crash leaks none, for zil_lwb_write_start() holds
\* the txg in which the next block is allocated until the block before it is written.
\* Excepted are blocks behind a failed write, and power losses before zil_flush_vdevs().
THEOREM NothingLeaks == Spec => []NoLeak
  BY Invariant, LeakInv, PTL

LEMMA ClosedInv ==
  ASSUME IInv
  PROVE  LogClosed
<1> SUFFICES ASSUME NEW D \in Outcomes, NEW n \in LogRecs(D) \ Durable, NEW m \in 1..(n - 1),
                    itxs[m].file \in {itxs[n].file, AnyFile}, m \notin Durable
             PROVE  m \in LogRecs(D)
  BY DEF LogClosed
<1>1. PICK b \in ChainOf(D) : Valid(b, D) /\ n \in disk[b.dva].recs
  BY DEF LogRecs
<1>2. PICK w \in Chain : /\ w.blk = b
                         /\ \A v \in Chain : Before(v, w) => v.blk \in ChainOf(D) /\ Valid(v.blk, D)
  BY FoundIs
<1>3. n \in w.recs
  BY <1>1, <1>2, ValidIs DEF On
<1>4. PICK v \in Chain : m \in v.recs /\ (v = w \/ Before(v, w))
  BY <1>3 DEF IInv, OrderInv
<1>5. v.blk \in ChainOf(D) /\ Valid(v.blk, D)
  BY <1>1, <1>2, <1>4
<1>6. m \in disk[v.blk.dva].recs
  BY <1>4, <1>5, ValidIs DEF On
<1> QED
  BY <1>5, <1>6 DEF LogRecs

\* A record that will be replayed comes with the earlier ones of its file and the
\* earlier namespace operations: zil_commit_writer() pushes them in order, and the
\* blocks after one that is lost are not read.
THEOREM LogIsClosed == Spec => []LogClosed
  BY Invariant, ClosedInv, PTL
=============================================================================

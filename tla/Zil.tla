-------------------------------- MODULE Zil --------------------------------
(***************************************************************************)
(* The intent log of a dataset in operation (uts/common/fs/zfs/zil.c).     *)
(* System calls leave a record of what they did in memory (an itx);        *)
(* zil_commit() puts the records that an fsync() needs into log write      *)
(* buffers (lwbs), each with a pointer to the block allocated for the next *)
(* one, and waits until they are on disk; zil_sync() frees the blocks that *)
(* a synced txg made useless and writes the header; zil_suspend() empties  *)
(* the log for a snapshot.  Txgs behave as TxgService says.                *)
(*                                                                         *)
(* What a crash leaves is a function of the state: the header of the last  *)
(* synced txg and the blocks in stable storage.  The properties are about  *)
(* that; recovery itself is the subject of ZilReplay.                      *)
(***************************************************************************)
EXTENDS Integers, FiniteSets, Sequences

CONSTANTS Threads,      \* threads that change files and call fsync()
          Suspenders,   \* threads that take snapshots
          Nobody,
          Files,        \* lr_foid of the records of writes
          AnyFile,          \* the "file" of the records that every commit pushes
          BigFiles,     \* files whose records are larger than a log block
          DVAs,         \* where log blocks can be allocated
          Cap,          \* records that fit in a log block
          TxgInit

Callers == Threads \cup Suspenders

ASSUME NamesAssumption ==
  /\ Threads \cap Suspenders = {} /\ Callers \cap DVAs = {} /\ Nobody \notin Callers \cup DVAs
  /\ AnyFile \notin Files /\ BigFiles \subseteq Files
ASSUME CapAssumption == Cap \in Nat \ {0}
ASSUME FiniteAssumption == IsFiniteSet(Suspenders) /\ IsFiniteSet(DVAs)
ASSUME TxgInitAssumption == TxgInit \in Nat /\ TxgInit >= 4    \* TXG_INITIAL

VARIABLES
  open, floor, holders, dirtied, durable,   \* the txg engine
  pc, seq, foid, until, \* callers: position, arguments, txg waited for
  itxs,                 \* file and txg of all itxs; zl_itx_seq is its length
  itxList,              \* zl_itx_list, which is in the order of lrc_seq
  lwbs,                 \* zl_lwb_list
  writer, commitSeq,    \* zl_writer, zl_commit_seq
  wlwb, wnext, wcommit, \* zil_commit_writer(): lwb # NULL, itx_next, commit_seq
  root, logError,       \* zl_root_zio # NULL, zl_log_error
  destroyTxg, suspend, suspending,
  zh, zhDisk, synced,   \* zh_log, in memory and in the last synced txg
  space, chain,         \* allocation of the blocks; GUIDs used for chains
  disk,                 \* contents of the blocks
  promised,             \* history: records for which zil_commit() returned
  dead                  \* history: lwbs freed in a txg that is not on disk yet

svc == <<open, floor, holders, dirtied, durable>>
call == <<seq, foid>>
wvars == <<wlwb, wnext, wcommit, root>>
susp == <<destroyTxg, suspend, suspending>>
header == <<zh, zhDisk, synced>>
pool == <<space, chain, disk>>
vars == <<svc, pc, call, until, itxs, itxList, lwbs, writer, commitSeq, wvars,
          logError, susp, header, pool, promised, dead>>

Engine == INSTANCE TxgService WITH Clients <- Callers \cup DVAs, Objs <- Nat

TXG_INITIAL == 4
Seqs == 1..Len(itxs)

\* block pointers: an address, and the GUID and number that blocks of the
\* chain carry in their checksum
Hole == [dva |-> Nobody, guid |-> 0, num |-> 0]
Blk(d, g, n) == [dva |-> d, guid |-> g, num |-> n]

\* an lwb; next is the pointer in the trailer of its block
Lwb(b, t) ==
  [blk |-> b, recs |-> {}, next |-> Hole, buf |-> TRUE, maxTxg |-> t, zio |-> "none"]

Last(s) == s[Len(s)]
Members(s) == {s[i] : i \in DOMAIN s}
MinOf(S) == CHOOSE n \in S : \A m \in S : n <= m

\* allocation: a freed block is used again only after the txg is synced
Usable == {d \in DVAs : space[d].birth = 0 \/ space[d].freed \in 1..floor}
Alloc(d, t) == [space EXCEPT ![d] = [birth |-> t, freed |-> 0]]
Freed(D, t) == [d \in DVAs |-> IF d \in D THEN [space[d] EXCEPT !.freed = t] ELSE space[d]]

\* The log has no block, or the one kept when an empty log was mounted.
Init ==
  /\ Engine!Init
  /\ pc = [c \in Callers |-> "idle"] /\ seq = [c \in Callers |-> 0]
  /\ foid = [c \in Callers |-> AnyFile] /\ until = [c \in Callers |-> 0]
  /\ itxs = << >> /\ itxList = {} /\ lwbs = << >>
  /\ writer = Nobody /\ commitSeq = 0
  /\ wlwb = FALSE /\ wnext = 0 /\ wcommit = 0 /\ root = FALSE /\ logError = FALSE
  /\ destroyTxg = TXG_INITIAL - 1 /\ suspend = 0 /\ suspending = FALSE
  /\ \E first \in DVAs \cup {Nobody} :
       /\ zh = IF first = Nobody THEN Hole ELSE Blk(first, 1, 1)
       /\ space = [d \in DVAs |-> [birth |-> IF d = first THEN floor ELSE 0, freed |-> 0]]
  /\ zhDisk = zh /\ synced = FALSE
  /\ chain = 1
  /\ disk = [d \in DVAs |-> [blk |-> Hole, recs |-> {}, next |-> Hole,
                             stable |-> TRUE, bad |-> FALSE]]
  /\ promised = {} /\ dead = {}

Goto(c, l) == pc' = [pc EXCEPT ![c] = l]
SetUntil(c, t) == until' = [until EXCEPT ![c] = t]

\* txg_wait_synced() returns
Synced(c) == floor >= until[c]

-----------------------------------------------------------------------------
(* System calls that change a file: a transaction and its record *)

Begin(c) ==
  /\ pc[c] = "idle"
  /\ Engine!Enter(c)
  /\ SetUntil(c, open) /\ Goto(c, "tx")
  /\ UNCHANGED <<call, itxs, itxList, lwbs, writer, commitSeq, wvars, logError, susp,
                 header, pool, promised, dead>>

\* zil_itx_assign() by a thread inside txg until[c], which it then leaves
ItxAssign(c, f) ==
  /\ pc[c] = "tx"
  /\ itxs' = Append(itxs, [file |-> f, txg |-> until[c]])
  /\ itxList' = itxList \cup {Len(itxs) + 1}
  /\ dirtied' = dirtied \cup {<<Len(itxs) + 1, until[c]>>}
  /\ holders' = {h \in holders : h[1] # c}
  /\ SetUntil(c, 0) /\ Goto(c, "idle")
  /\ UNCHANGED <<open, floor, durable, call, lwbs, writer, commitSeq, wvars, logError,
                 susp, header, pool, promised, dead>>

-----------------------------------------------------------------------------
(* zil_commit() *)

\* fsync() of a file: up to its last record; sync(): up to the last record
Fsync(c, f) ==
  /\ pc[c] = "idle"
  /\ \E n \in Seqs :
       /\ f \in {AnyFile, itxs[n].file}
       /\ \A m \in Seqs : f \in {AnyFile, itxs[m].file} => m <= n
       /\ seq' = [seq EXCEPT ![c] = n]
  /\ foid' = [foid EXCEPT ![c] = f]
  /\ Goto(c, "commit")
  /\ UNCHANGED <<svc, until, itxs, itxList, lwbs, writer, commitSeq, wvars, logError,
                 susp, header, pool, promised, dead>>

\* the records that are pushed for a file
SameFile(n, f) == f = AnyFile \/ itxs[n].file = f             \* mutant
Matches(n, f) == f = AnyFile \/ itxs[n].file \in {f, AnyFile}

\* cv_broadcast(&zl_cv_writer), and the end of zil_commit() for c
WakeAll == [t \in Callers |-> IF pc[t] = "cvwait" THEN "woken" ELSE pc[t]]
After(c) == IF c \in Suspenders THEN "drain" ELSE "idle"
Keep(c) ==
  /\ promised' = promised \cup {n \in Seqs : n <= seq[c] /\ Matches(n, foid[c])}
  /\ seq' = [seq EXCEPT ![c] = 0] /\ foid' = [foid EXCEPT ![c] = AnyFile]

\* zil_commit_writer() up to the loop, under zl_lock
SuspendedTwice == suspend > 1                                 \* mutant
Suspended == suspend > 0
StartWriter(c) ==
  /\ writer = Nobody
  /\ IF lwbs = << >> /\ itxList = {} /\ ~Suspended
     THEN /\ pc' = [WakeAll EXCEPT ![c] = After(c)] /\ Keep(c)
          /\ UNCHANGED <<writer, wvars>>
     ELSE /\ writer' = c
          /\ wlwb' = (lwbs # << >> /\ ~Suspended)
          /\ wnext' = 0 /\ wcommit' = 0 /\ root' = FALSE
          /\ Goto(c, IF lwbs = << >> /\ ~Suspended THEN "create" ELSE "fill")
          /\ UNCHANGED <<call, promised>>

Wait(c) ==
  /\ writer # Nobody
  /\ Goto(c, "cvwait")
  /\ UNCHANGED <<call, writer, wvars, promised>>

CommittedUpTo(c) == seq[c] <= commitSeq                       \* mutant
OtherCommitted(c) == seq[c] < commitSeq

Commit(c) ==
  /\ \/ pc[c] = "commit" /\ (StartWriter(c) \/ Wait(c))
     \/ pc[c] = "woken" /\ ~OtherCommitted(c) /\ (StartWriter(c) \/ Wait(c))
     \/ pc[c] = "woken" /\ OtherCommitted(c)
          /\ Goto(c, After(c)) /\ Keep(c) /\ UNCHANGED <<writer, wvars>>
  /\ UNCHANGED <<svc, until, itxs, itxList, lwbs, commitSeq, logError, susp,
                 header, pool, dead>>

-----------------------------------------------------------------------------
(* zil_create(), without zl_lock *)

\* wait for a destroy, then take the block that the header has or allocate one,
\* at address d; wait until zil_sync() has put it into the header
Create(c, d) ==
  /\ pc[c] = "create" /\ floor >= destroyTxg
  /\ IF zh # Hole
     THEN /\ d = zh.dva
          /\ lwbs' = <<Lwb(zh, 0)>> /\ wlwb' = TRUE
          /\ Goto(c, "fill")
          /\ UNCHANGED <<until, dirtied, space, chain>>
     ELSE /\ d \in Usable \cup {Nobody}
          /\ dirtied' = dirtied \cup {<<0, open>>}
          /\ SetUntil(c, open) /\ Goto(c, "createwait")
          /\ wlwb' = (d # Nobody)
          /\ IF d = Nobody THEN UNCHANGED <<lwbs, space, chain>>
             ELSE /\ lwbs' = <<Lwb(Blk(d, chain + 1, 1), open)>>
                  /\ space' = Alloc(d, open) /\ chain' = chain + 1
  /\ UNCHANGED <<open, floor, holders, durable, call, itxs, itxList, writer, commitSeq,
                 wnext, wcommit, root, logError, susp, header, disk, promised, dead>>

CreateDone(c) ==
  /\ pc[c] = "createwait" /\ Synced(c)
  /\ SetUntil(c, 0) /\ Goto(c, "fill")
  /\ UNCHANGED <<svc, call, itxs, itxList, lwbs, writer, commitSeq, wvars,
                 logError, susp, header, pool, promised, dead>>

-----------------------------------------------------------------------------
(* zil_commit_writer(): the loop over the itxs, and zil_lwb_commit() *)

Size(n) == IF itxs[n].file \in BigFiles THEN Cap + 1 ELSE 1
Fits(n, w) == Cardinality(w.recs) + Size(n) <= Cap

\* zil_lwb_write_init()
Inited(w) == [w EXCEPT !.zio = IF @ = "none" THEN "init" ELSE @]
Copied(w, n) ==
  [w EXCEPT !.recs = @ \cup {n},
            !.maxTxg = IF @ < itxs[n].txg THEN itxs[n].txg ELSE @]

SetLast(L, w) == [L EXCEPT ![Len(L)] = w]

\* the lwbs after zil_lwb_write_start(), when the next block is at d
Started(L, d) ==
  LET w == Last(L)
      b == IF d = Nobody THEN Hole ELSE Blk(d, w.blk.guid, w.blk.num + 1)
      M == SetLast(L, [w EXCEPT !.zio = "io", !.next = b])
  IN  IF d = Nobody THEN M ELSE Append(M, Lwb(b, open))

\* zil_lwb_write_start(): hold the open txg until the block is written; without
\* a next block the dataset is dirtied and lwb becomes NULL
NotHeld == holders                                            \* mutant
TxgHeld == holders \cup {<<Last(lwbs).blk.dva, open>>}

WriteStart(d) ==
  /\ d \in Usable \cup {Nobody}
  /\ holders' = TxgHeld
  /\ wlwb' = (d # Nobody)
  /\ IF d = Nobody
     THEN dirtied' = dirtied \cup {<<0, open>>} /\ UNCHANGED space
     ELSE space' = Alloc(d, open) /\ UNCHANGED dirtied

\* a NULL lwb_buf: the ASSERT in zil_lwb_commit(), and a panic without it, which
\* stops the machine
Panic == writer # Nobody /\ wlwb /\ ~Last(lwbs).buf

\* the next itx to push: itx_next is the place in the list, -1 at its end
Pushable(c) == {n \in itxList : wnext # -1 /\ n >= wnext /\ Matches(n, foid[c])}
Stop(c) ==
  Pushable(c) # {} =>
    LET n == MinOf(Pushable(c)) IN
    n > seq[c] /\ (wlwb => Last(lwbs).recs = {} \/ ~Fits(n, Last(lwbs)))

\* take the next itx off the list; zl_lock is dropped, but zl_writer keeps others
\* away, so the step goes on to the end of zil_lwb_commit()
Take(n) ==
  LET rest == {m \in itxList : m > n} IN
  /\ itxList' = itxList \ {n}
  /\ wnext' = IF rest = {} THEN -1 ELSE MinOf(rest)

Push(c, d) ==
  LET n == MinOf(Pushable(c))
      w == Inited(Last(lwbs))
  IN
  /\ pc[c] = "fill" /\ ~Stop(c)
  /\ Take(n)
  /\ \/ /\ itxs[n].txg <= floor \/ ~wlwb
        /\ d = Nobody
        /\ UNCHANGED <<holders, dirtied, pc, until, lwbs, wlwb, root, space>>
     \/ /\ itxs[n].txg > floor /\ wlwb /\ Fits(n, w)
        /\ d = Nobody
        /\ lwbs' = SetLast(lwbs, Copied(w, n)) /\ root' = TRUE
        /\ UNCHANGED <<holders, dirtied, pc, until, wlwb, space>>
     \/ /\ itxs[n].txg > floor /\ wlwb /\ ~Fits(n, w)
        /\ WriteStart(d) /\ root' = TRUE
        /\ LET L == Started(SetLast(lwbs, w), d)
               v == Inited(Last(L))
           IN  lwbs' = IF d = Nobody THEN L
                       ELSE SetLast(L, IF Size(n) > Cap THEN v ELSE Copied(v, n))
        /\ IF d # Nobody /\ Size(n) > Cap
           THEN SetUntil(c, itxs[n].txg) /\ Goto(c, "bigwait")
           ELSE UNCHANGED <<pc, until>>
  /\ UNCHANGED <<open, floor, durable, call, itxs, writer, commitSeq, wcommit,
                 logError, susp, header, chain, disk, promised, dead>>

\* a record larger than a block: txg_wait_synced() instead
BigDone(c) ==
  /\ pc[c] = "bigwait" /\ Synced(c)
  /\ SetUntil(c, 0) /\ Goto(c, "fill")
  /\ UNCHANGED <<svc, call, itxs, itxList, lwbs, writer, commitSeq, wvars,
                 logError, susp, header, pool, promised, dead>>

\* the end of the loop: what is committed, and the write of the last block
FirstLeft == IF itxList = {} THEN Len(itxs) ELSE MinOf(itxList)

LastWrite(c, d) ==
  /\ pc[c] = "fill" /\ Stop(c)
  /\ wcommit' = FirstLeft
  /\ IF wlwb /\ Last(lwbs).zio # "none"
     THEN WriteStart(d) /\ lwbs' = Started(lwbs, d)
     ELSE d = Nobody /\ UNCHANGED <<holders, dirtied, space, wlwb, lwbs>>
  /\ Goto(c, "zio")
  /\ UNCHANGED <<open, floor, durable, call, until, itxs, itxList, writer, commitSeq,
                 wnext, root, logError, susp, header, chain, disk, promised, dead>>

\* zio_wait(zl_root_zio) and zil_flush_vdevs(), which flushes the devices of the
\* blocks that have a next block
Flushed == [d \in DVAs |-> [disk[d] EXCEPT !.stable = @ \/ disk[d].next # Hole]]

\* log writes that failed, and a next block that could not be allocated
LwbLost == ~wlwb                                              \* mutant
LogLost == logError \/ ~wlwb

ZioWait(c) ==
  /\ pc[c] = "zio"
  /\ \A i \in DOMAIN lwbs : lwbs[i].zio \notin {"io", "released", "failed"}
  /\ disk' = IF root THEN Flushed ELSE disk
  /\ logError' = FALSE
  /\ IF LogLost THEN SetUntil(c, open) ELSE SetUntil(c, 0)
  /\ Goto(c, "finish")
  /\ UNCHANGED <<svc, call, itxs, itxList, lwbs, writer, commitSeq, wvars, susp, header,
                 space, chain, promised, dead>>

Finish(c) ==
  /\ pc[c] = "finish" /\ Synced(c)
  /\ writer' = Nobody /\ commitSeq' = wcommit
  /\ pc' = [WakeAll EXCEPT ![c] = After(c)] /\ Keep(c) /\ SetUntil(c, 0)
  /\ wlwb' = FALSE /\ wnext' = 0 /\ wcommit' = 0 /\ root' = FALSE
  /\ UNCHANGED <<svc, itxs, itxList, lwbs, logError, susp, header, pool, dead>>

-----------------------------------------------------------------------------
(* zil_lwb_write_done(), in interrupt context: the txg is released, and then  *)
(* the buffer is freed under zl_lock                                         *)

Released(i, z) ==
  /\ lwbs[i].zio = "io"
  /\ holders' = {h \in holders : h[1] # lwbs[i].blk.dva}
  /\ lwbs' = [lwbs EXCEPT ![i].zio = z]
  /\ UNCHANGED <<open, floor, dirtied, durable, pc, call, until, itxs, itxList, writer,
                 commitSeq, wvars, logError, susp, header, space, chain, promised, dead>>

WriteDone(i) ==
  /\ Released(i, "released")
  /\ disk' = [disk EXCEPT ![lwbs[i].blk.dva] =
       [blk |-> lwbs[i].blk, recs |-> lwbs[i].recs, next |-> lwbs[i].next,
        stable |-> FALSE, bad |-> FALSE]]

WriteFailed(i) ==
  /\ Released(i, "failed")
  /\ disk' = [disk EXCEPT ![lwbs[i].blk.dva].bad = TRUE]

BufFree(i) ==
  /\ lwbs[i].zio \in {"released", "failed"}
  /\ lwbs' = [lwbs EXCEPT ![i].zio = "done", ![i].buf = FALSE]
  /\ logError' = (logError \/ lwbs[i].zio = "failed")
  /\ UNCHANGED <<svc, pc, call, until, itxs, itxList, writer, commitSeq, wvars, susp,
                 header, pool, promised, dead>>

-----------------------------------------------------------------------------
(* zil_suspend(), zil_resume() and the zil_destroy() between them *)

Suspend(c) ==
  /\ pc[c] = "idle"
  /\ suspend' = suspend + 1
  /\ IF suspend = 0
     THEN /\ suspending' = TRUE /\ Goto(c, "commit")
          /\ seq' = [seq EXCEPT ![c] = Len(itxs)]
     ELSE Goto(c, "suspwait") /\ UNCHANGED <<suspending, seq>>
  /\ UNCHANGED <<svc, foid, until, itxs, itxList, lwbs, writer, commitSeq, wvars,
                 logError, destroyTxg, header, pool, promised, dead>>

\* wait for log writes in flight, and in zil_destroy() for a destroy before
Drained(c) ==
  /\ pc[c] = "drain" /\ writer = Nobody
  /\ SetUntil(c, destroyTxg) /\ Goto(c, "destroy")
  /\ UNCHANGED <<svc, call, itxs, itxList, lwbs, writer, commitSeq, wvars, logError,
                 susp, header, pool, promised, dead>>

\* zil_destroy(): in one txg, free the blocks of the lwbs, or of the chain when
\* there is none, and let zil_sync() clear the header
Destroy(c) ==
  /\ pc[c] = "destroy" /\ Synced(c)
  /\ IF zh = Hole
     THEN UNCHANGED <<dirtied, destroyTxg, lwbs, space, dead>>
     ELSE LET log == IF lwbs = << >> THEN {Lwb(zh, 0)} ELSE Members(lwbs) IN
          /\ dirtied' = dirtied \cup {<<0, open>>} /\ destroyTxg' = open
          /\ lwbs' = << >>
          /\ space' = Freed({w.blk.dva : w \in log}, open)
          /\ dead' = dead \cup log
  /\ suspending' = FALSE
  /\ SetUntil(c, 0) /\ Goto(c, "suspended")
  /\ UNCHANGED <<open, floor, holders, durable, call, itxs, itxList, writer,
                 commitSeq, wvars, logError, suspend, header, chain, disk, promised>>

SuspendWaited(c) ==
  /\ pc[c] = "suspwait" /\ ~suspending
  /\ Goto(c, "suspended")
  /\ UNCHANGED <<svc, call, until, itxs, itxList, lwbs, writer, commitSeq, wvars,
                 logError, susp, header, pool, promised, dead>>

Resume(c) ==
  /\ pc[c] = "suspended"
  /\ suspend' = suspend - 1
  /\ Goto(c, "idle")
  /\ UNCHANGED <<svc, call, until, itxs, itxList, lwbs, writer, commitSeq, wvars,
                 logError, destroyTxg, suspending, header, pool, promised, dead>>

-----------------------------------------------------------------------------
(* Syncing context *)

Syncing == floor + 1
InSync == Syncing < open /\ \A h \in holders : h[2] > Syncing
Dirty(t) == \E x \in dirtied : x[2] = t

\* lwbs that the txg makes useless
Useless(w) == ~w.buf /\ w.maxTxg <= Syncing

\* the header when the first k lwbs are freed: it is cleared after a destroy, and
\* when an allocation failure leaves no lwb
HeaderKept(k) ==                                              \* mutant
  IF k < Len(lwbs) THEN lwbs[k + 1].blk
  ELSE IF destroyTxg = Syncing THEN Hole
  ELSE IF k > 0 THEN lwbs[k].blk ELSE zh
HeaderAfter(k) ==
  IF k < Len(lwbs) THEN lwbs[k + 1].blk
  ELSE IF k > 0 \/ destroyTxg = Syncing THEN Hole ELSE zh

\* zil_sync(): the lwbs at the head of the list that are written and not needed
\* any more are freed
ZilSync ==
  LET k == CHOOSE i \in 0..Len(lwbs) :
             /\ \A j \in 1..i : Useless(lwbs[j])
             /\ i < Len(lwbs) => ~Useless(lwbs[i + 1])
  IN
  /\ InSync /\ ~synced /\ Dirty(Syncing)
  /\ synced' = TRUE
  /\ lwbs' = SubSeq(lwbs, k + 1, Len(lwbs))
  /\ space' = Freed({lwbs[i].blk.dva : i \in 1..k}, Syncing)
  /\ dead' = dead \cup {lwbs[i] : i \in 1..k}
  /\ zh' = HeaderAfter(k)
  /\ UNCHANGED <<svc, pc, call, until, itxs, itxList, writer, commitSeq, wvars, logError,
                 susp, zhDisk, chain, disk, promised>>

OpenTxg ==
  /\ Engine!OpenNext
  /\ UNCHANGED <<pc, call, until, itxs, itxList, lwbs, writer, commitSeq, wvars, logError,
                 susp, header, pool, promised, dead>>

\* vdev_config_sync(): before the uberblock is written, the write caches of the
\* devices on the list of the txg are flushed, those with a block allocated or
\* freed in it; F are the blocks on these devices
TxgFlushed(F) ==
  /\ {d \in DVAs : Syncing \in {space[d].birth, space[d].freed}} \subseteq F
  /\ disk' = [d \in DVAs |-> [disk[d] EXCEPT !.stable = @ \/ d \in F]]

CommitTxg ==
  /\ Engine!Commit
  /\ Dirty(Syncing) => synced
  /\ zhDisk' = zh /\ synced' = FALSE
  /\ \E F \in SUBSET DVAs : TxgFlushed(F)
  /\ dead' = {w \in dead : space[w.blk.dva].freed > Syncing}
  /\ UNCHANGED <<pc, call, until, itxs, itxList, lwbs, writer, commitSeq, wvars, logError,
                 susp, zh, space, chain, promised>>

\* zil_itx_clean(), on a taskq after the sync: itxs of synced txgs at the head
ItxClean ==
  /\ writer = Nobody /\ itxList # {} /\ itxs[MinOf(itxList)].txg <= floor
  /\ itxList' = {n \in itxList : \E m \in itxList : m <= n /\ itxs[m].txg > floor}
  /\ pc' = WakeAll
  /\ UNCHANGED <<svc, call, until, itxs, lwbs, writer, commitSeq, wvars, logError, susp,
                 header, pool, promised, dead>>

WriterStep(c) ==
  \/ Commit(c) \/ CreateDone(c) \/ BigDone(c) \/ ZioWait(c) \/ Finish(c)
  \/ \E d \in DVAs : Create(c, d) \/ Push(c, d) \/ LastWrite(c, d)
  \/ Push(c, Nobody) /\ wlwb' = wlwb
  \/ LastWrite(c, Nobody) /\ wlwb' = wlwb

\* the allocation of a block fails
NoSpace(c) ==
  \/ Create(c, Nobody)
  \/ (Push(c, Nobody) \/ LastWrite(c, Nobody)) /\ wlwb' # wlwb

SuspendStep(c) == Drained(c) \/ Destroy(c) \/ SuspendWaited(c)

DiskStep == \E i \in DOMAIN lwbs : WriteDone(i) \/ BufFree(i)
DiskError == \E i \in DOMAIN lwbs : WriteFailed(i)

SyncStep == ZilSync \/ CommitTxg

Next == ~Panic /\
  \/ OpenTxg \/ SyncStep \/ ItxClean \/ DiskStep \/ DiskError
  \/ \E c \in Threads : \/ Begin(c)
                        \/ \E f \in Files \cup {AnyFile} : ItxAssign(c, f) \/ Fsync(c, f)
  \/ \E c \in Suspenders : Suspend(c) \/ SuspendStep(c) \/ Resume(c)
  \/ \E c \in Callers : WriterStep(c) \/ NoSpace(c)

Spec == Init /\ [][Next]_vars

-----------------------------------------------------------------------------
(* What a crash leaves *)

\* zil_read_log_block() and zil_parse(): the chain from the header on disk, when
\* of the blocks written those in D survive
Valid(b, D) ==
  /\ b # Hole /\ b.dva \in D
  /\ disk[b.dva].blk = b /\ disk[b.dva].next # Hole

ChainOf(D) ==
  LET blk[i \in 0..Cardinality(DVAs)] ==
        IF i = 0 THEN zhDisk
        ELSE IF Valid(blk[i - 1], D) THEN disk[blk[i - 1].dva].next ELSE Hole
  IN  {blk[i] : i \in 0..Cardinality(DVAs)} \ {Hole}

LogRecs(D) == UNION {disk[b.dva].recs : b \in {x \in ChainOf(D) : Valid(x, D)}}

\* power may fail before the write caches are flushed
Stable == {d \in DVAs : disk[d].stable}
Outcomes == {D \in SUBSET DVAs : Stable \subseteq D}

Durable == {n \in Seqs : itxs[n].txg <= floor}

\* the lwbs with a block behind one whose write failed, and which is still at the
\* head of the log
LogBlocks == Members(lwbs) \cup dead \cup {Lwb(zh, 0)}
CutOff(D) ==
  {w \in LogBlocks : \E b \in ChainOf(D) :
     disk[b.dva].bad /\ b.guid = w.blk.guid /\ b.num < w.blk.num}

\* the writer has log writes that are not flushed yet
Unflushed == root /\ \E c \in Callers : pc[c] \in {"fill", "bigwait", "zio"}

-----------------------------------------------------------------------------
(* Properties *)

\* When zil_commit() has returned, every record it was called for is in a txg on
\* disk or will be replayed, whenever power fails, also when the write of its
\* block failed; unless its block was put behind one whose write failed before.
CommittedSurvive ==
  \A D \in Outcomes :
    promised \subseteq Durable \cup LogRecs(D) \cup UNION {w.recs : w \in CutOff(D)}

\* The records that will be replayed do not miss one that they build on: an
\* earlier one of the same file or an earlier namespace operation.
LogClosed ==
  \A D \in Outcomes : \A n \in LogRecs(D) \ Durable : \A m \in 1..(n - 1) :
    itxs[m].file \in {itxs[n].file, AnyFile} => m \in Durable \cup LogRecs(D)

\* No log block is leaked by a crash: what is allocated in the last synced txg
\* is found from its header ("we'd leak it if we crashed", zil_lwb_write_start()),
\* unless its block is behind one whose write failed, or power fails before the
\* writer has flushed the block that points to it.
NoLeak ==
  \A D \in Outcomes : (Unflushed => D = DVAs) =>
    \A d \in DVAs :
      space[d].birth \in 1..floor /\ space[d].freed \notin 1..floor =>
        \/ \E b \in ChainOf(D) : b.dva = d
        \/ \E w \in CutOff(D) : w.blk.dva = d

\* The lwb that a writer takes from zl_lwb_list has a buffer: "Failing to do so,
\* may leave an lwb with a NULL lwb_buf hanging around" (zil_lwb_write_start()).
WriterHasBuffer == ~Panic

\* A log block is freed once after each allocation.
FreedOnce ==
  [][\A d \in DVAs :
       space'[d].freed \notin {0, space[d].freed} => space[d].freed = 0 /\ space[d].birth # 0]_vars

\* While the log is suspended it has no lwb, and its header is empty, or will be
\* in the txg being synced or in that of the destroy: a snapshot, which is made in
\* the open txg or a later one, has no log.
SuspendedEmpty ==
  (\E c \in Suspenders : pc[c] = "suspended") =>
    /\ lwbs = << >>
    /\ zh = Hole \/ destroyTxg > floor
    /\ zhDisk = Hole \/ synced \/ destroyTxg > floor
=============================================================================

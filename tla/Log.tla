-------------------------------- MODULE Log --------------------------------
(***************************************************************************)
(* The redo log of the file system, kernel/fs/log.c, with crashes.  Memory *)
(* is lost in a crash, the disk is not, and a block is written whole or    *)
(* not at all.  The buffer cache is what bread returns for a block: what   *)
(* the block's buffer holds or, once bget has recycled that buffer, what   *)
(* is on disk.  A logged block must not be recycled before it is           *)
(* installed, so log_write pins it and install_trans unpins it; the count  *)
(* of these references is modelled, the buffers themselves are in Bcache.  *)
(*                                                                         *)
(* A step is a critical section of log.lock, a write to the disk, or the   *)
(* change of a block in its buffer.  log_write looks at the length of the  *)
(* log before it takes log.lock, so its test is a step of its own.         *)
(***************************************************************************)
EXTENDS Integers, Sequences, FiniteSets

CONSTANTS
  Procs,         \* the processes that make file system calls
  Blocks,        \* the blocks outside the log
  Values,        \* their contents
  LOGSIZE,       \* the entries of the in-memory header
  MAXOPBLOCKS,   \* the blocks begin_op reserves for a call
  OPBLOCKS,      \* the blocks a call really writes, at most
  nlog,          \* the superblock's nlog: the blocks of the log on disk
  KeepsRecovered \* bget recycles no buffer that recovery has used

ASSUME LogAssumption ==
  /\ LOGSIZE \in Nat /\ MAXOPBLOCKS \in Nat \ {0} /\ nlog \in Nat \ {0}
  /\ OPBLOCKS \in 0 .. MAXOPBLOCKS /\ KeepsRecovered \in BOOLEAN
  /\ IsFiniteSet(Blocks)

VARIABLES
  disk,          \* the home locations on disk
  logblock,      \* the log's data blocks on disk, and the block behind the log
  head,          \* the header block on disk: the block numbers, in order
  cache,         \* what bread returns for the home locations
  content,       \* what the calls have written to them and no crash has undone
  refcnt,        \* of a block's buffer, without those who have it locked; -1 is
                 \* the largest unsigned number
  recovered,     \* the blocks that recovery has installed since boot
  lh,            \* log.lh: the block numbers, in order
  outstanding, committing,
  pc,            \* where the process is in begin_op, its call, or end_op
  wrote,         \* the blocks the call has written
  blk,           \* the block whose buffer the call has locked, in log_write
  tail,          \* the loop index of write_log and install_trans
  boot,          \* where recover_from_log is, or "up"
  panic

vars == <<disk, logblock, head, cache, content, refcnt, recovered, lh,
          outstanding, committing, pc, wrote, blk, tail, boot, panic>>

diskVars == <<disk, logblock, head>>
bufVars  == <<cache, content, refcnt, recovered>>
ctlVars  == <<outstanding, committing>>

\* blk outside log_write.
NoBlock == "none"

Init ==
  /\ disk \in [Blocks -> Values]
  /\ \E v \in Values : logblock = [i \in 1 .. nlog |-> v]
  /\ head = << >>                            \* mkfs leaves the log empty
  /\ cache = disk /\ content = disk
  /\ refcnt = [b \in Blocks |-> 0] /\ recovered = {}
  /\ lh = << >> /\ outstanding = 0 /\ committing = FALSE
  /\ pc = [p \in Procs |-> "idle"]
  /\ wrote = [p \in Procs |-> {}]
  /\ blk = [p \in Procs |-> NoBlock]
  /\ tail = 0
  /\ boot = "read_head"
  /\ panic = "none"

Up(p, loc) == boot = "up" /\ panic = "none" /\ pc[p] = loc
Step(p, loc) == pc' = [pc EXCEPT ![p] = loc]

\* wakeup(&log), and p goes to loc.
WakeAll(p, loc) ==
  pc' = [q \in Procs |-> IF q = p THEN loc
                         ELSE IF pc[q] = "sleep" THEN "begin" ELSE pc[q]]

Logged == {lh[i] : i \in 1 .. Len(lh)}

----------------------------------------------------------------------------
\* System calls

\* Mutant: the calls under way are not counted.
BeginUnreserved(p) ==
  /\ Up(p, "idle") \/ Up(p, "begin")
  /\ IF committing \/ Len(lh) + MAXOPBLOCKS > LOGSIZE
       THEN Step(p, "sleep") /\ UNCHANGED <<outstanding, wrote>>
       ELSE /\ outstanding' = outstanding + 1
            /\ wrote' = [wrote EXCEPT ![p] = {}]
            /\ Step(p, "op")
  /\ UNCHANGED <<diskVars, bufVars, lh, committing, blk, tail, boot, panic>>

\* Mutant: a call begins while another process commits.
BeginWhileCommitting(p) ==
  /\ Up(p, "idle") \/ Up(p, "begin")
  /\ IF Len(lh) + (outstanding + 1) * MAXOPBLOCKS > LOGSIZE
       THEN Step(p, "sleep") /\ UNCHANGED <<outstanding, wrote>>
       ELSE /\ outstanding' = outstanding + 1
            /\ wrote' = [wrote EXCEPT ![p] = {}]
            /\ Step(p, "op")
  /\ UNCHANGED <<diskVars, bufVars, lh, committing, blk, tail, boot, panic>>

\* begin_op, once around its loop.
begin_op(p) ==
  /\ Up(p, "idle") \/ Up(p, "begin")
  /\ IF committing \/ Len(lh) + (outstanding + 1) * MAXOPBLOCKS > LOGSIZE
       THEN Step(p, "sleep") /\ UNCHANGED <<outstanding, wrote>>
       ELSE /\ outstanding' = outstanding + 1
            /\ wrote' = [wrote EXCEPT ![p] = {}]
            /\ Step(p, "op")
  /\ UNCHANGED <<diskVars, bufVars, lh, committing, blk, tail, boot, panic>>

\* The call locks the buffer of block b, changes it, and enters log_write, which
\* tests the length of the log without log.lock.
Modify(p, b, v) ==
  /\ Up(p, "op")
  /\ b \in wrote[p] \/ Cardinality(wrote[p]) < OPBLOCKS
  /\ \A q \in Procs : blk[q] # b
  /\ wrote' = [wrote EXCEPT ![p] = @ \cup {b}]
  /\ cache' = [cache EXCEPT ![b] = v]
  /\ content' = [content EXCEPT ![b] = v]
  /\ blk' = [blk EXCEPT ![p] = b]
  /\ panic' = IF Len(lh) >= LOGSIZE \/ Len(lh) >= nlog - 1
                THEN "too_big_a_transaction"
              ELSE IF outstanding < 1 THEN "outside_of_trans" ELSE "none"
  /\ Step(p, "log_write")
  /\ UNCHANGED <<diskVars, refcnt, recovered, lh, ctlVars, tail, boot>>

\* Mutant: the block is not pinned.
LogWithoutPin(p) ==
  /\ Up(p, "log_write")
  /\ lh' = IF blk[p] \in Logged THEN lh ELSE Append(lh, blk[p])
  /\ blk' = [blk EXCEPT ![p] = NoBlock]
  /\ Step(p, "op")
  /\ UNCHANGED <<diskVars, bufVars, ctlVars, wrote, tail, boot, panic>>

\* log_write with log.lock: the block is logged and pinned (bpin), unless it is
\* already in the log ("log absorbtion"), and the call releases the buffer.
log_write(p) ==
  /\ Up(p, "log_write")
  /\ lh' = IF blk[p] \in Logged THEN lh ELSE Append(lh, blk[p])
  /\ refcnt' = [refcnt EXCEPT ![blk[p]] = IF blk[p] \in Logged THEN @ ELSE @ + 1]
  /\ blk' = [blk EXCEPT ![p] = NoBlock]
  /\ Step(p, "op")
  /\ UNCHANGED <<diskVars, cache, content, recovered, ctlVars, wrote, tail, boot,
                 panic>>

\* bget, for another block, recycles the buffer of block b, to which nobody has a
\* reference; the next bread of b reads the disk.  (After a recovery it may recycle
\* a buffer in use as well; that is a subject of Bcache.)
Recycle(b) ==
  /\ panic = "none"
  /\ refcnt[b] = 0
  /\ \A p \in Procs : blk[p] # b
  /\ KeepsRecovered => b \notin recovered
  /\ cache' = [cache EXCEPT ![b] = disk[b]]
  /\ UNCHANGED <<diskVars, content, refcnt, recovered, lh, ctlVars, pc, wrote, blk,
                 tail, boot, panic>>

\* end_op: the last call commits.
end_op(p) ==
  /\ Up(p, "op")
  /\ outstanding' = outstanding - 1
  /\ panic' = IF committing THEN "log_committing" ELSE "none"
  /\ IF outstanding = 1
       THEN /\ committing' = TRUE
            /\ Step(p, IF lh = << >> THEN "done" ELSE "write_log")
       ELSE WakeAll(p, "idle") /\ UNCHANGED committing
  /\ UNCHANGED <<diskVars, bufVars, lh, wrote, blk, tail, boot>>

----------------------------------------------------------------------------
\* commit

\* Mutant: the index is not reset after the loop.
WriteLogKeepsTail(p) ==
  /\ Up(p, "write_log")
  /\ logblock' = [logblock EXCEPT ![tail + 1] = cache[lh[tail + 1]]]
  /\ IF tail + 1 < Len(lh)
       THEN tail' = tail + 1 /\ UNCHANGED pc
       ELSE tail' = tail + 1 /\ Step(p, "write_head")
  /\ UNCHANGED <<disk, head, bufVars, lh, ctlVars, wrote, blk, boot, panic>>

\* write_log: one block to the log.
write_log(p) ==
  /\ Up(p, "write_log")
  /\ logblock' = [logblock EXCEPT ![tail + 1] = cache[lh[tail + 1]]]
  /\ IF tail + 1 < Len(lh)
       THEN tail' = tail + 1 /\ UNCHANGED pc
       ELSE tail' = 0 /\ Step(p, "write_head")
  /\ UNCHANGED <<disk, head, bufVars, lh, ctlVars, wrote, blk, boot, panic>>

\* write_head: with the blocks' numbers this is the commit, with none it
\* erases the transaction.
write_head(p) ==
  /\ Up(p, "write_head")
  /\ head' = lh
  /\ Step(p, IF lh = << >> THEN "done" ELSE "install")
  /\ UNCHANGED <<disk, logblock, bufVars, lh, ctlVars, wrote, blk, tail, boot,
                 panic>>

\* One block from the log to its home location and to the cache; bunpin takes a
\* reference from its buffer, whether log_write has added one or not.
install_block ==
  /\ disk' = [disk EXCEPT ![lh[tail + 1]] = logblock[tail + 1]]
  /\ cache' = [cache EXCEPT ![lh[tail + 1]] = logblock[tail + 1]]
  /\ refcnt' = [refcnt EXCEPT ![lh[tail + 1]] = @ - 1]
  /\ IF tail + 1 < Len(lh)
       THEN tail' = tail + 1 /\ UNCHANGED lh
       ELSE tail' = 0 /\ lh' = << >>
  /\ UNCHANGED <<logblock, head, content>>

\* install_trans; after the last block log.lh.n is 0.
install_trans(p) ==
  /\ Up(p, "install")
  /\ install_block
  /\ Step(p, IF lh' # << >> THEN "install" ELSE "write_head")
  /\ UNCHANGED <<recovered, ctlVars, wrote, blk, boot, panic>>

\* Mutant: the sleepers of begin_op are not woken after the commit.
DoneWithoutWakeup(p) ==
  /\ Up(p, "done")
  /\ committing' = FALSE
  /\ Step(p, "idle")
  /\ UNCHANGED <<diskVars, bufVars, lh, outstanding, wrote, blk, tail, boot, panic>>

\* end_op after commit
Done(p) ==
  /\ Up(p, "done")
  /\ committing' = FALSE
  /\ WakeAll(p, "idle")
  /\ UNCHANGED <<diskVars, bufVars, lh, outstanding, wrote, blk, tail, boot, panic>>

----------------------------------------------------------------------------
\* Crash and recovery

\* The disk with a committed transaction laid over it.
Recovered ==
  [b \in Blocks |->
     IF \E i \in 1 .. Len(head) : head[i] = b
       THEN logblock[CHOOSE i \in 1 .. Len(head) : head[i] = b]
       ELSE disk[b]]

\* Power loss, or the reset after a panic: only the disk is left.
Crash ==
  /\ lh' = << >> /\ outstanding' = 0 /\ committing' = FALSE
  /\ pc' = [p \in Procs |-> "idle"]
  /\ wrote' = [p \in Procs |-> {}]
  /\ blk' = [p \in Procs |-> NoBlock]
  /\ cache' = disk /\ content' = Recovered
  /\ refcnt' = [b \in Blocks |-> 0] /\ recovered' = {}
  /\ tail' = 0
  /\ boot' = "read_head"
  /\ panic' = "none"
  /\ UNCHANGED diskVars

read_head ==
  /\ boot = "read_head"
  /\ lh' = head
  /\ boot' = IF head = << >> THEN "write_head" ELSE "install"
  /\ UNCHANGED <<diskVars, bufVars, ctlVars, pc, wrote, blk, tail, panic>>

\* Mutant: the header is cleared before the blocks are installed.
RecoverForgets ==
  /\ boot = "install"
  /\ lh' = << >>
  /\ boot' = "write_head"
  /\ UNCHANGED <<diskVars, bufVars, ctlVars, pc, wrote, blk, tail, panic>>

RecoverInstall ==
  /\ boot = "install"
  /\ install_block
  /\ recovered' = recovered \cup {lh[tail + 1]}
  /\ boot' = IF lh' # << >> THEN "install" ELSE "write_head"
  /\ UNCHANGED <<ctlVars, pc, wrote, blk, panic>>

RecoverClear ==
  /\ boot = "write_head"
  /\ head' = lh
  /\ boot' = "up"
  /\ UNCHANGED <<disk, logblock, bufVars, lh, ctlVars, pc, wrote, blk, tail, panic>>

----------------------------------------------------------------------------
Commit(p) == write_log(p) \/ write_head(p) \/ install_trans(p) \/ Done(p)
Recover == read_head \/ RecoverInstall \/ RecoverClear

Next ==
  \/ \E p \in Procs : \/ begin_op(p)
                      \/ \E b \in Blocks, v \in Values : Modify(p, b, v)
                      \/ log_write(p)
                      \/ end_op(p)
                      \/ Commit(p)
  \/ \E b \in Blocks : Recycle(b)
  \/ Recover
  \/ Crash

Spec == Init /\ [][Next]_vars

\* A process that is awake in begin_op or commits goes on, and a call that has
\* begun comes to its end.
FairSpec ==
  /\ Spec
  /\ \A p \in Procs : /\ WF_vars(pc[p] = "begin" /\ begin_op(p))
                      /\ WF_vars(log_write(p))
                      /\ SF_vars(end_op(p))
                      /\ WF_vars(Commit(p))

----------------------------------------------------------------------------
\* Properties

Locs == {"idle", "begin", "sleep", "op", "log_write", "write_log",
         "write_head", "install", "done"}

\* The types; the loops of the commit stay within the header.
TypeOK ==
  /\ disk \in [Blocks -> Values] /\ cache \in [Blocks -> Values]
  /\ content \in [Blocks -> Values]
  /\ refcnt \in [Blocks -> -1 .. 1] /\ recovered \subseteq Blocks
  /\ logblock \in [1 .. nlog -> Values]
  /\ head \in Seq(Blocks) /\ lh \in Seq(Blocks)
  /\ outstanding \in 0 .. Cardinality(Procs) /\ committing \in BOOLEAN
  /\ pc \in [Procs -> Locs] /\ wrote \in [Procs -> SUBSET Blocks]
  /\ blk \in [Procs -> Blocks \cup {NoBlock}]
  /\ tail \in Nat /\ (tail = 0 \/ tail < Len(lh))
  /\ boot \in {"up", "read_head", "install", "write_head"}

\* System calls are atomic with respect to crashes, at every moment of
\* write_log, write_head, install_trans and of the recovery itself; what becomes
\* durable is what the calls have written, whatever buffers bget has recycled.
Atomic == INSTANCE AtomicDisk WITH
  durable <- Recovered,
  current <- content,
  active <- {p \in Procs : pc[p] \in {"op", "log_write"}}
CallsAreAtomic == Atomic!Spec

\* When no call is in progress and none commits, what the calls have written is
\* on disk, bread returns it, and the log is empty: log_write records the block
\* "and pin[s] in the cache by increasing refcnt", so that no write is lost before
\* write_log reads it.  It is not so after a recovery, whose bunpin takes away a
\* reference that is not there (KeepsRecovered = FALSE).
QuietMeansDurable ==
  boot = "up" /\ panic = "none" /\ outstanding = 0 /\ ~committing =>
    disk = content /\ cache = content /\ head = << >>

\* "Thus there is never any reasoning required about whether a commit might
\* write an uncommitted system call's updates to disk": the assertions about
\* committing and outstanding hold, and one process at a time commits.
OneCommitter ==
  /\ panic \notin {"log_committing", "outside_of_trans"}
  /\ \A p \in Procs : pc[p] \in {"write_log", "write_head", "install", "done"} =>
       /\ committing /\ outstanding = 0
       /\ \A q \in Procs \ {p} : pc[q] \in {"idle", "begin", "sleep"}

\* begin_op reserves room for every call under way: "this op might exhaust log
\* space; wait for commit".  If calls leave one of their MAXOPBLOCKS unused and two
\* calls fit at a time, log_write never refuses a block, and calls that pass its
\* test together, since it is made without the lock, do not outgrow the log either.
\* If calls write all of their MAXOPBLOCKS it is not enough: mkfs gives the log
\* LOGSIZE blocks (mkfs.c), which leaves room for LOGSIZE - 1 "data blocks in
\* on-disk log" (param.h), and log_write refuses a full log even a block that it
\* would absorb.
LogNeverOverflows ==
  /\ panic # "too_big_a_transaction"
  /\ Len(lh) <= LOGSIZE /\ Len(lh) <= nlog - 1

\* A process that sleeps in begin_op is woken, by the end of a call or of a
\* commit, unless the machine stops.
SleepersWake ==
  \A p \in Procs : pc[p] = "sleep" ~> (pc[p] # "sleep" \/ panic # "none")
=============================================================================

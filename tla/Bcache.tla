------------------------------- MODULE Bcache -------------------------------
(***************************************************************************)
(* The buffer cache, kernel/fs/bio.c, with the sleep lock of a buffer,     *)
(* kernel/lock/sleeplock.c.  Its clients are the processes of the file     *)
(* system: each uses one buffer at a time, for reading, for a change that  *)
(* is logged (log_write pins the block), or to install a logged block      *)
(* (install_trans unpins it); at boot, the first process also installs the *)
(* blocks that recover_from_log finds in the log.                          *)
(*                                                                         *)
(* A step is a critical section of bcache.lock or of the sleep lock's own  *)
(* spin lock, or a transfer to or from the disk.                           *)
(***************************************************************************)
EXTENDS Naturals, Sequences, SequencesExt, FiniteSets

CONSTANTS
  Procs,      \* the processes
  Bufs,       \* bcache.buf
  Blocks,     \* the blocks of the device
  Values,     \* their contents
  InLog,      \* the blocks a committed transaction has left in the log
  RefBits     \* the width of refcnt, an unsigned int

ASSUME BcacheAssumption == InLog \subseteq Blocks /\ RefBits \in Nat

VARIABLES
  blockno, valid, refcnt, data,   \* of each buffer
  holder,     \* the process that has locked the buffer's sleep lock
  lru,        \* the list from bcache.head.next on, most recently used first
  disk,
  content,    \* what the block's last user has left in it
  pinned,     \* the blocks of the current transaction
  torecover,  \* the blocks recover_from_log has still to install
  pc, buf,    \* where a process is, the buffer it has a pointer to
  want,       \* the block it has asked bread for
  panic

vars == <<blockno, valid, refcnt, data, holder, lru, disk, content, pinned,
          torecover, pc, buf, want, panic>>

None == "none"

Init ==
  /\ blockno = [b \in Bufs |-> None]             \* dev 0 is not a device
  /\ valid = [b \in Bufs |-> FALSE]
  /\ refcnt = [b \in Bufs |-> 0]
  /\ data \in {[b \in Bufs |-> v] : v \in Values}
  /\ holder = [b \in Bufs |-> None]
  /\ lru = SetToSeq(Bufs)
  /\ disk \in {[k \in Blocks |-> v] : v \in Values}
  /\ content \in [Blocks -> Values]
  /\ \A k \in Blocks \ InLog : content[k] = disk[k]
  /\ pinned = {}
  /\ torecover = InLog
  /\ pc = [p \in Procs |-> "idle"]
  /\ buf = [p \in Procs |-> None]
  /\ want = [p \in Procs |-> None]
  /\ panic = "none"

At(p, loc) == pc[p] = loc /\ panic = "none"
Step(p, loc) == pc' = [pc EXCEPT ![p] = loc]

Inc(n) == (n + 1) % (2 ^ RefBits)
Dec(n) == (n + (2 ^ RefBits) - 1) % (2 ^ RefBits)

Cached(k) == {b \in Bufs : blockno[b] = k}
Unused == {b \in Bufs : refcnt[b] = 0}

\* The buffers of S that stand last and first in the list.
LastOf(S) == CHOOSE b \in S : \A c \in S : \E i, j \in DOMAIN lru :
               i >= j /\ lru[i] = b /\ lru[j] = c
FirstOf(S) == CHOOSE b \in S : \A c \in S : \E i, j \in DOMAIN lru :
                i <= j /\ lru[i] = b /\ lru[j] = c

----------------------------------------------------------------------------
\* bread: bget, acquiresleep and the transfer

\* Mutant: the recycled buffer keeps its valid flag.
GetStaysValid(p, k) ==
  /\ At(p, "idle")
  /\ want' = [want EXCEPT ![p] = k]
  /\ IF Cached(k) \cup Unused = {}
       THEN /\ panic' = "no_buffers"
            /\ UNCHANGED <<blockno, valid, refcnt, buf, pc>>
       ELSE LET b == IF Cached(k) # {} THEN FirstOf(Cached(k))
                                       ELSE LastOf(Unused) IN
            /\ blockno' = [blockno EXCEPT ![b] = k]
            /\ refcnt' = [refcnt EXCEPT ![b] = Inc(@)]
            /\ buf' = [buf EXCEPT ![p] = b]
            /\ Step(p, "acquiresleep")
            /\ UNCHANGED <<valid, panic>>
  /\ UNCHANGED <<data, holder, lru, disk, content, pinned, torecover>>

\* bget with bcache.lock: the buffer that caches the block, or the least
\* recently used one that is unused.
bget(p, k) ==
  /\ At(p, "idle")
  /\ want' = [want EXCEPT ![p] = k]
  /\ \/ /\ Cached(k) # {}
        /\ LET b == FirstOf(Cached(k)) IN
           /\ refcnt' = [refcnt EXCEPT ![b] = Inc(@)]
           /\ buf' = [buf EXCEPT ![p] = b]
        /\ Step(p, "acquiresleep")
        /\ UNCHANGED <<blockno, valid, panic>>
     \/ /\ Cached(k) = {} /\ Unused # {}
        /\ LET b == LastOf(Unused) IN
           /\ blockno' = [blockno EXCEPT ![b] = k]
           /\ valid' = [valid EXCEPT ![b] = FALSE]
           /\ refcnt' = [refcnt EXCEPT ![b] = 1]
           /\ buf' = [buf EXCEPT ![p] = b]
        /\ Step(p, "acquiresleep")
        /\ UNCHANGED panic
     \/ /\ Cached(k) = {} /\ Unused = {}
        /\ panic' = "no_buffers"
        /\ UNCHANGED <<blockno, valid, refcnt, buf, pc>>
  /\ UNCHANGED <<data, holder, lru, disk, content, pinned, torecover>>

\* Mutant: a process that is woken does not look at the lock again.
AcquireOnce(p) ==
  /\ At(p, "acquiresleep")
  /\ holder' = [holder EXCEPT ![buf[p]] = p]
  /\ Step(p, "bread")
  /\ UNCHANGED <<blockno, valid, refcnt, data, lru, disk, content, pinned,
                 torecover, buf, want, panic>>

\* acquiresleep, once around its loop.
acquiresleep(p) ==
  /\ At(p, "acquiresleep")
  /\ IF holder[buf[p]] # None
       THEN Step(p, "sleep") /\ UNCHANGED holder
       ELSE holder' = [holder EXCEPT ![buf[p]] = p] /\ Step(p, "bread")
  /\ UNCHANGED <<blockno, valid, refcnt, data, lru, disk, content, pinned,
                 torecover, buf, want, panic>>

\* bread reads an invalid buffer from the disk.
bread(p) ==
  /\ At(p, "bread")
  /\ LET b == buf[p] IN
     /\ data' = [data EXCEPT ![b] = IF valid[b] THEN @ ELSE disk[blockno[b]]]
     /\ valid' = [valid EXCEPT ![b] = TRUE]
  /\ Step(p, "use")
  /\ UNCHANGED <<blockno, refcnt, holder, lru, disk, content, pinned, torecover,
                 buf, want, panic>>

----------------------------------------------------------------------------
\* The use of a buffer

\* Mutant: the block is not pinned.
LogWithoutPin(p, v) ==
  /\ At(p, "use")
  /\ torecover = {}
  /\ data' = [data EXCEPT ![buf[p]] = v]
  /\ content' = [content EXCEPT ![want[p]] = v]
  /\ pinned' = pinned \cup {want[p]}
  /\ UNCHANGED refcnt
  /\ Step(p, "brelse")
  /\ UNCHANGED <<blockno, valid, holder, lru, disk, torecover, buf, want, panic>>

\* The user changes the data and calls log_write, which calls bpin unless the
\* block is already in the transaction.
Change(p, v) ==
  /\ At(p, "use")
  /\ torecover = {}
  /\ data' = [data EXCEPT ![buf[p]] = v]
  /\ content' = [content EXCEPT ![want[p]] = v]
  /\ pinned' = pinned \cup {want[p]}
  /\ refcnt' = [refcnt EXCEPT ![buf[p]] =
                   IF want[p] \in pinned THEN @ ELSE Inc(@)]
  /\ Step(p, "brelse")
  /\ UNCHANGED <<blockno, valid, holder, lru, disk, torecover, buf, want, panic>>

\* bwrite of a block that install_trans installs; in recovery the data come from
\* the log.
bwrite(p) ==
  /\ At(p, "use")
  /\ want[p] \in pinned \cup torecover
  /\ data' = IF want[p] \in torecover
               THEN [data EXCEPT ![buf[p]] = content[want[p]]] ELSE data
  /\ IF holder[buf[p]] # p
       THEN panic' = "bwrite" /\ UNCHANGED <<disk, pc>>
       ELSE /\ disk' = [disk EXCEPT ![blockno[buf[p]]] = data'[buf[p]]]
            /\ Step(p, "bunpin")
            /\ UNCHANGED panic
  /\ UNCHANGED <<blockno, valid, refcnt, holder, lru, content, pinned,
                 torecover, buf, want>>

\* bunpin, by install_trans, which does not tell recovery from a commit.
bunpin(p) ==
  /\ At(p, "bunpin")
  /\ refcnt' = [refcnt EXCEPT ![buf[p]] = Dec(@)]
  /\ pinned' = pinned \ {want[p]}
  /\ Step(p, "brelse")
  /\ UNCHANGED <<blockno, valid, data, holder, lru, disk, content, torecover,
                 buf, want, panic>>

\* The user has only read.
Read(p) ==
  /\ At(p, "use")
  /\ Step(p, "brelse")
  /\ UNCHANGED <<blockno, valid, refcnt, data, holder, lru, disk, content,
                 pinned, torecover, buf, want, panic>>

----------------------------------------------------------------------------
\* brelse

\* Mutant: nobody is woken.
ReleaseWithoutWakeup(p) ==
  /\ At(p, "brelse")
  /\ IF holder[buf[p]] # p
       THEN panic' = "brelse" /\ UNCHANGED <<holder, pc>>
       ELSE /\ holder' = [holder EXCEPT ![buf[p]] = None]
            /\ Step(p, "put")
            /\ UNCHANGED panic
  /\ UNCHANGED <<blockno, valid, refcnt, data, lru, disk, content, pinned,
                 torecover, buf, want>>

\* releasesleep wakes up those who sleep on the lock.
releasesleep(p) ==
  /\ At(p, "brelse")
  /\ IF holder[buf[p]] # p
       THEN panic' = "brelse" /\ UNCHANGED <<holder, pc>>
       ELSE /\ holder' = [holder EXCEPT ![buf[p]] = None]
            /\ pc' = [q \in Procs |->
                        IF q = p THEN "put"
                        ELSE IF pc[q] = "sleep" /\ buf[q] = buf[p]
                          THEN "acquiresleep" ELSE pc[q]]
            /\ UNCHANGED panic
  /\ UNCHANGED <<blockno, valid, refcnt, data, lru, disk, content, pinned,
                 torecover, buf, want>>

\* Mutant: the buffer is not taken out of the list before it is put at its head.
PutTwice(p) ==
  /\ At(p, "put")
  /\ refcnt' = [refcnt EXCEPT ![buf[p]] = Dec(@)]
  /\ lru' = IF refcnt'[buf[p]] = 0 THEN <<buf[p]>> \o lru ELSE lru
  /\ buf' = [buf EXCEPT ![p] = None]
  /\ want' = [want EXCEPT ![p] = None]
  /\ torecover' = torecover \ {want[p]}
  /\ Step(p, "idle")
  /\ UNCHANGED <<blockno, valid, data, holder, disk, content, pinned, panic>>

\* The rest of brelse, with bcache.lock.
brelse(p) ==
  /\ At(p, "put")
  /\ refcnt' = [refcnt EXCEPT ![buf[p]] = Dec(@)]
  /\ lru' = IF refcnt'[buf[p]] = 0
              THEN <<buf[p]>> \o Remove(lru, buf[p]) ELSE lru
  /\ buf' = [buf EXCEPT ![p] = None]
  /\ want' = [want EXCEPT ![p] = None]
  /\ torecover' = torecover \ {want[p]}
  /\ Step(p, "idle")
  /\ UNCHANGED <<blockno, valid, data, holder, disk, content, pinned, panic>>

----------------------------------------------------------------------------
\* Until recovery is over there is only one process, which installs the blocks.
Boots(p) == p = CHOOSE q \in Procs : TRUE
MayRun(p, k) == torecover # {} => Boots(p) /\ k \in torecover

\* The steps of a process that has asked for a buffer.
Serve(p) == \/ acquiresleep(p) \/ bread(p)
            \/ bwrite(p) \/ bunpin(p)
            \/ releasesleep(p) \/ brelse(p)

\* bget panics when every buffer is in use or pinned, and the machine stops.
Halted == panic # "none" /\ UNCHANGED vars

Next == \/ \E p \in Procs : \/ \E k \in Blocks : MayRun(p, k) /\ bget(p, k)
                            \/ \E v \in Values : Change(p, v)
                            \/ torecover = {} /\ Read(p)
                            \/ Serve(p)
        \/ Halted

Spec == Init /\ [][Next]_vars

\* A process is scheduled for ever, and a user of a buffer comes to its end.
FairSpec == Spec /\ \A p \in Procs : WF_vars(Serve(p) \/ Read(p))

----------------------------------------------------------------------------
\* Properties

\* The types.
TypeOK ==
  /\ blockno \in [Bufs -> Blocks \cup {None}] /\ valid \in [Bufs -> BOOLEAN]
  /\ refcnt \in [Bufs -> 0 .. 2 ^ RefBits - 1] /\ data \in [Bufs -> Values]
  /\ holder \in [Bufs -> Procs \cup {None}]
  /\ lru \in Seq(Bufs) /\ Len(lru) = Cardinality(Bufs) /\ ToSet(lru) = Bufs
  /\ disk \in [Blocks -> Values] /\ content \in [Blocks -> Values]
  /\ pinned \subseteq Blocks /\ torecover \subseteq Blocks
  /\ buf \in [Procs -> Bufs \cup {None}] /\ want \in [Procs -> Blocks \cup {None}]

Using(p) == pc[p] \in {"bread", "use", "bunpin", "brelse"}

\* "Only one process at a time can use a buffer" (bio.c), and from bget to brelse
\* the buffer is the one for the block asked for: nobody recycles it.
UsersKeepTheirBuffer ==
  \A p \in Procs :
    /\ buf[p] # None => blockno[buf[p]] = want[p] /\ Cached(want[p]) = {buf[p]}
    /\ Using(p) => \A q \in Procs \ {p} : Using(q) => buf[q] # buf[p]

\* The user of a block reads what its last user has left in it: the cache is "a
\* synchronization point for disk blocks used by multiple processes" (bio.c).
ReadsWhatWasWritten ==
  \A p \in Procs : pc[p] = "use" /\ torecover = {} =>
    data[buf[p]] = content[want[p]]

\* A reference count is the number of the processes that have a pointer to the
\* buffer, and one more if its block is pinned.
CountsAreExact ==
  \A b \in Bufs : refcnt[b] = Cardinality({p \in Procs : buf[p] = b})
                              + (IF blockno[b] \in pinned THEN 1 ELSE 0)

\* A process that sleeps on the lock of a buffer is woken.
SleepersWake ==
  \A p \in Procs : pc[p] = "sleep" ~> (pc[p] # "sleep" \/ panic # "none")
=============================================================================

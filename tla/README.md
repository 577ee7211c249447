# TLA+ specifications of myv6

myv6 is a RISC-V teaching kernel. It has an xv6-like file system and adds
*process groups*: a process can leave the default group, create a group of its
own, take CPUs into it, and even occupy a CPU exclusively. These specifications
cover the parts of the kernel in which several harts, or a crash, interfere.

## The system and what is modelled

| part | source | modules | state |
|---|---|---|---|
| process groups, CPU allocation | `kernel/process/proc_group.c` | `ProcGroup` | modelled, proved in part |
| CPU message box | `kernel/process/cpu_message.c` | `CpuMessage`, `MessageQueue` | modelled |
| scheduler loop, `yield`, timer | `kernel/scheduler/scheduler.c`, `kernel/trap/intr_handler.c` | `ProcGroup` | partly |
| `fork`, `exit`, `wait`, `count_proc_num` | `kernel/process/process.c` | `ProcLife`, and `ProcGroup` for what concerns groups | partly |
| `sleep`, `wake_up` | `kernel/scheduler/sleep.c` | inside their users | partly |
| file system log | `kernel/fs/log.c` | `Log`, `AtomicDisk` | modelled |
| buffer cache, sleep locks | `kernel/fs/bio.c`, `kernel/lock/sleeplock.c` | `Bcache` | modelled |
| spin locks, interrupt nesting | `kernel/lock/spin_lock.c`, `kernel/trap/introff.c` | | planned |
| pipes, `kill`, `proc_sys_sleep` | `kernel/fs/pipe.c`, `process.c` | | planned |
| reader-writer lock | `kernel/lock/rw_r_lock.c` | | planned |
| disk driver | `kernel/driver/virtio_disk.c` | | planned |
| console, UART | `kernel/io/console/console.c`, `kernel/driver/uart.c` | | planned |
| inodes, directories, file table, file calls | `kernel/fs/{fs,file,sysfile}.c` | | planned |
| page tables, page allocator, `exec` | `kernel/vm/*.c`, `kernel/process/process_loader.c` | | planned |
| traps, boot, printing, strings, `mkfs`, user programs | | | left out: register saving, straight-line set-up, output, host or client code |

How the parts meet: a system call runs on the hart that the scheduler gave the
process; `proc_group.c` moves harts between groups with messages that harts of
the default group pick up in the scheduler loop; file system calls run between
`begin_op` and `end_op` and change blocks in buffers that the log pins until it
has installed them; `exit`, `wait` and the group calls share `sleep` and the
process locks.

## Conventions

* A step is a critical section: what the code does from its first lock to the
  last one it releases. Code that reads shared state without a lock is a step of
  its own. `ProcLife` is finer: there a step ends wherever a thread may have to
  wait for a process lock. The properties speak of the states between steps;
  where a step spans two critical sections of the code, the section below says
  which states in between they do not see.
* `pc` says where a process is in a call, `cpc` where a hart is in the scheduler
  loop.
* `panic` is the first failed assertion. The model stops there (`Halted`); in
  `Log` a crash, that is a reset, may follow.
* Definitions that model code carry the name of the function; a function of
  several steps has one definition for each.
* A definition under a comment that begins with "Mutant:" is a deliberately
  wrong variant. It is used in no specification. Put in place of the definition
  it is a variant of, it makes one property fail; `PROJECT.json` lists the pairs.

## ProcGroup

State: the group table (`id`, `cpus`, `procs_head`, `exclusively_occupy`),
`free_cpus`, the message queue `um_box`, per hart its group, process and message,
per process its status, group, parent and call frame.

Abstractions: `procs_head` and `cpus` are sets, so the order of the run queue is
left out. The status `USED` of a process under construction is left out, as are
the interrupts that `proc_occupy_cpu` masks. Calls that only return an error are
not written out. init makes no group calls, as `user_space/init_code.c` shows.
`NEED_CPU` messages point into the stack frame of the caller; if the caller has
returned, the frame can hold anything, and the message can name any group
(`Targets`). That is narrower than the code in two ways: `handle_cpu_acquire` uses
the group id from the frame as an index without a range check (`proc_group.c:526`),
and wakes the process that the frame names (`proc_group.c:557`). The model takes
ids of the table only, and a dead frame wakes nobody.

`fork` is one step. In the code the child is `RUNABLE` from `process.c:316` and gets
into the list of its group in another critical section (`proc_group.c:413-421`). No
hart can find the child before, so nothing else is reachable, but `NoProcLost` and
`ProcInv` do not hold in that moment. The assertions that look only at who calls
(`my_proc()`, interrupts, a lock held) are not written out, since the actions are
defined for the process that the hart runs.

| run | question |
|---|---|
| `procgroup` | the safety properties, with 3 harts, init and 2 processes, 3 groups |
| `procgroup_live` | with one process less: the inductive invariant of the proofs; a caller of `inc_pgroup_cpus` is woken; an empty group is freed |
| `procgroup_IncWaitsForCpu` | violated: `inc_pgroup_cpus` returns before it has its CPU |

Three harts are the least number with which a group can grow while the default
group keeps a hart; three groups let two processes create groups while a third
slot is contested. Fairness: a hart in its scheduler loop or in a call goes on
(weak fairness, for nothing but a spin lock can hold it up), and since the timer
fires again and again, a process that is preemptible over and over is preempted
(strong fairness).

`NoKernelPanic` excepts three assertions that calls can provoke:

* `fork_refused`: `fork` takes a refusal by `forkproc_into_pgroup` as impossible
  (`process.c:321`), and a group whose process occupies its CPU refuses.
* `release_not_alone`: `proc_release_cpu` panics in a group with several processes
  or CPUs (`proc_group.c:590`); `user_space/ulib/sys_calls.h:119` says that without
  `proc_occupy_cpu` the call does "nothing but fail".
* `empty_group_acquires`: a hart serves a `NEED_CPU` message whose caller has
  returned early, as `procgroup_IncWaitsForCpu` shows, and the group is gone.

`exclusively_occupy` does not keep others out: `enter_pgroup` does not look at it,
and a CPU asked for with the flex call before can still join. No property claims
that the process of an occupied group stays alone.

## CpuMessage and MessageQueue

The ring buffer with indices that run on and wrap, harts that look at its size
without the lock, and the get under the lock. It implements the FIFO queue of
`MessageQueue` (`IsFifo`), and no message stays in it (`AllTaken`). The instance
has a box of 4 and 3-bit indices, so that both wrap. `ProcGroup` uses the queue.
Fairness: a hart of the default group comes back to its loop.

## ProcLife

`fork`, `exit`, `wait` and `count_proc_num` with the lock of every process.
Preemption needs no action: a preempted process is one that takes its next step
late. Allocation failures are choices.

Pids are taken and given back in critical sections of their own. `FreeProcess` has
`free_pid` (`process.c:249`) and the reset of the slot's pid and status (262-263) as
one step, `init_user_process` has `alloc_pid` (137) and the store of the pid (143).
In between, the slot is locked or new, so that no other thread acts on its pid. But
for a moment a zombie still has a pid that another `fork` can take, and a pid is
taken that no slot has: `PidsAreDistinct` is about the states outside of these
moments. With three slots there is also no second process that could fork while
one is freed.

| run | question |
|---|---|
| `proclife` | no orphan, no wakeup lost between `exit` and `wait`, distinct pids; with `count_proc_num` and unmapped addresses |
| `proclife_live` | without these two: no cycle of threads that wait for each other's locks, assertions hold, init frees the zombies it is the parent of |
| `proclife_NoLockCycle` | violated: `count_proc_num` and an exiting process block each other |
| `proclife_AssertionsHold` | violated: `wait` with an unmapped address panics after it has slept |

The table has 3 slots: init, a child and a grandchild are enough for a parent and
its child to exit together and for a slot to be used again. `proclife` does not
check deadlock, because of the one that `proclife_NoLockCycle` shows: `exit` holds
the lock of the slot that was its parent's and wants its own, which `count_proc_num`
holds while it wants the slot's. With 3 slots the caller of `count_proc_num` is
init, whose program never calls it; with a fourth slot any other process can be
the caller. With 4 slots
TLC visited 41 million states of the instance without `count_proc_num` and was
stopped before it was through; it had met no violation.

Fairness: a thread in the kernel goes on, and strongly so, because a spin lock
gives no order: it is assumed not to be denied for ever to a hart that spins for
it. init calls `wait` again and again. `ZombiesReaped` assumes that forking comes
to an end: `handle_exit_child` takes the first zombie in the table, so that a
slot further on can starve while earlier ones are filled again and again.

## Log and AtomicDisk

`AtomicDisk` says what the log is for: writes of calls become durable together,
and only when no call is in progress. `Log` has the disk (home blocks, log blocks,
header), the cache as what `bread` returns, and a crash between any two disk
writes, during recovery too. A block write is atomic. `content` is a history
variable: what the calls have written and no crash has undone. The refinement takes
for the durable contents the disk with the committed log laid over it, for the
current contents `content`.

`bread` returns what was written only as long as the buffer stays in the cache.
`log_write` pins it (`bpin`), `install_trans` unpins it (`bunpin`), and `Recycle`
lets `bget` take any buffer without a reference, so that the next `bread` reads the
disk. `refcnt` counts the pins, -1 being the largest unsigned number. Recovery runs
the same `install_trans` and unpins what nobody has pinned: from then on `log_write`
brings the block's count to 0 instead of 1, and the logged block is not held.
`log_QuietMeansDurable` shows how the write of a finished call is lost that way.
The passing runs therefore assume with `KeepsRecovered = TRUE` that `bget` does not
recycle the buffers that a recovery has used. What they show is the log with a
recovery whose buffers stay cached, not the log as it is after every recovery.

| run | question |
|---|---|
| `log` | refinement of `AtomicDisk`; one committer; when all is quiet, what the calls have written is on disk; calls that leave one reserved block unused never overflow the log; a process that sleeps in `begin_op` is woken (whether it is then admitted is not claimed) |
| `log_QuietMeansDurable` | violated: after a recovery, a logged write is lost with its buffer |

`OPBLOCKS` is what calls write, `MAXOPBLOCKS` what is reserved for them. With
`OPBLOCKS = MAXOPBLOCKS`, the limit `param.h` states, `LogNeverOverflows` fails (put
`OPBLOCKS = 2` and a fourth block into `MCLog.cfg`): `begin_op` hands out `LOGSIZE`
blocks, and the log that `mkfs` makes has `LOGSIZE - 1` beside its header. Since
`log_write` tests the length before it has the lock, two calls can then even pass the
test together and outgrow the log. By our reading of `fs.c` and `file.c` no call
writes that many blocks on the disk that `mkfs` makes, which has a single bitmap
block; that reading is not model-checked.

`log` has two processes and three blocks, so that transactions of several blocks,
with absorption, meet crashes, and a call has to wait while another one commits or
fills its share of the log. A transaction of two blocks consists of two calls of one
block each; they commit with one header. Fairness: awake processes go on, calls end
(strong fairness of `end_op`: a call writes finitely often).

## Bcache

Buffers with block number, valid flag, reference count of a fixed width, sleep
lock and LRU list. Processes use one buffer at a time: to read, to change and log
(pin), or to install (unpin).

| run | question |
|---|---|
| `bcache` | a buffer in use is not recycled, reads see the last write, counts are exact, who sleeps on a buffer is woken |
| `bcache_UsersKeepTheirBuffer` | violated: after a recovery, a buffer in use is recycled |

Two processes, two buffers and three blocks: buffers are recycled. `RefBits` is 3
instead of 32: no count in the instance comes near the bound except by going below
zero. The passing run starts with an empty log (`InLog = {}`), so that
`CountsAreExact` says nothing about a recovery; the violated run and
`log_QuietMeansDurable` do. With two processes at most one waits for a buffer. Code
that holds two buffers at once (`log.c:72-74`, `176-177`) is left out: the second is
a log block, which nobody else uses. Fairness: a process that has asked for a buffer goes on
and gives it back.

## Proofs

`ProcGroupSched`, `ProcGroupCalls` and `ProcGroupProofs` prove, for any number of
harts, processes and groups that satisfies `ConstantsAssumption` (finite sets, not
more harts than groups, init among the processes):

| theorem | statement |
|---|---|
| `Inductive` | `Spec => []IInv` |
| `TypeCorrect` | `Spec => []TypeOK` |
| `GroupsKeepCpus` | `Spec => []GroupInvariant` |
| `ListsAgree` | `Spec => []MembersAgree` |
| `RunsOnOwnCpu` | `Spec => []OnOwnCpu` |
| `ProcessesKept` | `Spec => []NoProcLost` |

None of the last four is inductive alone. That a group in use keeps a hart depends
on which hart is where: a process that enters or creates a group must stand on a
hart of the group it is going to or coming from. `IInv` therefore adds what is
known at each place of the code: `CpuInv` (group and message of a hart at each
`cpc`), `ProcInv` (status, group and cursors of a process at each `pc`), `RunInv`
(a process and the hart under it), `InitInv` (init keeps the default group alive)
and `MsgInv` (messages are well formed). `ProcGroupSched` has one lemma for each
step of the scheduler loop, `ProcGroupCalls` one for each step of a call,
`ProcGroupProofs` puts them together.

Only model-checked: `FreeCpusCovered`, `ScanFindsSlot` and `NoKernelPanic`, which
need counting arguments; `OnlyDefaultGivesCpus`; everything about `CpuMessage`,
`ProcLife`, `Log` and `Bcache`. Liveness under fairness, and what recursive
definitions compute, are out of reach of the prover and stay with TLC.

## Plan

1. `ProcLife` with `kill` and `proc_sys_sleep`; `Pipe`; `RWLock`.
2. `SpinLock` with `push_introff` and `pop_introff` over context switches, with a
   proof of mutual exclusion and of the nesting count.
3. `VirtioDisk` (3 descriptors per request, completion interrupts) under `Bcache`;
   `Console` with the UART queues and their lock order.
4. `Inode`: cache, link counts, `iput` with truncation, `create`, `link`, `unlink`,
   with the file table; an abstract directory tree for it to implement. `Log` and
   `Bcache` composed, for the number of buffers.
5. Page tables, `kalloc`, `brk`, `fork` and `exec` error paths.
6. Proofs: `FreeCpusCovered`, `ScanFindsSlot`, `NoKernelPanic` and
   `OnlyDefaultGivesCpus`; the inductive invariant of `Log` and its refinement of
   `AtomicDisk`; `CountsAreExact` and `UsersKeepTheirBuffer` of `Bcache`;
   `CpuMessage` implements `MessageQueue`.

------------------------------ MODULE ProcLife ------------------------------
(***************************************************************************)
(* The life of a process, kernel/process/process.c: fork, exit, wait and   *)
(* count_proc_num, with the lock of every process.                         *)
(*                                                                         *)
(* A step ends where the code releases a lock or waits for one, or reads   *)
(* another process's parent without its lock.  A thread is the kernel side *)
(* of a process; there are enough CPUs to run all of them, and a process   *)
(* that is preempted is one that takes its next step late.  Memory, files  *)
(* and process groups are left out: they fail or succeed by choice.        *)
(***************************************************************************)
EXTENDS Integers, Sequences, FiniteSets

CONSTANTS
  N,            \* STATIC_PROC_NUM
  WithCount,    \* some program calls count_proc_num
  BadPointer    \* some program passes wait an address that is not mapped

ASSUME LifeAssumption ==
  N \in Nat \ {0} /\ WithCount \in BOOLEAN /\ BadPointer \in BOOLEAN

Procs == 0 .. N - 1
None == -1

VARIABLES
  status, parent, pid,   \* fields of proc_set[i]
  lock,        \* the thread that holds proc_set[i].lock
  pid_set,     \* the pids in use
  pc,          \* where the thread is
  idx,         \* its loop index
  ptr,         \* its pointer to a process: the child in fork, parent in exit
  slept,       \* wait has slept
  bad,         \* wait has got an address that is not mapped
  stack,       \* the recursion of lock_all_process_aux
  panic

vars == <<status, parent, pid, lock, pid_set, pc, idx, ptr, slept, bad, stack,
          panic>>
tree == <<status, parent, pid, pid_set>>
args == <<slept, bad>>

Init ==
  /\ status = [p \in Procs |-> IF p = 0 THEN "RUNNING" ELSE "UNUSED"]
  /\ parent = [p \in Procs |-> None]
  /\ pid = [p \in Procs |-> IF p = 0 THEN 0 ELSE -1]
  /\ lock = [p \in Procs |-> None]
  /\ pid_set = {0}
  /\ pc = [p \in Procs |-> IF p = 0 THEN "user" ELSE "off"]
  /\ idx = [p \in Procs |-> 0]
  /\ ptr = [p \in Procs |-> None]
  /\ slept = [p \in Procs |-> FALSE]
  /\ bad = [p \in Procs |-> FALSE]
  /\ stack = << >>
  /\ panic = "none"

----------------------------------------------------------------------------
\* Steps

At(p, loc) == pc[p] = loc /\ panic = "none"
Step(p, loc) == pc' = [pc EXCEPT ![p] = loc]
SetIdx(p, i) == idx' = [idx EXCEPT ![p] = i]

Free(l) == lock[l] = None
Acquire(p, l) == Free(l) /\ lock' = [lock EXCEPT ![l] = p]
Release(S) == lock' = [l \in Procs |-> IF l \in S THEN None ELSE lock[l]]

\* free_process, with the process's lock.  free_pid is a critical section of its own,
\* before the fields are reset: in between the slot still has a pid that another
\* fork can take.  The slot's lock is held, so that only this thread uses the field,
\* and both are one step.
FreeProcess(q) ==
  /\ pid_set' = pid_set \ {pid[q]}
  /\ pid' = [pid EXCEPT ![q] = -1]
  /\ status' = [status EXCEPT ![q] = "UNUSED"]
  /\ parent' = [parent EXCEPT ![q] = None]

\* wake_up_parent, with the parent's lock.
wake_up_parent(q) ==
  status' = [status EXCEPT ![q] = IF @ = "SLEEP" THEN "RUNABLE" ELSE @]

----------------------------------------------------------------------------
\* fork

fork(p) ==
  /\ At(p, "user")
  /\ Step(p, "alloc") /\ SetIdx(p, 0)
  /\ UNCHANGED <<tree, lock, ptr, args, stack, panic>>

\* Mutant: the loop runs one slot too far, and what lies there is not UNUSED.
AllocPastEnd(p) ==
  /\ At(p, "alloc")
  /\ \/ /\ idx[p] = N + 1
        /\ Step(p, "user")
        /\ UNCHANGED <<status, idx, ptr>>
     \/ /\ \/ idx[p] = N
           \/ idx[p] < N /\ Free(idx[p]) /\ status[idx[p]] # "UNUSED"
        /\ SetIdx(p, idx[p] + 1)
        /\ UNCHANGED <<status, pc, ptr>>
     \/ /\ idx[p] < N /\ Free(idx[p]) /\ status[idx[p]] = "UNUSED"
        /\ status' = [status EXCEPT ![idx[p]] = "USED"]
        /\ ptr' = [ptr EXCEPT ![p] = idx[p]]
        /\ Step(p, "init_proc")
        /\ UNCHANGED idx
  /\ UNCHANGED <<parent, pid, lock, pid_set, args, stack, panic>>

\* alloc_process, once around its loop; it fails when no slot is left.
alloc_process(p) ==
  /\ At(p, "alloc")
  /\ \/ /\ idx[p] = N
        /\ Step(p, "user")
        /\ UNCHANGED <<status, idx, ptr>>
     \/ /\ idx[p] < N /\ Free(idx[p]) /\ status[idx[p]] # "UNUSED"
        /\ SetIdx(p, idx[p] + 1)
        /\ UNCHANGED <<status, pc, ptr>>
     \/ /\ idx[p] < N /\ Free(idx[p]) /\ status[idx[p]] = "UNUSED"
        /\ status' = [status EXCEPT ![idx[p]] = "USED"]
        /\ ptr' = [ptr EXCEPT ![p] = idx[p]]
        /\ Step(p, "init_proc")
        /\ UNCHANGED idx
  /\ UNCHANGED <<parent, pid, lock, pid_set, args, stack, panic>>

\* Mutant: a pid is taken that is in use.
PidOfSlot(p) ==
  /\ At(p, "init_proc")
  /\ pid' = [pid EXCEPT ![ptr[p]] = Cardinality(pid_set) % N]
  /\ pid_set' = pid_set \cup {Cardinality(pid_set) % N}
  /\ parent' = [parent EXCEPT ![ptr[p]] = None]
  /\ Step(p, "merge")
  /\ UNCHANGED <<status, lock, idx, ptr, args, stack, panic>>

\* init_user_process with alloc_pid: the least pid that is free.  alloc_pid takes
\* it in a critical section of its own, and the pid is stored in the new slot, which
\* nobody else uses, right after; both are one step.
init_user_process(p) ==
  /\ At(p, "init_proc")
  /\ \E i \in Procs \ pid_set :
       /\ \A j \in Procs \ pid_set : i <= j
       /\ pid' = [pid EXCEPT ![ptr[p]] = i]
       /\ pid_set' = pid_set \cup {i}
  /\ parent' = [parent EXCEPT ![ptr[p]] = None]
  /\ Step(p, "merge")
  /\ UNCHANGED <<status, lock, idx, ptr, args, stack, panic>>

\* init_user_process fails: no memory, or no pid.
InitFails(p) ==
  /\ At(p, "init_proc")
  /\ Free(ptr[p])
  /\ status' = [status EXCEPT ![ptr[p]] = "UNUSED"]
  /\ ptr' = [ptr EXCEPT ![p] = None]
  /\ Step(p, "user")
  /\ UNCHANGED <<parent, pid, lock, pid_set, idx, args, stack, panic>>

\* merge_page_table_in_interval succeeds.
ForkChild(p) ==
  /\ At(p, "merge")
  /\ parent' = [parent EXCEPT ![ptr[p]] = p]
  /\ Step(p, "publish")
  /\ UNCHANGED <<status, pid, lock, pid_set, idx, ptr, args, stack, panic>>

\* It fails, and fork frees the child.
MergeFails(p) ==
  /\ At(p, "merge")
  /\ Free(ptr[p])
  /\ FreeProcess(ptr[p])
  /\ ptr' = [ptr EXCEPT ![p] = None]
  /\ Step(p, "user")
  /\ UNCHANGED <<lock, idx, args, stack, panic>>

\* The child can be scheduled.
Publish(p) ==
  /\ At(p, "publish")
  /\ Free(ptr[p])
  /\ status' = [status EXCEPT ![ptr[p]] = "RUNABLE"]
  /\ pc' = [pc EXCEPT ![p] = "user", ![ptr[p]] = "new"]
  /\ ptr' = [ptr EXCEPT ![p] = None]
  /\ UNCHANGED <<parent, pid, lock, pid_set, idx, args, stack, panic>>

\* run_process resumes a new process in user_proc_entry, which releases the lock.
StartUser(p) ==
  /\ At(p, "new") /\ status[p] = "RUNABLE" /\ Free(p)
  /\ status' = [status EXCEPT ![p] = "RUNNING"]
  /\ Step(p, "user")
  /\ UNCHANGED <<parent, pid, lock, pid_set, idx, ptr, args, stack, panic>>

----------------------------------------------------------------------------
\* exit

exit(p) ==
  /\ At(p, "user") /\ p # 0
  /\ Step(p, "exit_lock0")
  /\ UNCHANGED <<tree, lock, idx, ptr, args, stack, panic>>

ExitLockInit(p) ==
  /\ At(p, "exit_lock0")
  /\ Acquire(p, 0)
  /\ Step(p, "exit_lock")
  /\ UNCHANGED <<tree, idx, ptr, args, stack, panic>>

ExitLock(p) ==
  /\ At(p, "exit_lock")
  /\ Acquire(p, p)
  /\ SetIdx(p, 0)
  /\ Step(p, "reparent")
  /\ UNCHANGED <<tree, ptr, args, stack, panic>>

\* reparent_children looks at a parent without the child's lock.
reparent_children(p) ==
  /\ At(p, "reparent") /\ idx[p] < N
  /\ IF parent[idx[p]] = p
       THEN Step(p, "reparent_lock") /\ UNCHANGED idx
       ELSE SetIdx(p, idx[p] + 1) /\ UNCHANGED pc
  /\ UNCHANGED <<tree, lock, ptr, args, stack, panic>>

\* Mutant: the children are left to the exiting process.
ReparentNothing(p) ==
  /\ At(p, "reparent_lock")
  /\ Free(idx[p])
  /\ SetIdx(p, idx[p] + 1)
  /\ Step(p, "reparent")
  /\ UNCHANGED <<tree, lock, ptr, args, stack, panic>>

Reparent(p) ==
  /\ At(p, "reparent_lock")
  /\ Free(idx[p])
  /\ parent' = [parent EXCEPT ![idx[p]] = 0]
  /\ SetIdx(p, idx[p] + 1)
  /\ Step(p, "reparent")
  /\ UNCHANGED <<status, pid, lock, pid_set, ptr, args, stack, panic>>

\* Mutant: init is not told of the children it gets.
ReparentSilently(p) ==
  /\ At(p, "reparent") /\ idx[p] = N
  /\ ptr' = [ptr EXCEPT ![p] = parent[p]]
  /\ Release({0, p})
  /\ Step(p, "exit_lockp")
  /\ UNCHANGED <<tree, idx, args, stack, panic>>

\* init is woken, for it may have got zombies, and the parent is read.
ReparentDone(p) ==
  /\ At(p, "reparent") /\ idx[p] = N
  /\ wake_up_parent(0)
  /\ ptr' = [ptr EXCEPT ![p] = parent[p]]
  /\ Release({0, p})
  /\ Step(p, "exit_lockp")
  /\ UNCHANGED <<parent, pid, pid_set, idx, args, stack, panic>>

ExitLockParent(p) ==
  /\ At(p, "exit_lockp")
  /\ Acquire(p, ptr[p])
  /\ Step(p, "exit_again")
  /\ UNCHANGED <<tree, idx, ptr, args, stack, panic>>

\* Mutant: the process keeps its own lock when it turns to init.
ExitKeepsLock(p) ==
  /\ At(p, "exit_again") /\ Free(p)
  /\ lock' = [lock EXCEPT ![ptr[p]] = None, ![p] = p]
  /\ IF parent[p] = ptr[p]
       THEN wake_up_parent(ptr[p]) /\ Step(p, "zombie")
       ELSE Step(p, "exit_init0") /\ UNCHANGED status
  /\ UNCHANGED <<parent, pid, pid_set, idx, ptr, args, stack, panic>>

\* With both locks: the parent is woken if it still is the parent.
ExitWakeParent(p) ==
  /\ At(p, "exit_again") /\ Free(p)
  /\ IF parent[p] = ptr[p]
       THEN /\ wake_up_parent(ptr[p])
            /\ lock' = [lock EXCEPT ![ptr[p]] = None, ![p] = p]
            /\ Step(p, "zombie")
            /\ UNCHANGED panic
       ELSE /\ panic' = IF parent[p] # 0 THEN "reparent_to_other" ELSE "none"
            /\ Release({ptr[p]})
            /\ Step(p, "exit_init0")
            /\ UNCHANGED status
  /\ UNCHANGED <<parent, pid, pid_set, idx, ptr, args, stack>>

ExitLockNewParent(p) ==
  /\ At(p, "exit_init0")
  /\ Acquire(p, 0)
  /\ Step(p, "exit_init")
  /\ UNCHANGED <<tree, idx, ptr, args, stack, panic>>

ExitWakeInit(p) ==
  /\ At(p, "exit_init") /\ Free(p)
  /\ wake_up_parent(0)
  /\ lock' = [lock EXCEPT ![0] = None, ![p] = p]
  /\ Step(p, "zombie")
  /\ UNCHANGED <<parent, pid, pid_set, idx, ptr, args, stack, panic>>

\* Mutant: the zombie forgets its parent along with its chain.
ZombieForgetsParent(p) ==
  /\ At(p, "zombie")
  /\ status' = [status EXCEPT ![p] = "ZOMBIE"]
  /\ parent' = [parent EXCEPT ![p] = None]
  /\ Release({p})
  /\ ptr' = [ptr EXCEPT ![p] = None]
  /\ SetIdx(p, 0)
  /\ Step(p, "off")
  /\ UNCHANGED <<pid, pid_set, args, stack, panic>>

\* The scheduler releases the zombie's lock.
ExitZombie(p) ==
  /\ At(p, "zombie")
  /\ status' = [status EXCEPT ![p] = "ZOMBIE"]
  /\ Release({p})
  /\ ptr' = [ptr EXCEPT ![p] = None]
  /\ SetIdx(p, 0)
  /\ Step(p, "off")
  /\ UNCHANGED <<parent, pid, pid_set, args, stack, panic>>

----------------------------------------------------------------------------
\* wait

wait(p) ==
  /\ At(p, "user")
  /\ Step(p, "wait_lock")
  /\ slept' = [slept EXCEPT ![p] = FALSE]
  /\ bad' \in {[bad EXCEPT ![p] = b] : b \in {FALSE, BadPointer}}
  /\ UNCHANGED <<tree, lock, idx, ptr, stack, panic>>

WaitLock(p) ==
  /\ At(p, "wait_lock")
  /\ Acquire(p, p)
  /\ SetIdx(p, 0)
  /\ ptr' = [ptr EXCEPT ![p] = None]
  /\ Step(p, "scan")
  /\ UNCHANGED <<tree, args, stack, panic>>

\* Mutant: the last slot is never looked at.
ScanOffByOne(p) ==
  /\ At(p, "scan") /\ idx[p] < N
  /\ IF parent[idx[p]] = p /\ idx[p] < N - 1
       THEN /\ ptr' = [ptr EXCEPT ![p] = idx[p]]
            /\ Step(p, "scan_lock")
            /\ UNCHANGED idx
       ELSE SetIdx(p, idx[p] + 1) /\ UNCHANGED <<pc, ptr>>
  /\ UNCHANGED <<tree, lock, args, stack, panic>>

\* handle_exit_child looks for a child, without the child's lock; ptr stands for
\* no_child_err.
handle_exit_child(p) ==
  /\ At(p, "scan") /\ idx[p] < N
  /\ IF parent[idx[p]] = p
       THEN /\ ptr' = [ptr EXCEPT ![p] = idx[p]]
            /\ Step(p, "scan_lock")
            /\ UNCHANGED idx
       ELSE SetIdx(p, idx[p] + 1) /\ UNCHANGED <<pc, ptr>>
  /\ UNCHANGED <<tree, lock, args, stack, panic>>

\* The child is not a zombie.
ScanAlive(p) ==
  /\ At(p, "scan_lock") /\ Free(idx[p]) /\ status[idx[p]] # "ZOMBIE"
  /\ SetIdx(p, idx[p] + 1)
  /\ Step(p, "scan")
  /\ UNCHANGED <<tree, lock, ptr, args, stack, panic>>

\* The child is a zombie: copy_out, free_process, and wait returns.
Reap(p) ==
  /\ At(p, "scan_lock") /\ Free(idx[p]) /\ status[idx[p]] = "ZOMBIE"
  /\ \/ /\ ~bad[p]
        /\ FreeProcess(idx[p])
        /\ UNCHANGED panic
     \/ /\ bad[p]
        /\ panic' = IF slept[p] THEN "no_child" ELSE "none"
        /\ UNCHANGED tree
  /\ Release({p})
  /\ ptr' = [ptr EXCEPT ![p] = None]
  /\ Step(p, "user")
  /\ UNCHANGED <<idx, args, stack>>

\* The scan has found no zombie: wait fails if there is no child, and sleeps if
\* there is one.
ScanDone(p) ==
  /\ At(p, "scan") /\ idx[p] = N
  /\ IF ptr[p] = None
       THEN /\ panic' = IF slept[p] THEN "no_child" ELSE "none"
            /\ Step(p, "user")
            /\ UNCHANGED status
       ELSE /\ status' = [status EXCEPT ![p] = "SLEEP"]
            /\ Step(p, "sleep")
            /\ UNCHANGED panic
  /\ Release({p})
  /\ ptr' = [ptr EXCEPT ![p] = None]
  /\ UNCHANGED <<parent, pid, pid_set, idx, args, stack>>

\* run_process resumes it, with its lock.
WaitResume(p) ==
  /\ At(p, "sleep") /\ status[p] = "RUNABLE"
  /\ Acquire(p, p)
  /\ status' = [status EXCEPT ![p] = "RUNNING"]
  /\ slept' = [slept EXCEPT ![p] = TRUE]
  /\ SetIdx(p, 0)
  /\ Step(p, "scan")
  /\ UNCHANGED <<parent, pid, pid_set, ptr, bad, stack, panic>>

----------------------------------------------------------------------------
\* count_proc_num

count_proc_num(p) ==
  /\ WithCount
  /\ At(p, "user")
  /\ Step(p, "count")
  /\ UNCHANGED <<tree, lock, idx, ptr, args, stack, panic>>

\* lock_all_process_aux(init) takes init's lock first.
CountInit(p) ==
  /\ At(p, "count")
  /\ Acquire(p, 0)
  /\ stack' = <<<<0, 0>>>>
  /\ Step(p, "count_walk")
  /\ UNCHANGED <<tree, idx, ptr, args, panic>>

\* lock_all_process_aux: from the process on top of the stack, the next child.
lock_all_process_aux(p) ==
  /\ At(p, "count_walk") /\ stack # << >>
  /\ LET top == stack[Len(stack)]
         below == SubSeq(stack, 1, Len(stack) - 1)
     IN  \/ /\ top[2] = N
            /\ stack' = below
            /\ UNCHANGED lock
         \/ /\ top[2] < N /\ parent[top[2]] # top[1]
            /\ stack' = Append(below, <<top[1], top[2] + 1>>)
            /\ UNCHANGED lock
         \/ /\ top[2] < N /\ parent[top[2]] = top[1]
            /\ Acquire(p, top[2])
            /\ stack' = below \o <<<<top[1], top[2] + 1>>, <<top[2], 0>>>>
  /\ UNCHANGED <<tree, pc, idx, ptr, args, panic>>

\* lock_rest_process, release_all_process.
CountRest(p) ==
  /\ At(p, "count_walk") /\ stack = << >>
  /\ LET rest == {q \in Procs : lock[q] # p} IN
     IF rest = {}
       THEN Release(Procs) /\ Step(p, "user")
       ELSE /\ \E q \in rest : (\A r \in rest : q <= r) /\ Acquire(p, q)
            /\ UNCHANGED pc
  /\ UNCHANGED <<tree, idx, ptr, args, stack, panic>>

----------------------------------------------------------------------------
Fork(p) == \/ alloc_process(p) \/ init_user_process(p) \/ InitFails(p)
           \/ ForkChild(p) \/ MergeFails(p) \/ Publish(p) \/ StartUser(p)
Exit(p) == \/ ExitLockInit(p) \/ ExitLock(p) \/ reparent_children(p)
           \/ Reparent(p) \/ ReparentDone(p) \/ ExitLockParent(p)
           \/ ExitWakeParent(p) \/ ExitLockNewParent(p) \/ ExitWakeInit(p)
           \/ ExitZombie(p)
Wait(p) == \/ WaitLock(p) \/ handle_exit_child(p) \/ ScanAlive(p) \/ Reap(p)
           \/ ScanDone(p) \/ WaitResume(p)
Count(p) == CountInit(p) \/ lock_all_process_aux(p) \/ CountRest(p)

Kernel(p) == Fork(p) \/ Exit(p) \/ Wait(p) \/ Count(p)
User(p) == fork(p) \/ exit(p) \/ wait(p) \/ count_proc_num(p)

Halted == panic # "none" /\ UNCHANGED vars

Next == (\E p \in Procs : Kernel(p) \/ User(p)) \/ Halted

Spec == Init /\ [][Next]_vars

\* A CPU in the kernel goes on, a lock is not denied for ever to a CPU that spins
\* for it, and init calls wait again and again (init_code.c).
FairSpec ==
  /\ Spec
  /\ \A p \in Procs : SF_vars(Kernel(p))
  /\ SF_vars(wait(0))

----------------------------------------------------------------------------
\* Properties

InUse == {p \in Procs : status[p] \in {"RUNABLE", "RUNNING", "SLEEP", "ZOMBIE"}}
Children(p) == {q \in Procs : parent[q] = p}

\* The types.
TypeOK ==
  /\ status \in [Procs -> {"UNUSED", "USED", "RUNABLE", "RUNNING", "SLEEP",
                           "ZOMBIE"}]
  /\ parent \in [Procs -> Procs \cup {None}] /\ pid \in [Procs -> Procs \cup {-1}]
  /\ lock \in [Procs -> Procs \cup {None}] /\ pid_set \subseteq Procs
  /\ idx \in [Procs -> 0 .. N] /\ ptr \in [Procs -> Procs \cup {None}]
  /\ slept \in [Procs -> BOOLEAN] /\ bad \in [Procs -> BOOLEAN]
  /\ stack \in Seq(Procs \X (0 .. N))

\* Every process but init has a parent that has not exited: exit passes its
\* children on to init, children that are being created and zombies included.
NoOrphan ==
  \A p \in InUse \ {0} : parent[p] \in InUse /\ status[parent[p]] # "ZOMBIE"

\* No wakeup is lost between a child's exit and its parent's wait, even when the
\* parent exits at the same time: nobody sleeps in wait who has a zombie child.
NoLostWakeup ==
  \A p \in Procs : status[p] = "SLEEP" /\ lock[p] = None =>
    \A q \in Children(p) : status[q] # "ZOMBIE"

\* Processes in use have different pids, and pid_set holds just those, also when a
\* fork has failed half-way.  Between steps, that is: within free_process a zombie
\* has for a moment a pid that is free again, and within alloc_process a pid is
\* taken that no slot has yet.
PidsAreDistinct ==
  /\ \A p, q \in InUse : p # q => pid[p] # pid[q] /\ pid[p] # -1
  /\ pid_set = {pid[p] : p \in Procs} \ {-1}

\* The lock a thread waits for, if it is taken.
Wants(p) ==
  CASE pc[p] \in {"exit_lock0", "exit_init0", "count"} -> 0
    [] pc[p] \in {"exit_lock", "exit_again", "exit_init", "wait_lock"} -> p
    [] pc[p] \in {"reparent_lock", "scan_lock"} -> idx[p]
    [] pc[p] = "exit_lockp" -> ptr[p]
    [] pc[p] = "count_walk" /\ stack # << >> ->
         LET top == stack[Len(stack)]
         IN  IF top[2] < N /\ parent[top[2]] = top[1] THEN top[2] ELSE None
    [] pc[p] = "count_walk" /\ stack = << >> ->
         LET rest == {q \in Procs : lock[q] # p}
         IN  IF rest = {} THEN None ELSE CHOOSE q \in rest : \A r \in rest : q <= r
    [] OTHER -> None

Blocked(p) == Wants(p) # None /\ lock[Wants(p)] # None

\* "proc lock acquired in sequence: parent -> child -> childchild" (process.c):
\* no threads wait for one another's locks, and none for its own.
NoLockCycle ==
  \A S \in SUBSET Procs \ {{}} :
    \E p \in S : ~(Blocked(p) /\ lock[Wants(p)] \in S)

\* wait is only woken by a child: the check behind "wake up parent without any
\* child" never fails, nor the one behind "reparent proc to other proc".
AssertionsHold == panic = "none"

\* A child of init that exits is freed in the end, a child it got from exit
\* included, unless the programs fork for ever: handle_exit_child takes the first
\* zombie it finds.
ZombiesReaped ==
  <>[][\A p \in Procs : ~fork(p)]_vars =>
    \A p \in Procs : status[p] = "ZOMBIE" /\ parent[p] = 0 ~> status[p] = "UNUSED"
=============================================================================

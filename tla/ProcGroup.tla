----------------------------- MODULE ProcGroup -----------------------------
(***************************************************************************)
(* Process groups and CPU allocation of the kernel: kernel/process/        *)
(* proc_group.c, the CPU message box (cpu_message.c) as its FIFO           *)
(* abstraction, the scheduler loop (scheduler/scheduler.c), and as much of *)
(* fork, exit, wait, sleep and the timer interrupt as moves a process      *)
(* between groups, CPUs and states.                                        *)
(*                                                                         *)
(* A step is what the code does between acquiring its first spin lock and  *)
(* releasing its last one; whatever happens outside the locks belongs to   *)
(* the step next to it.  A call that takes locks one after the other is    *)
(* several steps, and cpc (per CPU) and pc (per process) say where it is.  *)
(* Calls that only return an error change nothing and are not written out. *)
(***************************************************************************)
EXTENDS Integers, Sequences, FiniteSets

CONSTANTS
  CPUs,                \* the harts that boot
  BootCpu,             \* hart 0, which sets up the default group
  Procs,               \* the process table
  InitProc,            \* proc_set[0]
  NoProc,              \* the NULL process pointer
  MAX_PROC_GROUP_NUM   \* also MAX_CPU_NUM and CPU_MESSAGE_BOX_SIZE

ASSUME ConstantsAssumption ==
  /\ MAX_PROC_GROUP_NUM \in Nat
  /\ IsFiniteSet(CPUs) /\ BootCpu \in CPUs
  /\ Cardinality(CPUs) <= MAX_PROC_GROUP_NUM
  /\ IsFiniteSet(Procs) /\ InitProc \in Procs /\ NoProc \notin Procs

DEFAULT_PGROUP_ID == 0
CPU_MESSAGE_BOX_SIZE == MAX_PROC_GROUP_NUM
GroupIds == 0 .. MAX_PROC_GROUP_NUM - 1
MaybeGroup == GroupIds \cup {-1}

VARIABLES
  id,                  \* proc_group.id: -1 when the slot is free
  cpus,                \* proc_group.cpus as the set of its members
  procs_head,          \* proc_group.procs_head as a set: the order is left out
  exclusively_occupy,  \* proc_group.exclusively_occupy
  free_cpus,           \* the counter of CPUs the default group can give away
  um_box,              \* the pending CPU messages, oldest first
  cpu_pgroup,          \* cpu.pgroup_id
  my_proc,             \* cpu.my_proc
  cpc,                 \* where the CPU is in the scheduler loop
  msg,                 \* the message the CPU is serving
  status,              \* process.status
  proc_pgroup,         \* process.pgroup_id
  parent,              \* process.parent
  pc,                  \* where the process is in a system call
  new_group,           \* alloc_pgroup's cursor, enter_pgroup's target
  old_group,           \* enter_pgroup's old group
  frame,               \* inc_pgroup_cpus' stack message: its pgroup_id, or -1
  panic                \* the first panic, or "none"

groupVars == <<id, cpus, procs_head, exclusively_occupy, free_cpus, um_box>>
cpuVars   == <<cpu_pgroup, my_proc, cpc, msg>>
procVars  == <<status, proc_pgroup, parent, pc, new_group, old_group, frame>>
vars      == <<groupVars, cpuVars, procVars, panic>>

Status  == {"UNUSED", "RUNABLE", "RUNNING", "SLEEP", "ZOMBIE"}
CpuLocs == {"boot", "sched", "take", "join", "back", "run", "leave", "count",
            "proc"}

\* Places in a system call where interrupts are off: the process keeps its CPU.
IntrOffLocs == {"create_scan", "create_add", "enter_new", "enter_back",
                "dec_add", "dec_count", "exit"}
IntrOnLocs  == {"user", "inc_send", "inc_sleep", "flex_send", "yield",
                "exit_leave"}

NoMsg == [type |-> "EMP_MESSAGE", proc |-> NoProc, group |-> -1]
Messages == [type : {"EMP_MESSAGE", "NEED_CPU", "NEED_CPU_FLEX"},
             proc : Procs \cup {NoProc}, group : MaybeGroup]

\* The assertions (PANIC_FN) of proc_group.c, cpu_message.c, scheduler.c and
\* process.c that the model has, by a short name for each text.
Panics == {"cpu_not_added",        \* remove cpu that haven't been added
           "cpu_added_twice",      \* add cpu that has been added
           "proc_added_twice",     \* add proc that has been added
           "proc_not_added",       \* remove proc that haven't been added
           "too_many_allocated",   \* too many cpus been allocate
           "default_freed",        \* default group been freed
           "out_of_groups",        \* run out of proc group
           "box_full",             \* cpu message box full
           "empty_group_runs",     \* cpu try to run in empty proc group
           "empty_group_acquires", \* empty group acquire cpu
           "fork_refused",         \* fail to add child to parent's proc group
           "release_not_alone"}    \* process exclusively occupy cpu fail, ...

----------------------------------------------------------------------------
\* Helpers

\* PANIC_FN: the step that panics is the last one of the behaviour.
PanicUnless(ok, what) == panic' = IF ok THEN panic ELSE what

AtCpu(c, loc) == panic = "none" /\ cpc[c] = loc

\* p runs on c and is at loc.
Runs(c, p, loc) == panic = "none" /\ my_proc[c] = p /\ pc[p] = loc

\* The init process never makes a group call (user_space/init_code.c).
Calls(c, p) == Runs(c, p, "user") /\ p # InitProc

pgroup_cpu_count_unsafe(g) == Cardinality(cpus[g])
pgroup_procs_count_unsafe(g) == Cardinality(procs_head[g])

GoTo(c, loc) == cpc' = [cpc EXCEPT ![c] = loc]
Step(p, loc) == pc' = [pc EXCEPT ![p] = loc]

\* add_my_cpu_to_pgroup: the CPU takes the group's id.
add_my_cpu_to_pgroup(g, c, gid) ==
  /\ cpus' = [cpus EXCEPT ![g] = @ \cup {c}]
  /\ cpu_pgroup' = [cpu_pgroup EXCEPT ![c] = gid]

CpuNotAdded(g, c) == c \notin cpus[g] /\ cpu_pgroup[c] = -1

\* Mutant: the CPU keeps its old group id.
KeepCpuGroupId(g, c) ==
  /\ cpus' = [cpus EXCEPT ![g] = @ \ {c}]
  /\ UNCHANGED cpu_pgroup

remove_my_cpu_from_pgroup(g, c) ==
  /\ cpus' = [cpus EXCEPT ![g] = @ \ {c}]
  /\ cpu_pgroup' = [cpu_pgroup EXCEPT ![c] = -1]

CpuAdded(g, c) == c \in cpus[g] /\ cpu_pgroup[c] = id[g]

\* add_my_proc_to_pgroup: the process takes the group's id.
add_my_proc_to_pgroup(g, p) ==
  /\ procs_head' = [procs_head EXCEPT ![g] = @ \cup {p}]
  /\ proc_pgroup' = [proc_pgroup EXCEPT ![p] = id[g]]

remove_my_proc_from_pgroup(g, p) ==
  /\ procs_head' = [procs_head EXCEPT ![g] = @ \ {p}]
  /\ proc_pgroup' = [proc_pgroup EXCEPT ![p] = -1]

ProcAdded(p) == proc_pgroup[p] # -1

\* Mutant: the slot is never given back.
NeverFree(g, last) == UNCHANGED <<id, exclusively_occupy>>

\* free_pgroup when the last CPU has left, else nothing.
free_pgroup_if(g, last) ==
  /\ id' = [id EXCEPT ![g] = IF last THEN -1 ELSE @]
  /\ exclusively_occupy' =
       [exclusively_occupy EXCEPT ![g] = IF last THEN FALSE ELSE @]

\* Mutant: the last CPU may leave the processes behind.
LeaveProcsBehind(g, c, procs) ==
  cpus[g] \ {c} # {} => g # DEFAULT_PGROUP_ID \/ free_cpus > 0

\* cpu_leave_pgroup: may c leave g, whose processes are procs?
MayLeave(g, c, procs) ==
  IF cpus[g] \ {c} # {}
    THEN g # DEFAULT_PGROUP_ID \/ free_cpus > 0
    ELSE procs = {}

\* Mutant: leaving the default group is not counted.
LeaveUncounted(g, c) ==
  /\ remove_my_cpu_from_pgroup(g, c)
  /\ free_pgroup_if(g, cpus[g] \ {c} = {})
  /\ UNCHANGED free_cpus

\* cpu_leave_pgroup when it succeeds.  Leaving the default group to its other
\* CPUs takes one from the counter.
cpu_leave_pgroup(g, c) ==
  LET last == cpus[g] \ {c} = {} IN
  /\ remove_my_cpu_from_pgroup(g, c)
  /\ free_pgroup_if(g, last)
  /\ free_cpus' = IF ~last /\ g = DEFAULT_PGROUP_ID THEN free_cpus - 1
                                                    ELSE free_cpus

\* What panic is after it.
LeavePanic(g, c) ==
  IF ~CpuAdded(g, c) THEN "cpu_not_added"
  ELSE IF cpus[g] \ {c} = {} /\ g = DEFAULT_PGROUP_ID
    THEN "default_freed" ELSE panic

\* send_cpu_message
send_cpu_message(m) ==
  /\ um_box' = Append(um_box, m)
  /\ PanicUnless(Len(um_box) # CPU_MESSAGE_BOX_SIZE, "box_full")

\* switch_to_scheduler: c drops p and goes back to its scheduler loop.
SwitchToScheduler(c) ==
  /\ my_proc' = [my_proc EXCEPT ![c] = NoProc]
  /\ GoTo(c, "sched")

\* wake_up_parent: any sleeper becomes RUNABLE, whatever it sleeps for.
Woken(st, p) == IF st[p] = "SLEEP" THEN [st EXCEPT ![p] = "RUNABLE"] ELSE st

----------------------------------------------------------------------------
\* Boot: process_init, proc_group_init and setup_default_proc_group have run
\* on hart 0; the other harts are about to run proc_group_init_hart.

Init ==
  /\ id = [g \in GroupIds |-> IF g = DEFAULT_PGROUP_ID THEN g ELSE -1]
  /\ cpus = [g \in GroupIds |->
               IF g = DEFAULT_PGROUP_ID THEN {BootCpu} ELSE {}]
  /\ procs_head = [g \in GroupIds |->
                     IF g = DEFAULT_PGROUP_ID THEN {InitProc} ELSE {}]
  /\ exclusively_occupy = [g \in GroupIds |-> FALSE]
  /\ free_cpus = 0
  /\ um_box = << >>
  /\ cpu_pgroup = [c \in CPUs |->
                     IF c = BootCpu THEN DEFAULT_PGROUP_ID ELSE -1]
  /\ my_proc = [c \in CPUs |-> NoProc]
  /\ cpc = [c \in CPUs |-> IF c = BootCpu THEN "sched" ELSE "boot"]
  /\ msg = [c \in CPUs |-> NoMsg]
  /\ status = [p \in Procs |-> IF p = InitProc THEN "RUNABLE" ELSE "UNUSED"]
  /\ proc_pgroup = [p \in Procs |->
                      IF p = InitProc THEN DEFAULT_PGROUP_ID ELSE -1]
  /\ parent = [p \in Procs |-> NoProc]
  /\ pc = [p \in Procs |-> "user"]
  /\ new_group = [p \in Procs |-> -1]
  /\ old_group = [p \in Procs |-> -1]
  /\ frame = [p \in Procs |-> -1]
  /\ panic = "none"

\* c enters the default group from outside every group.
JoinDefault(c) ==
  /\ add_my_cpu_to_pgroup(DEFAULT_PGROUP_ID, c, id[DEFAULT_PGROUP_ID])
  /\ PanicUnless(CpuNotAdded(DEFAULT_PGROUP_ID, c),
                 "cpu_added_twice")

proc_group_init_hart(c) ==
  /\ AtCpu(c, "boot")
  /\ JoinDefault(c)
  /\ GoTo(c, "count")
  /\ UNCHANGED <<id, procs_head, exclusively_occupy, free_cpus, um_box,
                 my_proc, msg, procVars>>

\* inc_free_cpus after a CPU has joined the default group in
\* proc_group_init_hart or cpu_leave_pgroup_if_empty.
inc_free_cpus(c) ==
  /\ AtCpu(c, "count")
  /\ free_cpus' = free_cpus + 1
  /\ GoTo(c, "sched")
  /\ UNCHANGED <<id, cpus, procs_head, exclusively_occupy, um_box,
                 cpu_pgroup, my_proc, msg, procVars, panic>>

----------------------------------------------------------------------------
\* The scheduler loop: run_process, with handle_cpu_acquire inlined

\* c is not in the default group, or no_message_atomic / get_cpu_message find
\* the box empty.
NoMessage(c) ==
  /\ AtCpu(c, "sched")
  /\ cpu_pgroup[c] # DEFAULT_PGROUP_ID \/ um_box = << >>
  /\ GoTo(c, "run")
  /\ UNCHANGED <<groupVars, cpu_pgroup, my_proc, msg, procVars, panic>>

\* The group a message asks a CPU for.  A NEED_CPU message points into the
\* stack frame of inc_pgroup_cpus: when that call has returned, the value read
\* is whatever is there, and the code does not check its range.  The model has
\* every slot of the table; what a value outside of it does to the memory it
\* then points to is not modelled.
Targets(m) ==
  IF m.type = "NEED_CPU_FLEX" THEN {m.group}
  ELSE IF frame[m.proc] # -1 THEN {frame[m.proc]} ELSE GroupIds

\* get_cpu_message, and the read of mm->pgroup_id
TakeMessage(c) ==
  /\ AtCpu(c, "sched")
  /\ cpu_pgroup[c] = DEFAULT_PGROUP_ID
  /\ um_box # << >>
  /\ um_box' = Tail(um_box)
  /\ \E g \in Targets(Head(um_box)) :
       msg' = [msg EXCEPT ![c] = [Head(um_box) EXCEPT !.group = g]]
  /\ GoTo(c, "take")
  /\ UNCHANGED <<id, cpus, procs_head, exclusively_occupy, free_cpus,
                 cpu_pgroup, my_proc, procVars, panic>>

\* handle_cpu_acquire under the default group's lock
LeaveDefault(c) ==
  /\ AtCpu(c, "take")
  /\ IF pgroup_cpu_count_unsafe(DEFAULT_PGROUP_ID) = 1
       THEN /\ panic' = "too_many_allocated"
            /\ UNCHANGED <<cpus, cpu_pgroup, cpc>>
       ELSE /\ remove_my_cpu_from_pgroup(DEFAULT_PGROUP_ID, c)
            /\ PanicUnless(CpuAdded(DEFAULT_PGROUP_ID, c),
                           "cpu_not_added")
            /\ GoTo(c, "join")
  /\ UNCHANGED <<id, procs_head, exclusively_occupy, free_cpus, um_box,
                 my_proc, msg, procVars>>

\* Mutant: the caller of inc_pgroup_cpus is not woken.
JoinWithoutWake(c) ==
  LET g == msg[c].group IN
  /\ AtCpu(c, "join")
  /\ id[g] # -1
  /\ add_my_cpu_to_pgroup(g, c, id[g])
  /\ msg' = [msg EXCEPT ![c] = NoMsg]
  /\ GoTo(c, "run")
  /\ UNCHANGED <<id, procs_head, exclusively_occupy, free_cpus, um_box,
                 my_proc, procVars, panic>>

\* handle_cpu_acquire under the new group's lock: the group is there.  The
\* sleeper is woken through its stack message.  In a dead frame sleep_chain too
\* can be anything; the model lets it wake nobody (wake_up, below, can wake other
\* sleepers at any time, but not those that wait for a CPU).
JoinGroup(c) ==
  LET g == msg[c].group
      p == msg[c].proc IN
  /\ AtCpu(c, "join")
  /\ id[g] # -1
  /\ add_my_cpu_to_pgroup(g, c, id[g])
  /\ PanicUnless(CpuNotAdded(g, c), "cpu_added_twice")
  /\ status' = IF /\ msg[c].type = "NEED_CPU"
                  /\ frame[p] # -1
                  /\ pc[p] = "inc_sleep"
               THEN Woken(status, p)
               ELSE status
  /\ msg' = [msg EXCEPT ![c] = NoMsg]
  /\ GoTo(c, "run")
  /\ UNCHANGED <<id, procs_head, exclusively_occupy, free_cpus, um_box,
                 my_proc, proc_pgroup, parent, pc, new_group, old_group,
                 frame>>

\* handle_cpu_acquire under the new group's lock: the group has been freed.
GroupGone(c) ==
  /\ AtCpu(c, "join")
  /\ id[msg[c].group] = -1
  /\ PanicUnless(msg[c].type = "NEED_CPU_FLEX", "empty_group_acquires")
  /\ GoTo(c, "back")
  /\ UNCHANGED <<groupVars, cpu_pgroup, my_proc, msg, procVars>>

\* handle_cpu_acquire: the CPU goes back to the default group.
BackToDefault(c) ==
  /\ AtCpu(c, "back")
  /\ JoinDefault(c)
  /\ free_cpus' = free_cpus + 1
  /\ msg' = [msg EXCEPT ![c] = NoMsg]
  /\ GoTo(c, "run")
  /\ UNCHANGED <<id, procs_head, exclusively_occupy, um_box, my_proc,
                 procVars>>

\* Mutant: an idle CPU leaves a group that has processes and another CPU.
LeaveThoughNotEmpty(c) ==
  LET g == cpu_pgroup[c] IN
  /\ AtCpu(c, "run")
  /\ g # DEFAULT_PGROUP_ID
  /\ procs_head[g] = {} \/ cpus[g] # {c}
  /\ remove_my_cpu_from_pgroup(g, c)
  /\ free_pgroup_if(g, cpus[g] \ {c} = {})
  /\ GoTo(c, "leave")
  /\ UNCHANGED <<procs_head, free_cpus, um_box, my_proc, msg, procVars, panic>>

\* cpu_leave_pgroup_if_empty under the lock of the group that is left
cpu_leave_pgroup_if_empty(c) ==
  LET g == cpu_pgroup[c] IN
  /\ AtCpu(c, "run")
  /\ g # DEFAULT_PGROUP_ID
  /\ procs_head[g] = {}
  /\ remove_my_cpu_from_pgroup(g, c)
  /\ free_pgroup_if(g, cpus[g] \ {c} = {})
  /\ PanicUnless(CpuAdded(g, c), "cpu_not_added")
  /\ GoTo(c, "leave")
  /\ UNCHANGED <<procs_head, free_cpus, um_box, my_proc, msg, procVars>>

\* cpu_leave_pgroup_if_empty under the default group's lock
IdleIntoDefault(c) ==
  /\ AtCpu(c, "leave")
  /\ JoinDefault(c)
  /\ GoTo(c, "count")
  /\ UNCHANGED <<id, procs_head, exclusively_occupy, free_cpus, um_box,
                 my_proc, msg, procVars>>

\* run_process: a RUNABLE process of the group is chosen and runs.
RunProcess(c, p) ==
  LET g == cpu_pgroup[c] IN
  /\ AtCpu(c, "run")
  /\ p \in procs_head[g]
  /\ status[p] = "RUNABLE"
  /\ PanicUnless(id[g] # -1, "empty_group_runs")
  /\ status' = [status EXCEPT ![p] = "RUNNING"]
  /\ my_proc' = [my_proc EXCEPT ![c] = p]
  /\ GoTo(c, "proc")
  /\ UNCHANGED <<groupVars, cpu_pgroup, msg, proc_pgroup, parent, pc,
                 new_group, old_group, frame>>

\* run_process: the group has processes, or is the default group, and none of
\* them is RUNABLE.
NoRunable(c) ==
  LET g == cpu_pgroup[c] IN
  /\ AtCpu(c, "run")
  /\ g = DEFAULT_PGROUP_ID \/ procs_head[g] # {}
  /\ \A p \in procs_head[g] : status[p] # "RUNABLE"
  /\ PanicUnless(id[g] # -1, "empty_group_runs")
  /\ GoTo(c, "sched")
  /\ UNCHANGED <<groupVars, cpu_pgroup, my_proc, msg, procVars>>

----------------------------------------------------------------------------
\* Time slices, sleeping and waking

\* yield(RUNABLE): from the timer interrupt, which passes over the process of
\* an exclusively occupied group, or at the end of enter_pgroup and
\* dec_pgroup_cpus.
yield(c, p) ==
  /\ \E loc \in IntrOnLocs : Runs(c, p, loc)
  /\ pc[p] = "yield" \/ ~exclusively_occupy[proc_pgroup[p]]
  /\ status' = [status EXCEPT ![p] = "RUNABLE"]
  /\ pc' = [pc EXCEPT ![p] = IF @ = "yield" THEN "user" ELSE @]
  /\ SwitchToScheduler(c)
  /\ UNCHANGED <<groupVars, cpu_pgroup, msg, proc_pgroup, parent, new_group,
                 old_group, frame, panic>>

\* sleep, for any reason but inc_pgroup_cpus (a pipe, the disk, wait, ...)
sleep(c, p) ==
  /\ Runs(c, p, "user")
  /\ status' = [status EXCEPT ![p] = "SLEEP"]
  /\ SwitchToScheduler(c)
  /\ UNCHANGED <<groupVars, cpu_pgroup, msg, proc_pgroup, parent, pc,
                 new_group, old_group, frame, panic>>

\* wake_up of such a sleeper, by an interrupt or by another process
wake_up(p) ==
  /\ panic = "none"
  /\ status[p] = "SLEEP" /\ pc[p] = "user"
  /\ status' = Woken(status, p)
  /\ UNCHANGED <<groupVars, cpuVars, proc_pgroup, parent, pc, new_group,
                 old_group, frame, panic>>

----------------------------------------------------------------------------
\* fork, exit, wait

\* fork: the child q joins the parent's group (forkproc_into_pgroup).  The code has
\* two critical sections: the child becomes RUNABLE under its own lock, then it is
\* put into the list under the group's lock.  In between it is RUNABLE and in no
\* list.  Nobody looks at it then: it is in no list to be found, sleeps on nothing
\* and has no children.  So the call is one step.
fork(c, p, q) ==
  LET g == proc_pgroup[p] IN
  /\ Runs(c, p, "user")
  /\ status[q] = "UNUSED"
  /\ status' = [status EXCEPT ![q] = "RUNABLE"]
  /\ parent' = [parent EXCEPT ![q] = p]
  /\ id[g] # -1 /\ ~exclusively_occupy[g]
  /\ procs_head' = [procs_head EXCEPT ![g] = @ \cup {q}]
  /\ proc_pgroup' = [proc_pgroup EXCEPT ![q] = g]
  /\ UNCHANGED <<id, cpus, exclusively_occupy, free_cpus, um_box, cpuVars,
                 pc, new_group, old_group, frame, panic>>

\* fork: forkproc_into_pgroup refuses the child.
ForkRefused(c, p, q) ==
  LET g == proc_pgroup[p] IN
  /\ Runs(c, p, "user")
  /\ status[q] = "UNUSED"
  /\ status' = [status EXCEPT ![q] = "RUNABLE"]
  /\ parent' = [parent EXCEPT ![q] = p]
  /\ id[g] = -1 \/ exclusively_occupy[g]
  /\ panic' = "fork_refused"
  /\ UNCHANGED <<groupVars, cpuVars, proc_pgroup, pc, new_group, old_group,
                 frame>>

\* exit: the children go to the init process, which is woken.
exit(c, p) ==
  /\ Calls(c, p)
  /\ parent' = [q \in Procs |-> IF parent[q] = p THEN InitProc ELSE parent[q]]
  /\ status' = Woken(status, InitProc)
  /\ Step(p, "exit_leave")
  /\ UNCHANGED <<groupVars, cpuVars, proc_pgroup, new_group, old_group, frame,
                 panic>>

\* exit_pgroup: the process leaves its group, with interrupts off from here on.
exit_pgroup(c, p) ==
  /\ Runs(c, p, "exit_leave")
  /\ remove_my_proc_from_pgroup(proc_pgroup[p], p)
  /\ PanicUnless(ProcAdded(p), "proc_not_added")
  /\ Step(p, "exit")
  /\ UNCHANGED <<id, cpus, exclusively_occupy, free_cpus, um_box, cpuVars,
                 status, parent, new_group, old_group, frame>>

\* exit: the process wakes its parent and turns ZOMBIE.
ExitZombie(c, p) ==
  /\ Runs(c, p, "exit")
  /\ status' = [Woken(status, parent[p]) EXCEPT ![p] = "ZOMBIE"]
  /\ Step(p, "user")
  /\ SwitchToScheduler(c)
  /\ UNCHANGED <<groupVars, cpu_pgroup, msg, proc_pgroup, parent, new_group,
                 old_group, frame, panic>>

\* wait: the parent p frees its ZOMBIE child q (free_process).
wait(c, p, q) ==
  /\ Runs(c, p, "user")
  /\ parent[q] = p /\ status[q] = "ZOMBIE"
  /\ status' = [status EXCEPT ![q] = "UNUSED"]
  /\ parent' = [parent EXCEPT ![q] = NoProc]
  /\ UNCHANGED <<groupVars, cpuVars, proc_pgroup, pc, new_group, old_group,
                 frame, panic>>

----------------------------------------------------------------------------
\* create_pgroup

\* proc_leave_pgroup_with_cpu, when it succeeds
create_pgroup(c, p) ==
  LET g == proc_pgroup[p]
      h == cpu_pgroup[c] IN
  /\ Calls(c, p)
  /\ MayLeave(h, c, procs_head[h] \ {p})
  /\ remove_my_proc_from_pgroup(g, p)
  /\ cpu_leave_pgroup(h, c)
  /\ panic' = IF ProcAdded(p) THEN LeavePanic(h, c) ELSE "proc_not_added"
  /\ Step(p, "create_scan")
  /\ new_group' = [new_group EXCEPT ![p] = 0]
  /\ UNCHANGED <<um_box, my_proc, cpc, msg, status, parent, old_group, frame>>

\* alloc_pgroup, slot i = new_group[p]: claimed when it is free ...
ClaimSlot(c, p) ==
  LET i == new_group[p] IN
  /\ Runs(c, p, "create_scan")
  /\ id[i] = -1
  /\ id' = [id EXCEPT ![i] = i]
  /\ add_my_cpu_to_pgroup(i, c, i)
  /\ PanicUnless(CpuNotAdded(i, c), "cpu_added_twice")
  /\ Step(p, "create_add")
  /\ UNCHANGED <<procs_head, exclusively_occupy, free_cpus, um_box, my_proc,
                 cpc, msg, status, proc_pgroup, parent, new_group, old_group,
                 frame>>

\* ... and passed over when it is not.
NextSlot(c, p) ==
  LET i == new_group[p] IN
  /\ Runs(c, p, "create_scan")
  /\ id[i] # -1
  /\ new_group' = [new_group EXCEPT ![p] = i + 1]
  /\ PanicUnless(i + 1 < MAX_PROC_GROUP_NUM, "out_of_groups")
  /\ UNCHANGED <<groupVars, cpuVars, status, proc_pgroup, parent, pc,
                 old_group, frame>>

\* create_pgroup: the process follows its CPU into the new group.
EnterCreated(c, p) ==
  /\ Runs(c, p, "create_add")
  /\ add_my_proc_to_pgroup(new_group[p], p)
  /\ PanicUnless(proc_pgroup[p] = -1, "proc_added_twice")
  /\ new_group' = [new_group EXCEPT ![p] = -1]
  /\ Step(p, "user")
  /\ UNCHANGED <<id, cpus, exclusively_occupy, free_cpus, um_box, cpuVars,
                 status, parent, old_group, frame>>

----------------------------------------------------------------------------
\* enter_pgroup

\* The process leaves its group without the CPU, for group t.
enter_pgroup(c, p, t) ==
  /\ Calls(c, p)
  /\ t # proc_pgroup[p]
  /\ remove_my_proc_from_pgroup(proc_pgroup[p], p)
  /\ PanicUnless(ProcAdded(p), "proc_not_added")
  /\ new_group' = [new_group EXCEPT ![p] = t]
  /\ old_group' = [old_group EXCEPT ![p] = proc_pgroup[p]]
  /\ Step(p, "enter_new")
  /\ UNCHANGED <<id, cpus, exclusively_occupy, free_cpus, um_box, cpuVars,
                 status, parent, frame>>

\* Under the new group's lock: the process enters, then yields its CPU, ...
EnterNew(c, p) ==
  /\ Runs(c, p, "enter_new")
  /\ id[new_group[p]] # -1
  /\ add_my_proc_to_pgroup(new_group[p], p)
  /\ PanicUnless(proc_pgroup[p] = -1, "proc_added_twice")
  /\ new_group' = [new_group EXCEPT ![p] = -1]
  /\ old_group' = [old_group EXCEPT ![p] = -1]
  /\ Step(p, "yield")
  /\ UNCHANGED <<id, cpus, exclusively_occupy, free_cpus, um_box, cpuVars,
                 status, parent, frame>>

\* Mutant: the process is not put back into its old group.
EnterFailsForGood(c, p) ==
  /\ Runs(c, p, "enter_new")
  /\ id[new_group[p]] = -1
  /\ new_group' = [new_group EXCEPT ![p] = -1]
  /\ Step(p, "yield")
  /\ UNCHANGED <<groupVars, cpuVars, status, proc_pgroup, parent, old_group,
                 frame, panic>>

\* ... or finds the group free ...
EnterFails(c, p) ==
  /\ Runs(c, p, "enter_new")
  /\ id[new_group[p]] = -1
  /\ new_group' = [new_group EXCEPT ![p] = -1]
  /\ Step(p, "enter_back")
  /\ UNCHANGED <<groupVars, cpuVars, status, proc_pgroup, parent, old_group,
                 frame, panic>>

\* ... and goes back to the old one.
EnterBack(c, p) ==
  /\ Runs(c, p, "enter_back")
  /\ add_my_proc_to_pgroup(old_group[p], p)
  /\ PanicUnless(proc_pgroup[p] = -1, "proc_added_twice")
  /\ old_group' = [old_group EXCEPT ![p] = -1]
  /\ Step(p, "user")
  /\ UNCHANGED <<id, cpus, exclusively_occupy, free_cpus, um_box, cpuVars,
                 status, parent, new_group, frame>>

----------------------------------------------------------------------------
\* inc_pgroup_cpus, inc_pgroup_cpus_flex

\* Mutants: the counter is not looked at; the counter is not decremented.
ReserveUnchecked(c, p) ==
  /\ Calls(c, p)
  /\ proc_pgroup[p] # DEFAULT_PGROUP_ID
  /\ ~exclusively_occupy[proc_pgroup[p]]
  /\ free_cpus' = free_cpus - 1
  /\ UNCHANGED <<id, cpus, procs_head, exclusively_occupy, um_box, cpuVars,
                 status, proc_pgroup, parent, new_group, old_group, panic>>

ReserveUncounted(c, p) ==
  /\ Calls(c, p)
  /\ proc_pgroup[p] # DEFAULT_PGROUP_ID
  /\ ~exclusively_occupy[proc_pgroup[p]]
  /\ free_cpus > 0
  /\ UNCHANGED <<groupVars, cpuVars, status, proc_pgroup, parent, new_group,
                 old_group, panic>>

\* The checks and dec_free_cpus of both calls.  While p is in the group no
\* other process can make it exclusively occupied, so the unlocked test and
\* the decrement are one step.
ReserveCpu(c, p) ==
  /\ Calls(c, p)
  /\ proc_pgroup[p] # DEFAULT_PGROUP_ID
  /\ ~exclusively_occupy[proc_pgroup[p]]
  /\ free_cpus > 0
  /\ free_cpus' = free_cpus - 1
  /\ UNCHANGED <<id, cpus, procs_head, exclusively_occupy, um_box, cpuVars,
                 status, proc_pgroup, parent, new_group, old_group, panic>>

inc_pgroup_cpus(c, p) ==
  /\ ReserveCpu(c, p)
  /\ frame' = [frame EXCEPT ![p] = proc_pgroup[p]]
  /\ Step(p, "inc_send")

\* The message is sent and the process sleeps: sleep takes the process lock
\* before it gives up the group lock, so a wake_up comes after both.
IncSend(c, p) ==
  /\ Runs(c, p, "inc_send")
  /\ send_cpu_message([type |-> "NEED_CPU", proc |-> p, group |-> -1])
  /\ status' = [status EXCEPT ![p] = "SLEEP"]
  /\ Step(p, "inc_sleep")
  /\ SwitchToScheduler(c)
  /\ UNCHANGED <<id, cpus, procs_head, exclusively_occupy, free_cpus,
                 cpu_pgroup, msg, proc_pgroup, parent, new_group, old_group,
                 frame>>

\* sleep returns, for whatever reason, and so does the call.
IncReturn(c, p) ==
  /\ Runs(c, p, "inc_sleep")
  /\ frame' = [frame EXCEPT ![p] = -1]
  /\ Step(p, "user")
  /\ UNCHANGED <<groupVars, cpuVars, status, proc_pgroup, parent, new_group,
                 old_group, panic>>

inc_pgroup_cpus_flex(c, p) ==
  /\ ReserveCpu(c, p)
  /\ Step(p, "flex_send")
  /\ UNCHANGED frame

FlexSend(c, p) ==
  /\ Runs(c, p, "flex_send")
  /\ send_cpu_message([type |-> "NEED_CPU_FLEX", proc |-> NoProc,
                       group |-> proc_pgroup[p]])
  /\ Step(p, "user")
  /\ UNCHANGED <<id, cpus, procs_head, exclusively_occupy, free_cpus, cpuVars,
                 status, proc_pgroup, parent, new_group, old_group, frame>>

----------------------------------------------------------------------------
\* dec_pgroup_cpus

\* The CPU leaves the group, when it may, ...
dec_pgroup_cpus(c, p) ==
  LET g == cpu_pgroup[c] IN
  /\ Calls(c, p)
  /\ g # DEFAULT_PGROUP_ID
  /\ MayLeave(g, c, procs_head[g])
  /\ cpu_leave_pgroup(g, c)
  /\ panic' = LeavePanic(g, c)
  /\ Step(p, "dec_add")
  /\ UNCHANGED <<procs_head, um_box, my_proc, cpc, msg, status, proc_pgroup,
                 parent, new_group, old_group, frame>>

\* ... joins the default group ...
DecJoinDefault(c, p) ==
  /\ Runs(c, p, "dec_add")
  /\ JoinDefault(c)
  /\ Step(p, "dec_count")
  /\ UNCHANGED <<id, procs_head, exclusively_occupy, free_cpus, um_box,
                 my_proc, cpc, msg, status, proc_pgroup, parent, new_group,
                 old_group, frame>>

\* Mutant: the process goes on, on a CPU of the default group.
CountWithoutYield(c, p) ==
  /\ Runs(c, p, "dec_count")
  /\ free_cpus' = free_cpus + 1
  /\ Step(p, "user")
  /\ UNCHANGED <<id, cpus, procs_head, exclusively_occupy, um_box, cpuVars,
                 status, proc_pgroup, parent, new_group, old_group, frame,
                 panic>>

\* ... and is counted; the process, still on it, yields.
DecCount(c, p) ==
  /\ Runs(c, p, "dec_count")
  /\ free_cpus' = free_cpus + 1
  /\ Step(p, "yield")
  /\ UNCHANGED <<id, cpus, procs_head, exclusively_occupy, um_box, cpuVars,
                 status, proc_pgroup, parent, new_group, old_group, frame,
                 panic>>

----------------------------------------------------------------------------
\* proc_occupy_cpu, proc_release_cpu

Alone(g) == /\ pgroup_procs_count_unsafe(g) = 1
            /\ pgroup_cpu_count_unsafe(g) = 1

SetOccupied(g, b) ==
  /\ exclusively_occupy' = [exclusively_occupy EXCEPT ![g] = b]
  /\ UNCHANGED <<id, cpus, procs_head, free_cpus, um_box, cpuVars, procVars>>

proc_occupy_cpu(c, p) ==
  /\ Calls(c, p)
  /\ proc_pgroup[p] # DEFAULT_PGROUP_ID
  /\ Alone(proc_pgroup[p])
  /\ SetOccupied(proc_pgroup[p], TRUE)
  /\ UNCHANGED panic

\* proc_release_cpu: the head count is checked before the flag.
proc_release_cpu(c, p) ==
  LET g == proc_pgroup[p] IN
  /\ Calls(c, p)
  /\ Alone(g) => exclusively_occupy[g]
  /\ IF Alone(g)
       THEN SetOccupied(g, FALSE) /\ UNCHANGED panic
       ELSE /\ panic' = "release_not_alone"
            /\ UNCHANGED <<groupVars, cpuVars, procVars>>

----------------------------------------------------------------------------
\* panic_2str: the hart that panics spins for ever.  The model stops there and
\* leaves out what the other harts still do.
Halted == panic # "none" /\ UNCHANGED vars

CpuStep(c) ==
  \/ proc_group_init_hart(c)
  \/ inc_free_cpus(c)
  \/ NoMessage(c)
  \/ TakeMessage(c)
  \/ LeaveDefault(c)
  \/ JoinGroup(c)
  \/ GroupGone(c)
  \/ BackToDefault(c)
  \/ cpu_leave_pgroup_if_empty(c)
  \/ IdleIntoDefault(c)
  \/ \E p \in Procs : RunProcess(c, p)
  \/ NoRunable(c)

\* The steps of a system call under way, which nothing can hold up.
CallStep(c, p) ==
  \/ exit_pgroup(c, p)
  \/ ExitZombie(c, p)
  \/ ClaimSlot(c, p)
  \/ NextSlot(c, p)
  \/ EnterCreated(c, p)
  \/ EnterNew(c, p)
  \/ EnterFails(c, p)
  \/ EnterBack(c, p)
  \/ IncSend(c, p)
  \/ IncReturn(c, p)
  \/ FlexSend(c, p)
  \/ DecJoinDefault(c, p)
  \/ DecCount(c, p)

\* What a running process may ask for.
Call(c, p) ==
  \/ sleep(c, p)
  \/ \E q \in Procs : fork(c, p, q)
  \/ \E q \in Procs : ForkRefused(c, p, q)
  \/ exit(c, p)
  \/ \E q \in Procs : wait(c, p, q)
  \/ create_pgroup(c, p)
  \/ \E t \in GroupIds : enter_pgroup(c, p, t)
  \/ inc_pgroup_cpus(c, p)
  \/ inc_pgroup_cpus_flex(c, p)
  \/ dec_pgroup_cpus(c, p)
  \/ proc_occupy_cpu(c, p)
  \/ proc_release_cpu(c, p)

Next ==
  \/ \E c \in CPUs : CpuStep(c)
  \/ \E c \in CPUs, p \in Procs :
       /\ my_proc[c] = p
       /\ \/ yield(c, p)
          \/ CallStep(c, p)
          \/ Call(c, p)
  \/ \E p \in Procs : wake_up(p)
  \/ Halted

Spec == Init /\ [][Next]_vars

----------------------------------------------------------------------------
\* Properties

\* Every variable has its type: free_cpus never goes below 0, and ids and
\* cursors stay inside the group table (one past it after a failed scan).
TypeOK ==
  /\ id \in [GroupIds -> MaybeGroup]
  /\ cpus \in [GroupIds -> SUBSET CPUs]
  /\ procs_head \in [GroupIds -> SUBSET Procs]
  /\ exclusively_occupy \in [GroupIds -> BOOLEAN]
  /\ free_cpus \in Nat
  /\ um_box \in Seq(Messages)
  /\ cpu_pgroup \in [CPUs -> MaybeGroup]
  /\ my_proc \in [CPUs -> Procs \cup {NoProc}]
  /\ cpc \in [CPUs -> CpuLocs]
  /\ msg \in [CPUs -> Messages]
  /\ status \in [Procs -> Status]
  /\ proc_pgroup \in [Procs -> MaybeGroup]
  /\ parent \in [Procs -> Procs \cup {NoProc}]
  /\ pc \in [Procs -> IntrOnLocs \cup IntrOffLocs]
  /\ new_group \in [Procs -> -1 .. MAX_PROC_GROUP_NUM]
  /\ old_group \in [Procs -> MaybeGroup]
  /\ frame \in [Procs -> MaybeGroup]
  /\ panic \in Panics \cup {"none"}

\* The invariant of proc_group.h: a free slot has no members and is not
\* occupied, a group in use keeps at least one CPU, so that whatever enters
\* it can run.
GroupInvariant ==
  \A g \in GroupIds :
    IF id[g] = -1
      THEN cpus[g] = {} /\ procs_head[g] = {} /\ ~exclusively_occupy[g]
      ELSE id[g] = g /\ cpus[g] # {}

\* The groups' member lists and the group ids kept in the CPUs and processes
\* say the same, between any two critical sections.
MembersAgree ==
  /\ \A c \in CPUs, g \in GroupIds : c \in cpus[g] <=> cpu_pgroup[c] = g
  /\ \A p \in Procs, g \in GroupIds :
       p \in procs_head[g] <=> proc_pgroup[p] = g

\* No process is lost: one that waits for a CPU or for an event is in the list
\* of a group that has a CPU to run it.  The moment within fork at which the child
\* is RUNABLE and not yet in its parent's list is inside a step here; the property
\* does not hold at that moment, and says of it that the fork gets over it.
NoProcLost ==
  panic = "none" =>
    \A p \in Procs : status[p] \in {"RUNABLE", "SLEEP"} =>
      \E g \in GroupIds : p \in procs_head[g] /\ cpus[g] # {}

\* A process outside a group operation runs on a CPU of its own group, and
\* one on its way between groups on a CPU that still holds its old group
\* ("we can add proc to old group back safely" in enter_pgroup).
OnOwnCpu ==
  panic = "none" =>
    \A c \in CPUs, p \in Procs : my_proc[c] = p =>
      /\ pc[p] \in IntrOnLocs \ {"yield"} => cpu_pgroup[c] = proc_pgroup[p]
      /\ pc[p] \in {"enter_new", "enter_back"} => cpu_pgroup[c] = old_group[p]
      /\ pc[p] = "create_add" => cpu_pgroup[c] = new_group[p]

\* CPUs of the default group that are promised away (by a call that has not
\* sent its message yet, by a message in the box, by a message that a CPU has
\* taken) or that are not counted yet.
Pending ==
  Len(um_box)
  + Cardinality({p \in Procs : pc[p] \in {"inc_send", "flex_send"}})
  + Cardinality({p \in Procs : pc[p] = "dec_count"})
  + Cardinality({c \in CPUs : cpc[c] \in {"take", "count"}})

\* free_cpus and the promises under way never exceed what the default group
\* can give while it keeps one CPU.
FreeCpusCovered ==
  1 + free_cpus + Pending <= Cardinality(cpus[DEFAULT_PGROUP_ID])

\* alloc_pgroup scans slot after slot, each under its own lock, while groups
\* come and go; yet from any slot on there are as many free slots as scans
\* that have reached it, so no scan runs off the end of the table.
ScanFindsSlot ==
  \A k \in GroupIds :
    Cardinality({p \in Procs : pc[p] = "create_scan" /\ new_group[p] >= k})
      <= Cardinality({g \in GroupIds : g >= k /\ id[g] = -1})

\* The panics that system calls can provoke; see the README.
CallPanics == {"fork_refused",
               "release_not_alone",
               "empty_group_acquires"}

\* The other assertions of Panics hold: no group takes the last CPU of the default
\* group, the message box never overflows, a free slot is found, the default group
\* is never freed, no member is added twice or removed when it is not there.
\* Assertions that are not in Panics: that free_cpus is not negative (see TypeOK),
\* that interrupts are off and that a CPU or process is the caller's own, which the
\* model has by construction, the unknown type of a message, and those of boot.
NoKernelPanic == panic \in {"none"} \cup CallPanics

\* "we only allocate cpus from default group, other group's cpus won't be
\* allocated": a CPU leaves a group that has processes only when the process
\* it runs gives it away.
OnlyDefaultGivesCpus ==
  [][\A c \in CPUs :
       LET g == cpu_pgroup[c] IN
       /\ g \notin {-1, DEFAULT_PGROUP_ID}
       /\ procs_head[g] # {}
       /\ cpu_pgroup'[c] # g
       => \E p \in Procs : /\ my_proc[c] = p
                          /\ pc[p] = "user"
                          /\ pc'[p] \in {"create_scan", "dec_add"}]_vars

----------------------------------------------------------------------------
\* The inductive invariant behind the safety properties: what is known of a
\* CPU, a process and a message at each place of the code.

\* Places between groups, where the process is in no list.
Outside == {"create_scan", "create_add", "enter_new", "enter_back", "exit"}

CpuInv ==
  \A c \in CPUs :
    /\ cpc[c] = "proc" <=> my_proc[c] # NoProc
    /\ \A d \in CPUs : my_proc[c] = my_proc[d] /\ my_proc[c] # NoProc => c = d
    /\ cpc[c] \in {"boot", "join", "back", "leave"} => cpu_pgroup[c] = -1
    /\ cpc[c] \in {"sched", "run"} => cpu_pgroup[c] # -1
    /\ cpc[c] \in {"take", "count"} => cpu_pgroup[c] = DEFAULT_PGROUP_ID
    /\ cpc[c] \in {"take", "join", "back"} => msg[c].group \in GroupIds

\* Like NoProcLost, it passes over the moment within fork at which the child is
\* RUNABLE and in no list.
ProcInv ==
  \A p \in Procs :
    /\ status[p] = "RUNNING" <=> \E c \in CPUs : my_proc[c] = p
    /\ pc[p] \in IntrOffLocs \cup {"yield"} => status[p] = "RUNNING"
    /\ status[p] \in {"UNUSED", "ZOMBIE"} => pc[p] = "user"
    /\ proc_pgroup[p] = -1 <=> \/ status[p] \in {"UNUSED", "ZOMBIE"}
                              \/ pc[p] \in Outside
    /\ pc[p] \in {"create_scan", "create_add", "enter_new"} =>
         new_group[p] \in GroupIds
    /\ pc[p] \in {"enter_new", "enter_back"} => old_group[p] \in GroupIds

\* A process on a CPU, in the steps during which the CPU is in no group or has
\* just joined the default group.
RunInv ==
  \A c \in CPUs, p \in Procs : my_proc[c] = p =>
    /\ cpu_pgroup[c] = -1 <=> pc[p] \in {"create_scan", "dec_add"}
    /\ pc[p] = "dec_count" => cpu_pgroup[c] = DEFAULT_PGROUP_ID

\* The init process stays in the default group, which therefore is never freed.
InitInv == /\ pc[InitProc] = "user"
           /\ status[InitProc] \notin {"UNUSED", "ZOMBIE"}
           /\ proc_pgroup[InitProc] = DEFAULT_PGROUP_ID

MsgInv ==
  \A i \in 1 .. Len(um_box) :
    \/ um_box[i].type = "NEED_CPU" /\ um_box[i].proc \in Procs
    \/ um_box[i].type = "NEED_CPU_FLEX" /\ um_box[i].group \in GroupIds

IInv ==
  /\ TypeOK
  /\ GroupInvariant
  /\ MembersAgree
  /\ panic = "none" => CpuInv /\ ProcInv /\ RunInv /\ InitInv /\ MsgInv
  /\ OnOwnCpu

----------------------------------------------------------------------------
\* Liveness.  A CPU in its scheduler loop and a call with its locks free go on
\* (weak fairness).  The timer fires again and again on every hart and an
\* interrupt that is pending is taken as soon as they are enabled, so a process
\* that is preemptible over and over is preempted (strong fairness).
Fairness ==
  /\ \A c \in CPUs : WF_vars(CpuStep(c))
  /\ \A c \in CPUs : WF_vars(\E p \in Procs : CallStep(c, p))
  /\ \A c \in CPUs : SF_vars(\E p \in Procs : yield(c, p))

FairSpec == Spec /\ Fairness

\* inc_pgroup_cpus does not sleep for ever: some CPU of the default group takes
\* the message and wakes the caller, unless the kernel panics.
IncServed ==
  \A p \in Procs :
    (pc[p] = "inc_sleep" /\ status[p] = "SLEEP")
      ~> (status[p] # "SLEEP" \/ panic # "none")

\* A group that the last process has left is freed by its CPUs, unless a
\* process enters it again.
EmptyGroupFreed ==
  \A g \in GroupIds \ {DEFAULT_PGROUP_ID} :
    (id[g] # -1 /\ procs_head[g] = {})
      ~> (id[g] = -1 \/ procs_head[g] # {} \/ panic # "none")

----------------------------------------------------------------------------
\* What the documentation of the calls says, and the code does not keep

\* inc_proc_group_cpus, unlike the flex variant, returns when the group has
\* got its CPU: a caller that is awake again has no message outstanding.
IncWaitsForCpu ==
  \A p \in Procs : pc[p] = "inc_sleep" /\ status[p] # "SLEEP" =>
    /\ \A i \in 1 .. Len(um_box) : um_box[i].proc # p
    /\ \A c \in CPUs : msg[c].proc # p
=============================================================================

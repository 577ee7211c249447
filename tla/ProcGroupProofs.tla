-------------------------- MODULE ProcGroupProofs --------------------------
(***************************************************************************)
(* IInv is preserved by the calls that move CPUs between groups, hence by  *)
(* every step; the theorems about ProcGroup that follow from it.           *)
(***************************************************************************)
EXTENDS ProcGroupCalls

\* Time for the SMT solver, for the leaves that name no other prover.
USE SMTT(30)

-----------------------------------------------------------------------------
\* inc_pgroup_cpus, inc_pgroup_cpus_flex

\* inc_pgroup_cpus preserves IInv.
LEMMA inc_pgroup_cpus_Step ==
  ASSUME IInv, NEW c \in CPUs, NEW p \in Procs, inc_pgroup_cpus(c, p)
  PROVE  IInv'
<1> USE Facts, Constants DEF inc_pgroup_cpus, ReserveCpu, Calls, Runs, Step,
      cpuVars, MaybeGroup, DEFAULT_PGROUP_ID
<1>1. TypeOK'
  BY DEF TypeOK, IntrOnLocs, IntrOffLocs
<1>2. panic' = "none" => ProcInv'
  BY DEF TypeOK, ProcInv, IntrOnLocs, IntrOffLocs, Outside
<1>3. panic' = "none" => RunInv'
  BY ZenonT(30) DEF TypeOK, RunInv
<1>4. panic' = "none" => InitInv'
  BY DEF TypeOK, InitInv
<1>5. OnOwnCpu'
  BY DEF TypeOK, OnOwnCpu, IntrOnLocs
<1>6. GroupInvariant' /\ MembersAgree' /\ (panic' = "none" => CpuInv' /\
      MsgInv')
  BY DEF GroupInvariant, MembersAgree, CpuInv, MsgInv
<1> HIDE DEF inc_pgroup_cpus, ReserveCpu, Calls, Runs, Step, cpuVars
<1> QED BY <1>1, <1>2, <1>3, <1>4, <1>5, <1>6 DEF IInv

\* IncSend preserves IInv.
LEMMA IncSend_Step ==
  ASSUME IInv, NEW c \in CPUs, NEW p \in Procs, IncSend(c, p)
  PROVE  IInv'
<1> USE Facts, Constants DEF IncSend, Runs, Step, send_cpu_message,
      PanicUnless, SwitchToScheduler, GoTo, MaybeGroup, DEFAULT_PGROUP_ID
<1>1. OnCpu(c, p)
  BY Running
<1>2. TypeOK'
  BY <1>1, MessageTypes DEF TypeOK, Panics, Status, CpuLocs, IntrOnLocs,
        IntrOffLocs
<1>3. panic' = "none" => CpuInv'
  BY <1>1 DEF TypeOK, CpuInv, OnCpu
<1>4. panic' = "none" => ProcInv'
  BY <1>1 DEF TypeOK, ProcInv, OnCpu, IntrOnLocs, IntrOffLocs, Outside
<1>5. panic' = "none" => RunInv'
  BY <1>1, ZenonT(30) DEF TypeOK, RunInv
<1>6. panic' = "none" => InitInv'
  BY <1>1 DEF TypeOK, InitInv
<1>7. panic' = "none" => MsgInv'
  BY <1>1 DEF TypeOK, MsgInv
<1>8. OnOwnCpu'
  BY <1>1 DEF TypeOK, OnOwnCpu, IntrOnLocs
<1>9. GroupInvariant' /\ MembersAgree'
  BY ZenonT(30) DEF GroupInvariant, MembersAgree
<1> HIDE DEF IncSend, Runs, Step, send_cpu_message, PanicUnless,
      SwitchToScheduler, GoTo
<1> QED BY <1>2, <1>3, <1>4, <1>5, <1>6, <1>7, <1>8, <1>9 DEF IInv

\* IncReturn preserves IInv.
LEMMA IncReturn_Step ==
  ASSUME IInv, NEW c \in CPUs, NEW p \in Procs, IncReturn(c, p)
  PROVE  IInv'
<1> USE Facts, Constants DEF IncReturn, Runs, Step, groupVars, cpuVars,
      MaybeGroup, DEFAULT_PGROUP_ID
<1>1. TypeOK'
  BY DEF TypeOK, IntrOnLocs, IntrOffLocs
<1>2. panic' = "none" => ProcInv'
  BY DEF TypeOK, ProcInv, IntrOnLocs, IntrOffLocs, Outside
<1>3. panic' = "none" => RunInv'
  BY ZenonT(30) DEF TypeOK, RunInv
<1>4. panic' = "none" => InitInv'
  BY DEF TypeOK, InitInv
<1>5. OnOwnCpu'
  BY DEF TypeOK, OnOwnCpu, IntrOnLocs
<1>6. GroupInvariant' /\ MembersAgree' /\ (panic' = "none" => CpuInv' /\
      MsgInv')
  BY DEF GroupInvariant, MembersAgree, CpuInv, MsgInv
<1> HIDE DEF IncReturn, Runs, Step, groupVars, cpuVars
<1> QED BY <1>1, <1>2, <1>3, <1>4, <1>5, <1>6 DEF IInv

\* inc_pgroup_cpus_flex preserves IInv.
LEMMA inc_pgroup_cpus_flex_Step ==
  ASSUME IInv, NEW c \in CPUs, NEW p \in Procs, inc_pgroup_cpus_flex(c, p)
  PROVE  IInv'
<1> USE Facts, Constants DEF inc_pgroup_cpus_flex, ReserveCpu, Calls, Runs,
      Step, cpuVars, MaybeGroup, DEFAULT_PGROUP_ID
<1>1. TypeOK'
  BY DEF TypeOK, IntrOnLocs, IntrOffLocs
<1>2. panic' = "none" => ProcInv'
  BY DEF TypeOK, ProcInv, IntrOnLocs, IntrOffLocs, Outside
<1>3. panic' = "none" => RunInv'
  BY ZenonT(30) DEF TypeOK, RunInv
<1>4. panic' = "none" => InitInv'
  BY DEF TypeOK, InitInv
<1>5. OnOwnCpu'
  BY DEF TypeOK, OnOwnCpu, IntrOnLocs
<1>6. GroupInvariant' /\ MembersAgree' /\ (panic' = "none" => CpuInv' /\
      MsgInv')
  BY DEF GroupInvariant, MembersAgree, CpuInv, MsgInv
<1> HIDE DEF inc_pgroup_cpus_flex, ReserveCpu, Calls, Runs, Step, cpuVars
<1> QED BY <1>1, <1>2, <1>3, <1>4, <1>5, <1>6 DEF IInv

\* FlexSend preserves IInv.
LEMMA FlexSend_Step ==
  ASSUME IInv, NEW c \in CPUs, NEW p \in Procs, FlexSend(c, p)
  PROVE  IInv'
<1> USE Facts, Constants DEF FlexSend, Runs, Step, send_cpu_message,
      PanicUnless, cpuVars, MaybeGroup, DEFAULT_PGROUP_ID
<1>1. OnCpu(c, p)
  BY Running
<1>2. proc_pgroup[p] \in GroupIds
  BY <1>1 DEF OnCpu, Outside, TypeOK
<1>3. TypeOK'
  BY <1>1, <1>2, MessageTypes DEF TypeOK, Panics, IntrOnLocs, IntrOffLocs
<1>4. panic' = "none" => ProcInv'
  BY <1>1, <1>2 DEF TypeOK, ProcInv, IntrOnLocs, IntrOffLocs, Outside
<1>5. panic' = "none" => RunInv'
  BY <1>1, <1>2, ZenonT(30) DEF TypeOK, RunInv
<1>6. panic' = "none" => InitInv'
  BY <1>1, <1>2 DEF TypeOK, InitInv
<1>7. panic' = "none" => MsgInv'
  BY <1>1, <1>2 DEF TypeOK, MsgInv
<1>8. OnOwnCpu'
  BY <1>1, <1>2 DEF TypeOK, OnOwnCpu, IntrOnLocs
<1>9. GroupInvariant' /\ MembersAgree' /\ (panic' = "none" => CpuInv')
  BY DEF GroupInvariant, MembersAgree, CpuInv
<1> HIDE DEF FlexSend, Runs, Step, send_cpu_message, PanicUnless, cpuVars
<1> QED BY <1>3, <1>4, <1>5, <1>6, <1>7, <1>8, <1>9 DEF IInv

-----------------------------------------------------------------------------
\* dec_pgroup_cpus

\* dec_pgroup_cpus preserves IInv.
LEMMA dec_pgroup_cpus_Step ==
  ASSUME IInv, NEW c \in CPUs, NEW p \in Procs, dec_pgroup_cpus(c, p)
  PROVE  IInv'
<1> USE Facts, Constants DEF dec_pgroup_cpus, Calls, Runs, Step, MayLeave,
      cpu_leave_pgroup, LeavePanic, remove_my_cpu_from_pgroup, CpuAdded,
      free_pgroup_if, MaybeGroup, DEFAULT_PGROUP_ID
<1>1. OnCpu(c, p)
  BY Running
<1>2. TypeOK'
  BY <1>1, ZenonT(30) DEF TypeOK, Panics, IntrOnLocs, IntrOffLocs
<1>3. GroupInvariant'
  BY <1>1 DEF TypeOK, GroupInvariant, MembersAgree
<1>4. MembersAgree'
  BY <1>1 DEF TypeOK, MembersAgree
<1>5. panic' = "none" => CpuInv'
  BY <1>1 DEF TypeOK, CpuInv, OnCpu
<1>6. panic' = "none" => ProcInv'
  BY <1>1 DEF TypeOK, ProcInv, OnCpu, IntrOnLocs, IntrOffLocs, Outside
<1>7. panic' = "none" => RunInv'
  BY <1>1 DEF TypeOK, RunInv, OnCpu, IntrOnLocs, IntrOffLocs, Outside
<1>8. panic' = "none" => InitInv'
  BY <1>1 DEF TypeOK, InitInv
<1>9. OnOwnCpu'
  BY <1>1 DEF TypeOK, OnOwnCpu, OnCpu, IntrOnLocs, IntrOffLocs, Outside
<1>10. (panic' = "none" => MsgInv')
  BY DEF MsgInv
<1> HIDE DEF dec_pgroup_cpus, Calls, Runs, Step, MayLeave, cpu_leave_pgroup,
      LeavePanic, remove_my_cpu_from_pgroup, CpuAdded, free_pgroup_if
<1> QED BY <1>2, <1>3, <1>4, <1>5, <1>6, <1>7, <1>8, <1>9, <1>10 DEF IInv

\* DecJoinDefault preserves IInv.
LEMMA DecJoinDefault_Step ==
  ASSUME IInv, NEW c \in CPUs, NEW p \in Procs, DecJoinDefault(c, p)
  PROVE  IInv'
<1> USE Facts, Constants DEF DecJoinDefault, Runs, Step, JoinDefault,
      add_my_cpu_to_pgroup, CpuNotAdded, PanicUnless, MaybeGroup,
      DEFAULT_PGROUP_ID
<1>1. OnCpu(c, p)
  BY Running
<1>2. id[0] = 0 /\ cpus[0] # {}
  BY DEF GroupInvariant, MembersAgree, InitInv, TypeOK
<1>3. TypeOK'
  BY <1>1, <1>2 DEF TypeOK, Panics, IntrOnLocs, IntrOffLocs
<1>4. GroupInvariant'
  BY <1>1, <1>2 DEF GroupInvariant, TypeOK
<1>5. MembersAgree'
  BY <1>1, <1>2 DEF TypeOK, MembersAgree, OnCpu
<1>6. panic' = "none" => CpuInv'
  BY <1>1, <1>2 DEF TypeOK, CpuInv
<1>7. panic' = "none" => ProcInv'
  BY <1>1, <1>2 DEF TypeOK, ProcInv, OnCpu, IntrOnLocs, IntrOffLocs, Outside
<1>8. panic' = "none" => RunInv'
  BY <1>1, <1>2 DEF TypeOK, RunInv, OnCpu, IntrOnLocs, IntrOffLocs, Outside
<1>9. panic' = "none" => InitInv'
  BY <1>1, <1>2 DEF TypeOK, InitInv
<1>10. OnOwnCpu'
  BY <1>1, <1>2 DEF TypeOK, OnOwnCpu, OnCpu, IntrOnLocs, IntrOffLocs, Outside
<1>11. (panic' = "none" => MsgInv')
  BY DEF MsgInv
<1> HIDE DEF DecJoinDefault, Runs, Step, JoinDefault, add_my_cpu_to_pgroup,
      CpuNotAdded, PanicUnless
<1> QED BY <1>3, <1>4, <1>5, <1>6, <1>7, <1>8, <1>9, <1>10, <1>11 DEF IInv

\* DecCount preserves IInv.
LEMMA DecCount_Step ==
  ASSUME IInv, NEW c \in CPUs, NEW p \in Procs, DecCount(c, p)
  PROVE  IInv'
<1> USE Facts, Constants DEF DecCount, Runs, Step, cpuVars, MaybeGroup,
      DEFAULT_PGROUP_ID
<1>1. TypeOK'
  BY DEF TypeOK, IntrOnLocs, IntrOffLocs
<1>2. panic' = "none" => ProcInv'
  BY DEF TypeOK, ProcInv, IntrOnLocs, IntrOffLocs, Outside
<1>3. panic' = "none" => RunInv'
  BY DEF TypeOK, RunInv
<1>4. panic' = "none" => InitInv'
  BY DEF TypeOK, InitInv
<1>5. OnOwnCpu'
  BY DEF TypeOK, OnOwnCpu, IntrOnLocs
<1>6. GroupInvariant' /\ MembersAgree' /\ (panic' = "none" => CpuInv' /\
      MsgInv')
  BY DEF GroupInvariant, MembersAgree, CpuInv, MsgInv
<1> HIDE DEF DecCount, Runs, Step, cpuVars
<1> QED BY <1>1, <1>2, <1>3, <1>4, <1>5, <1>6 DEF IInv

-----------------------------------------------------------------------------
\* proc_occupy_cpu, proc_release_cpu

\* proc_occupy_cpu preserves IInv.
LEMMA proc_occupy_cpu_Step ==
  ASSUME IInv, NEW c \in CPUs, NEW p \in Procs, proc_occupy_cpu(c, p)
  PROVE  IInv'
<1> USE Facts, Constants DEF proc_occupy_cpu, Calls, Runs, SetOccupied,
      cpuVars, procVars, MaybeGroup, DEFAULT_PGROUP_ID
<1>1. TypeOK'
  BY ZenonT(30) DEF TypeOK
<1>2. GroupInvariant'
  BY DEF TypeOK, GroupInvariant, MembersAgree
<1>3. MembersAgree' /\ OnOwnCpu' /\ (panic' = "none" => CpuInv' /\ ProcInv' /\
      RunInv' /\ InitInv' /\ MsgInv')
  BY DEF MembersAgree, CpuInv, ProcInv, RunInv, InitInv, MsgInv, OnOwnCpu
<1> HIDE DEF proc_occupy_cpu, Calls, Runs, SetOccupied, cpuVars, procVars
<1> QED BY <1>1, <1>2, <1>3 DEF IInv

\* proc_release_cpu preserves IInv.
LEMMA proc_release_cpu_Step ==
  ASSUME IInv, NEW c \in CPUs, NEW p \in Procs, proc_release_cpu(c, p)
  PROVE  IInv'
<1> USE Facts, Constants DEF proc_release_cpu, Calls, Runs, SetOccupied,
      groupVars, cpuVars, procVars, MaybeGroup, DEFAULT_PGROUP_ID
<1>1. TypeOK'
  BY ZenonT(30) DEF TypeOK, Panics
<1>2. GroupInvariant'
  BY DEF TypeOK, GroupInvariant, MembersAgree
<1>3. MembersAgree' /\ OnOwnCpu' /\ (panic' = "none" => CpuInv' /\ ProcInv' /\
      RunInv' /\ InitInv' /\ MsgInv')
  BY DEF MembersAgree, CpuInv, ProcInv, RunInv, InitInv, MsgInv, OnOwnCpu
<1> HIDE DEF proc_release_cpu, Calls, Runs, SetOccupied, groupVars, cpuVars,
      procVars
<1> QED BY <1>1, <1>2, <1>3 DEF IInv

-----------------------------------------------------------------------------
\* After a panic nothing changes.
LEMMA Halted_Step ==
  ASSUME IInv, UNCHANGED vars
  PROVE  IInv'
  BY DEF IInv, vars, groupVars, cpuVars, procVars, TypeOK, GroupInvariant,
         MembersAgree, CpuInv, ProcInv, RunInv, InitInv, MsgInv, OnOwnCpu

\* The state in which the kernel starts to schedule satisfies IInv.
LEMMA Init_IInv == Init => IInv
<1> SUFFICES ASSUME Init PROVE IInv
  OBVIOUS
<1> USE Constants DEF Init, MaybeGroup, DEFAULT_PGROUP_ID
<1>1. TypeOK
  BY MessageTypes DEF TypeOK, Panics, Status, CpuLocs, IntrOnLocs, IntrOffLocs
<1>2. GroupInvariant /\ MembersAgree
  BY DEF GroupInvariant, MembersAgree
<1>3. CpuInv
  BY DEF CpuInv
<1>4. ProcInv
  BY DEF ProcInv, Outside, IntrOffLocs
<1>5. RunInv /\ InitInv /\ OnOwnCpu
  BY DEF RunInv, InitInv, OnOwnCpu
<1>6. MsgInv
  BY DEF MsgInv
<1> QED BY <1>1, <1>2, <1>3, <1>4, <1>5, <1>6 DEF IInv

\* Every step of the scheduler loop preserves IInv.
LEMMA CpuStep_IInv ==
  ASSUME IInv, NEW c \in CPUs, CpuStep(c)
  PROVE  IInv'
  BY proc_group_init_hart_Step, inc_free_cpus_Step, NoMessage_Step,
     TakeMessage_Step, LeaveDefault_Step, JoinGroup_Step, GroupGone_Step,
     BackToDefault_Step, cpu_leave_pgroup_if_empty_Step, IdleIntoDefault_Step,
     RunProcess_Step, NoRunable_Step
  DEF CpuStep

\* Every step of a system call under way preserves IInv.
LEMMA CallStep_IInv ==
  ASSUME IInv, NEW c \in CPUs, NEW p \in Procs, CallStep(c, p)
  PROVE  IInv'
  BY exit_pgroup_Step, ExitZombie_Step, ClaimSlot_Step, NextSlot_Step,
     EnterCreated_Step,
     EnterNew_Step, EnterFails_Step, EnterBack_Step, IncSend_Step,
     IncReturn_Step, FlexSend_Step, DecJoinDefault_Step, DecCount_Step
  DEF CallStep

\* The first step of every system call preserves IInv.
LEMMA Call_IInv ==
  ASSUME IInv, NEW c \in CPUs, NEW p \in Procs, Call(c, p)
  PROVE  IInv'
  BY sleep_Step, fork_Step, ForkRefused_Step, exit_Step, wait_Step,
     create_pgroup_Step, enter_pgroup_Step, inc_pgroup_cpus_Step,
     inc_pgroup_cpus_flex_Step, dec_pgroup_cpus_Step, proc_occupy_cpu_Step,
     proc_release_cpu_Step
  DEF Call

\* IInv is preserved by every step of the kernel.
LEMMA Next_IInv == IInv /\ [Next]_vars => IInv'
<1> SUFFICES ASSUME IInv, [Next]_vars PROVE IInv'
  OBVIOUS
<1>1. CASE \E c \in CPUs : CpuStep(c)
  BY <1>1, CpuStep_IInv
<1>2. CASE \E c \in CPUs, p \in Procs : /\ my_proc[c] = p
                                      /\ \/ yield(c, p)
                                         \/ CallStep(c, p)
                                         \/ Call(c, p)
  BY <1>2, yield_Step, CallStep_IInv, Call_IInv
<1>3. CASE \E p \in Procs : wake_up(p)
  BY <1>3, wake_up_Step
<1>4. CASE Halted \/ UNCHANGED vars
  BY <1>4, Halted_Step DEF Halted
<1> QED BY <1>1, <1>2, <1>3, <1>4 DEF Next

\* IInv holds in every reachable state of process groups and CPU allocation.
THEOREM Inductive == Spec => []IInv
  BY Init_IInv, Next_IInv, PTL DEF Spec

\* The variables of proc_group.c keep their types; in particular the counter
\* free_cpus never goes below zero.
THEOREM TypeCorrect == Spec => []TypeOK
<1>1. IInv => TypeOK
  BY DEF IInv
<1> QED BY <1>1, Inductive, PTL

\* The invariant of proc_group.h holds between any two critical sections: a
\* group in use has a CPU, a free slot has neither CPU nor process.
THEOREM GroupsKeepCpus == Spec => []GroupInvariant
<1>1. IInv => GroupInvariant
  BY DEF IInv
<1> QED BY <1>1, Inductive, PTL

\* The member lists of the groups and the ids in CPUs and processes agree.
THEOREM ListsAgree == Spec => []MembersAgree
<1>1. IInv => MembersAgree
  BY DEF IInv
<1> QED BY <1>1, Inductive, PTL

\* A running process is on a CPU of its group, or of the group it is leaving.
THEOREM RunsOnOwnCpu == Spec => []OnOwnCpu
<1>1. IInv => OnOwnCpu
  BY DEF IInv
<1> QED BY <1>1, Inductive, PTL

\* A process that is not running and not dead is listed in a group with a CPU.
THEOREM ProcessesKept == Spec => []NoProcLost
<1>1. IInv => NoProcLost
  <2> SUFFICES ASSUME IInv, panic = "none", NEW p \in Procs,
                      status[p] \in {"RUNABLE", "SLEEP"}
               PROVE  \E g \in GroupIds : p \in procs_head[g] /\ cpus[g] # {}
    BY DEF NoProcLost
  <2>1. proc_pgroup[p] # -1
    BY DEF IInv, ProcInv, Outside, IntrOffLocs
  <2>2. proc_pgroup[p] \in GroupIds
    BY <2>1 DEF IInv, TypeOK, MaybeGroup
  <2>3. p \in procs_head[proc_pgroup[p]]
    BY <2>2 DEF IInv, MembersAgree
  <2>4. cpus[proc_pgroup[p]] # {}
    BY <2>2, <2>3 DEF IInv, GroupInvariant
  <2> QED BY <2>2, <2>3, <2>4
<1> QED BY <1>1, Inductive, PTL
=============================================================================

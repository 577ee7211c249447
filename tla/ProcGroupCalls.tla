--------------------------- MODULE ProcGroupCalls ---------------------------
(***************************************************************************)
(* IInv is preserved by fork, exit, wait, create_pgroup and enter_pgroup.  *)
(***************************************************************************)
EXTENDS ProcGroupSched

\* Time for the SMT solver, for the leaves that name no other prover.
USE SMTT(30)

-----------------------------------------------------------------------------
\* fork, exit, wait

\* fork preserves IInv.
LEMMA fork_Step ==
  ASSUME IInv, NEW c \in CPUs, NEW p \in Procs, NEW q \in Procs,
         fork(c, p, q)
  PROVE  IInv'
<1> USE Facts, Constants DEF fork, Runs, cpuVars, MaybeGroup,
      DEFAULT_PGROUP_ID
<1>1. OnCpu(c, p)
  BY Running
<1>2. TypeOK'
  BY <1>1, ZenonT(30) DEF TypeOK, Status
<1>3. GroupInvariant'
  BY <1>1 DEF TypeOK, GroupInvariant, MembersAgree, ProcInv
<1>4. MembersAgree'
  BY <1>1 DEF TypeOK, MembersAgree, OnCpu, OnOwnCpu, ProcInv, IntrOnLocs,
        IntrOffLocs, Outside
<1>5. panic' = "none" => ProcInv'
  BY <1>1 DEF TypeOK, ProcInv, OnCpu, IntrOnLocs, IntrOffLocs, Outside
<1>6. panic' = "none" => InitInv'
  BY <1>1 DEF TypeOK, InitInv
<1>7. OnOwnCpu'
  BY <1>1 DEF TypeOK, OnOwnCpu, ProcInv, IntrOnLocs, IntrOffLocs, Outside
<1>8. (panic' = "none" => CpuInv' /\ RunInv' /\ MsgInv')
  BY DEF CpuInv, RunInv, MsgInv
<1> HIDE DEF fork, Runs, cpuVars
<1> QED BY <1>2, <1>3, <1>4, <1>5, <1>6, <1>7, <1>8 DEF IInv

\* ForkRefused preserves IInv.
LEMMA ForkRefused_Step ==
  ASSUME IInv, NEW c \in CPUs, NEW p \in Procs, NEW q \in Procs,
         ForkRefused(c, p, q)
  PROVE  IInv'
<1> USE Facts, Constants DEF ForkRefused, Runs, groupVars, cpuVars,
      MaybeGroup, DEFAULT_PGROUP_ID
<1>1. TypeOK'
  BY DEF TypeOK, Panics, Status
<1>2. panic' = "none" => ProcInv'
  BY DEF TypeOK, ProcInv
<1>3. panic' = "none" => InitInv'
  BY DEF TypeOK, InitInv
<1>4. GroupInvariant' /\ MembersAgree' /\ OnOwnCpu' /\ (panic' = "none" =>
      CpuInv' /\ RunInv' /\ MsgInv')
  BY DEF GroupInvariant, MembersAgree, CpuInv, RunInv, MsgInv, OnOwnCpu
<1> HIDE DEF ForkRefused, Runs, groupVars, cpuVars
<1> QED BY <1>1, <1>2, <1>3, <1>4 DEF IInv

\* exit preserves IInv.
LEMMA exit_Step ==
  ASSUME IInv, NEW c \in CPUs, NEW p \in Procs, exit(c, p)
  PROVE  IInv'
<1> USE Facts, Constants DEF exit, Calls, Runs, Step, Woken, groupVars,
      cpuVars, MaybeGroup, DEFAULT_PGROUP_ID
<1>1. TypeOK'
  BY ZenonT(30) DEF TypeOK, Status, IntrOnLocs, IntrOffLocs
<1>2. panic' = "none" => ProcInv'
  BY DEF TypeOK, ProcInv, IntrOnLocs, IntrOffLocs, Outside
<1>3. panic' = "none" => RunInv'
  BY ZenonT(30) DEF TypeOK, RunInv
<1>4. panic' = "none" => InitInv'
  BY DEF TypeOK, InitInv
<1>5. OnOwnCpu'
  BY DEF TypeOK, OnOwnCpu, IntrOnLocs
<1>6. GroupInvariant' /\ MembersAgree' /\ (panic' = "none" => CpuInv' /\
      MsgInv')
  BY DEF GroupInvariant, MembersAgree, CpuInv, MsgInv
<1> HIDE DEF exit, Calls, Runs, Step, Woken, groupVars, cpuVars
<1> QED BY <1>1, <1>2, <1>3, <1>4, <1>5, <1>6 DEF IInv

\* exit_pgroup preserves IInv.
LEMMA exit_pgroup_Step ==
  ASSUME IInv, NEW c \in CPUs, NEW p \in Procs, exit_pgroup(c, p)
  PROVE  IInv'
<1> USE Facts, Constants DEF exit_pgroup, Runs, Step,
      remove_my_proc_from_pgroup, ProcAdded, PanicUnless, cpuVars, MaybeGroup,
      DEFAULT_PGROUP_ID
<1>1. OnCpu(c, p)
  BY Running
<1>2. TypeOK'
  BY <1>1, ZenonT(30) DEF TypeOK, Panics, IntrOnLocs, IntrOffLocs
<1>3. GroupInvariant'
  BY <1>1 DEF TypeOK, GroupInvariant, MembersAgree
<1>4. MembersAgree'
  BY <1>1 DEF TypeOK, MembersAgree, ProcInv, IntrOnLocs, IntrOffLocs, Outside
<1>5. panic' = "none" => ProcInv'
  BY <1>1 DEF TypeOK, ProcInv, OnCpu, IntrOnLocs, IntrOffLocs, Outside
<1>6. panic' = "none" => RunInv'
  BY <1>1, ZenonT(30) DEF TypeOK, RunInv
<1>7. panic' = "none" => InitInv'
  BY <1>1 DEF TypeOK, InitInv
<1>8. OnOwnCpu'
  BY <1>1 DEF TypeOK, OnOwnCpu, IntrOnLocs, IntrOffLocs, Outside
<1>9. (panic' = "none" => CpuInv' /\ MsgInv')
  BY DEF CpuInv, MsgInv
<1> HIDE DEF exit_pgroup, Runs, Step, remove_my_proc_from_pgroup, ProcAdded,
      PanicUnless, cpuVars
<1> QED BY <1>2, <1>3, <1>4, <1>5, <1>6, <1>7, <1>8, <1>9 DEF IInv

\* ExitZombie preserves IInv.
LEMMA ExitZombie_Step ==
  ASSUME IInv, NEW c \in CPUs, NEW p \in Procs, ExitZombie(c, p)
  PROVE  IInv'
<1> USE Facts, Constants DEF ExitZombie, Runs, Step, Woken, SwitchToScheduler,
      GoTo, groupVars, MaybeGroup, DEFAULT_PGROUP_ID
<1>1. OnCpu(c, p)
  BY Running
<1>2. TypeOK'
  BY <1>1, ZenonT(30) DEF TypeOK, Status, CpuLocs, IntrOnLocs, IntrOffLocs
<1>3. panic' = "none" => CpuInv'
  BY <1>1 DEF TypeOK, CpuInv, OnCpu
<1>4. panic' = "none" => ProcInv'
  BY <1>1 DEF TypeOK, ProcInv, CpuInv, IntrOnLocs, IntrOffLocs, Outside
<1>5. panic' = "none" => RunInv'
  BY <1>1 DEF TypeOK, RunInv, CpuInv
<1>6. panic' = "none" => InitInv'
  BY <1>1 DEF TypeOK, InitInv
<1>7. OnOwnCpu'
  BY <1>1 DEF TypeOK, OnOwnCpu, CpuInv, IntrOnLocs, IntrOffLocs, Outside
<1>8. GroupInvariant' /\ MembersAgree' /\ (panic' = "none" => MsgInv')
  BY DEF GroupInvariant, MembersAgree, MsgInv
<1> HIDE DEF ExitZombie, Runs, Step, Woken, SwitchToScheduler, GoTo, groupVars
<1> QED BY <1>2, <1>3, <1>4, <1>5, <1>6, <1>7, <1>8 DEF IInv

\* wait preserves IInv.
LEMMA wait_Step ==
  ASSUME IInv, NEW c \in CPUs, NEW p \in Procs, NEW q \in Procs,
         wait(c, p, q)
  PROVE  IInv'
<1> USE Facts, Constants DEF wait, Runs, groupVars, cpuVars, MaybeGroup,
      DEFAULT_PGROUP_ID
<1>1. TypeOK'
  BY DEF TypeOK, Status
<1>2. panic' = "none" => ProcInv'
  BY DEF TypeOK, ProcInv, IntrOnLocs, IntrOffLocs, Outside
<1>3. panic' = "none" => InitInv'
  BY DEF TypeOK, InitInv
<1>4. GroupInvariant' /\ MembersAgree' /\ OnOwnCpu' /\ (panic' = "none" =>
      CpuInv' /\ RunInv' /\ MsgInv')
  BY DEF GroupInvariant, MembersAgree, CpuInv, RunInv, MsgInv, OnOwnCpu
<1> HIDE DEF wait, Runs, groupVars, cpuVars
<1> QED BY <1>1, <1>2, <1>3, <1>4 DEF IInv

-----------------------------------------------------------------------------
\* create_pgroup

\* create_pgroup preserves IInv.
LEMMA create_pgroup_Step ==
  ASSUME IInv, NEW c \in CPUs, NEW p \in Procs, create_pgroup(c, p)
  PROVE  IInv'
<1> USE Facts, Constants DEF create_pgroup, Calls, Runs, Step, MayLeave,
      cpu_leave_pgroup, remove_my_cpu_from_pgroup, CpuAdded, free_pgroup_if,
      remove_my_proc_from_pgroup, ProcAdded, LeavePanic, MaybeGroup,
      DEFAULT_PGROUP_ID
<1>1. OnCpu(c, p)
  BY Running
<1>2. free_cpus' \in Nat
  BY DEF TypeOK
<1>3. panic' \in Panics \cup {"none"}
  BY DEF TypeOK, Panics
<1>4. TypeOK'
  BY <1>1, <1>2, <1>3, ZenonT(30) DEF TypeOK, Panics, IntrOnLocs, IntrOffLocs
<1>5. GroupInvariant'
  BY <1>1, <1>2, <1>3 DEF TypeOK, GroupInvariant, MembersAgree
<1>6. MembersAgree'
  BY <1>1, <1>2, <1>3 DEF TypeOK, MembersAgree, OnOwnCpu, IntrOnLocs
<1>7. panic' = "none" => CpuInv'
  BY <1>1, <1>2, <1>3 DEF TypeOK, CpuInv, OnCpu
<1>8. panic' = "none" => ProcInv'
  BY <1>1, <1>2, <1>3 DEF TypeOK, ProcInv, IntrOnLocs, IntrOffLocs, Outside
<1>9. panic' = "none" => RunInv'
  BY <1>1, <1>2, <1>3 DEF TypeOK, RunInv, CpuInv
<1>10. panic' = "none" => InitInv'
  BY <1>1, <1>2, <1>3 DEF TypeOK, InitInv
<1>11. OnOwnCpu'
  BY <1>1, <1>2, <1>3 DEF TypeOK, OnOwnCpu, CpuInv, IntrOnLocs, IntrOffLocs,
        Outside
<1>12. (panic' = "none" => MsgInv')
  BY DEF MsgInv
<1> HIDE DEF create_pgroup, Calls, Runs, Step, MayLeave, cpu_leave_pgroup,
      remove_my_cpu_from_pgroup, CpuAdded, free_pgroup_if,
      remove_my_proc_from_pgroup, ProcAdded, LeavePanic
<1> QED BY <1>4, <1>5, <1>6, <1>7, <1>8, <1>9, <1>10, <1>11, <1>12 DEF IInv

\* ClaimSlot preserves IInv.
LEMMA ClaimSlot_Step ==
  ASSUME IInv, NEW c \in CPUs, NEW p \in Procs, ClaimSlot(c, p)
  PROVE  IInv'
<1> USE Facts, Constants DEF ClaimSlot, Runs, Step, add_my_cpu_to_pgroup,
      CpuNotAdded, PanicUnless, MaybeGroup, DEFAULT_PGROUP_ID
<1>1. OnCpu(c, p)
  BY Running
<1>2. new_group[p] \in GroupIds
  BY DEF ProcInv
<1>3. TypeOK'
  BY <1>1, <1>2 DEF TypeOK, Panics, IntrOnLocs, IntrOffLocs
<1>4. GroupInvariant'
  BY <1>1, <1>2 DEF TypeOK, GroupInvariant, MembersAgree
<1>5. MembersAgree'
  BY <1>1, <1>2 DEF TypeOK, MembersAgree, OnCpu
<1>6. panic' = "none" => CpuInv'
  BY <1>1, <1>2 DEF TypeOK, CpuInv
<1>7. panic' = "none" => ProcInv'
  BY <1>1, <1>2 DEF TypeOK, ProcInv, OnCpu, IntrOnLocs, IntrOffLocs, Outside
<1>8. panic' = "none" => RunInv'
  BY <1>1, <1>2 DEF TypeOK, RunInv, OnCpu
<1>9. panic' = "none" => InitInv'
  BY <1>1, <1>2 DEF TypeOK, InitInv
<1>10. OnOwnCpu'
  BY <1>1, <1>2 DEF TypeOK, OnOwnCpu, OnCpu, IntrOnLocs, IntrOffLocs, Outside
<1>11. (panic' = "none" => MsgInv')
  BY DEF MsgInv
<1> HIDE DEF ClaimSlot, Runs, Step, add_my_cpu_to_pgroup, CpuNotAdded,
      PanicUnless
<1> QED BY <1>3, <1>4, <1>5, <1>6, <1>7, <1>8, <1>9, <1>10, <1>11 DEF IInv

\* NextSlot preserves IInv.
LEMMA NextSlot_Step ==
  ASSUME IInv, NEW c \in CPUs, NEW p \in Procs, NextSlot(c, p)
  PROVE  IInv'
<1> USE Facts, Constants DEF NextSlot, Runs, groupVars, cpuVars, PanicUnless,
      MaybeGroup, DEFAULT_PGROUP_ID
<1>1. new_group[p] \in GroupIds
  BY DEF ProcInv
<1>2. TypeOK'
  BY <1>1 DEF TypeOK, Panics, GroupIds
<1>3. panic' = "none" => ProcInv'
  BY <1>1 DEF TypeOK, ProcInv, GroupIds
<1>4. OnOwnCpu'
  BY <1>1 DEF TypeOK, OnOwnCpu
<1>5. GroupInvariant' /\ MembersAgree' /\ (panic' = "none" => CpuInv' /\
      RunInv' /\ InitInv' /\ MsgInv')
  BY DEF GroupInvariant, MembersAgree, CpuInv, RunInv, InitInv, MsgInv
<1> HIDE DEF NextSlot, Runs, groupVars, cpuVars, PanicUnless
<1> QED BY <1>2, <1>3, <1>4, <1>5 DEF IInv

\* EnterCreated preserves IInv.
LEMMA EnterCreated_Step ==
  ASSUME IInv, NEW c \in CPUs, NEW p \in Procs, EnterCreated(c, p)
  PROVE  IInv'
<1> USE Facts, Constants DEF EnterCreated, Runs, Step, add_my_proc_to_pgroup,
      cpuVars, PanicUnless, MaybeGroup, DEFAULT_PGROUP_ID
<1>1. OnCpu(c, p)
  BY Running
<1>2. new_group[p] \in GroupIds
  BY DEF ProcInv
<1>3. id[new_group[p]] = new_group[p]
  BY <1>1, <1>2 DEF GroupInvariant, MembersAgree, OnOwnCpu, TypeOK
<1>4. TypeOK'
  BY <1>1, <1>2, <1>3 DEF TypeOK, Panics, IntrOnLocs, IntrOffLocs
<1>5. GroupInvariant'
  BY <1>1, <1>2, <1>3 DEF TypeOK, GroupInvariant, MembersAgree, ProcInv
<1>6. MembersAgree'
  BY <1>1, <1>2, <1>3 DEF TypeOK, MembersAgree, OnCpu, Outside
<1>7. panic' = "none" => ProcInv'
  BY <1>1, <1>2, <1>3 DEF TypeOK, ProcInv, OnCpu, IntrOnLocs, IntrOffLocs,
        Outside
<1>8. panic' = "none" => RunInv'
  BY <1>1, <1>2, <1>3, ZenonT(30) DEF TypeOK, RunInv
<1>9. panic' = "none" => InitInv'
  BY <1>1, <1>2, <1>3 DEF TypeOK, InitInv
<1>10. OnOwnCpu'
  BY <1>1, <1>2, <1>3 DEF TypeOK, OnOwnCpu, OnCpu, IntrOnLocs, IntrOffLocs,
        Outside
<1>11. (panic' = "none" => CpuInv' /\ MsgInv')
  BY DEF CpuInv, MsgInv
<1> HIDE DEF EnterCreated, Runs, Step, add_my_proc_to_pgroup, cpuVars,
      PanicUnless
<1> QED BY <1>4, <1>5, <1>6, <1>7, <1>8, <1>9, <1>10, <1>11 DEF IInv

-----------------------------------------------------------------------------
\* enter_pgroup

\* enter_pgroup preserves IInv.
LEMMA enter_pgroup_Step ==
  ASSUME IInv, NEW c \in CPUs, NEW p \in Procs, NEW t \in GroupIds,
         enter_pgroup(c, p, t)
  PROVE  IInv'
<1> USE Facts, Constants DEF enter_pgroup, Calls, Runs, Step,
      remove_my_proc_from_pgroup, ProcAdded, PanicUnless, cpuVars, MaybeGroup,
      DEFAULT_PGROUP_ID
<1>1. TypeOK'
  BY ZenonT(30) DEF TypeOK, Panics, IntrOnLocs, IntrOffLocs
<1>2. GroupInvariant'
  BY DEF TypeOK, GroupInvariant, MembersAgree, ProcInv, OnOwnCpu
<1>3. MembersAgree'
  BY DEF TypeOK, MembersAgree, ProcInv, RunInv, IntrOnLocs, IntrOffLocs,
        Outside
<1>4. panic' = "none" => ProcInv'
  BY DEF TypeOK, ProcInv, IntrOnLocs, IntrOffLocs, Outside
<1>5. panic' = "none" => RunInv'
  BY ZenonT(30) DEF TypeOK, RunInv
<1>6. panic' = "none" => InitInv'
  BY DEF TypeOK, InitInv
<1>7. OnOwnCpu'
  BY DEF TypeOK, OnOwnCpu, IntrOnLocs
<1>8. (panic' = "none" => CpuInv' /\ MsgInv')
  BY DEF CpuInv, MsgInv
<1> HIDE DEF enter_pgroup, Calls, Runs, Step, remove_my_proc_from_pgroup,
      ProcAdded, PanicUnless, cpuVars
<1> QED BY <1>1, <1>2, <1>3, <1>4, <1>5, <1>6, <1>7, <1>8 DEF IInv

\* EnterNew preserves IInv.
LEMMA EnterNew_Step ==
  ASSUME IInv, NEW c \in CPUs, NEW p \in Procs, EnterNew(c, p)
  PROVE  IInv'
<1> USE Facts, Constants DEF EnterNew, Runs, Step, add_my_proc_to_pgroup,
      cpuVars, PanicUnless, MaybeGroup, DEFAULT_PGROUP_ID
<1>1. OnCpu(c, p)
  BY Running
<1>2. new_group[p] \in GroupIds
  BY DEF ProcInv
<1>3. TypeOK'
  BY <1>1, <1>2 DEF TypeOK, Panics, IntrOnLocs, IntrOffLocs
<1>4. GroupInvariant'
  BY <1>1, <1>2 DEF TypeOK, GroupInvariant, MembersAgree, ProcInv, OnOwnCpu
<1>5. MembersAgree'
  BY <1>1, <1>2 DEF TypeOK, MembersAgree, GroupInvariant, OnCpu, Outside
<1>6. panic' = "none" => ProcInv'
  BY <1>1, <1>2 DEF TypeOK, ProcInv, IntrOnLocs, IntrOffLocs, Outside
<1>7. panic' = "none" => RunInv'
  BY <1>1, <1>2, ZenonT(30) DEF TypeOK, RunInv
<1>8. panic' = "none" => InitInv'
  BY <1>1, <1>2 DEF TypeOK, InitInv
<1>9. OnOwnCpu'
  BY <1>1, <1>2 DEF TypeOK, OnOwnCpu, IntrOnLocs
<1>10. (panic' = "none" => CpuInv' /\ MsgInv')
  BY ZenonT(30) DEF CpuInv, MsgInv
<1> HIDE DEF EnterNew, Runs, Step, add_my_proc_to_pgroup, cpuVars, PanicUnless
<1> QED BY <1>3, <1>4, <1>5, <1>6, <1>7, <1>8, <1>9, <1>10 DEF IInv

\* EnterFails preserves IInv.
LEMMA EnterFails_Step ==
  ASSUME IInv, NEW c \in CPUs, NEW p \in Procs, EnterFails(c, p)
  PROVE  IInv'
<1> USE Facts, Constants DEF EnterFails, Runs, Step, groupVars, cpuVars,
      MaybeGroup, DEFAULT_PGROUP_ID
<1>1. TypeOK'
  BY DEF TypeOK, IntrOnLocs, IntrOffLocs
<1>2. panic' = "none" => ProcInv'
  BY DEF TypeOK, ProcInv, IntrOnLocs, IntrOffLocs, Outside
<1>3. panic' = "none" => RunInv'
  BY ZenonT(30) DEF TypeOK, RunInv
<1>4. panic' = "none" => InitInv'
  BY DEF TypeOK, InitInv
<1>5. OnOwnCpu'
  BY DEF TypeOK, OnOwnCpu, IntrOnLocs
<1>6. GroupInvariant'
  BY DEF GroupInvariant
<1>7. MembersAgree'
  BY DEF TypeOK, MembersAgree
<1>8. panic' = "none" => CpuInv'
  BY DEF TypeOK, CpuInv
<1>9. panic' = "none" => MsgInv'
  BY DEF MsgInv
<1> HIDE DEF EnterFails, Runs, Step, groupVars, cpuVars
<1> QED BY <1>1, <1>2, <1>3, <1>4, <1>5, <1>6, <1>7, <1>8, <1>9 DEF IInv

\* EnterBack preserves IInv.
LEMMA EnterBack_Step ==
  ASSUME IInv, NEW c \in CPUs, NEW p \in Procs, EnterBack(c, p)
  PROVE  IInv'
<1> USE Facts, Constants DEF EnterBack, Runs, Step, add_my_proc_to_pgroup,
      cpuVars, PanicUnless, MaybeGroup, DEFAULT_PGROUP_ID
<1>1. OnCpu(c, p)
  BY Running
<1>2. old_group[p] \in GroupIds
  BY DEF ProcInv
<1>3. id[old_group[p]] = old_group[p]
  BY <1>1, <1>2 DEF GroupInvariant, MembersAgree, OnOwnCpu, TypeOK
<1>4. TypeOK'
  BY <1>1, <1>2, <1>3 DEF TypeOK, Panics, IntrOnLocs, IntrOffLocs
<1>5. GroupInvariant'
  BY <1>1, <1>2, <1>3 DEF TypeOK, GroupInvariant, MembersAgree, ProcInv
<1>6. MembersAgree'
  BY <1>1, <1>2, <1>3 DEF TypeOK, MembersAgree, OnCpu, Outside
<1>7. panic' = "none" => ProcInv'
  BY <1>1, <1>2, <1>3 DEF TypeOK, ProcInv, OnCpu, IntrOnLocs, IntrOffLocs,
        Outside
<1>8. panic' = "none" => RunInv'
  BY <1>1, <1>2, <1>3 DEF TypeOK, RunInv
<1>9. panic' = "none" => InitInv'
  BY <1>1, <1>2, <1>3 DEF TypeOK, InitInv
<1>10. OnOwnCpu'
  BY <1>1, <1>2, <1>3 DEF TypeOK, OnOwnCpu, OnCpu, IntrOnLocs, IntrOffLocs,
        Outside
<1>11. (panic' = "none" => CpuInv' /\ MsgInv')
  BY DEF CpuInv, MsgInv
<1> HIDE DEF EnterBack, Runs, Step, add_my_proc_to_pgroup, cpuVars,
      PanicUnless
<1> QED BY <1>4, <1>5, <1>6, <1>7, <1>8, <1>9, <1>10, <1>11 DEF IInv

=============================================================================

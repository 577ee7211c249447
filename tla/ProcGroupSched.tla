--------------------------- MODULE ProcGroupSched ---------------------------
(***************************************************************************)
(* IInv is an inductive invariant of ProcGroup, for any number of CPUs,    *)
(* processes and groups with no more CPUs than group slots.  One lemma per *)
(* action, each with one step per conjunct of IInv that the action touches. *)
(* This module: the facts every lemma uses, and the scheduler loop with    *)
(* yield, sleep and wake_up.                                               *)
(***************************************************************************)
EXTENDS ProcGroup, TLAPS, FiniteSetTheorems

\* Time for the SMT solver, for the leaves that name no other prover.
USE SMTT(30)

\* What the assumption on the constants gives: slot 0 exists, -1 is no slot.
LEMMA Constants ==
  /\ 0 \in GroupIds /\ -1 \notin GroupIds /\ MAX_PROC_GROUP_NUM \in Nat
  /\ \A g \in GroupIds : g \in -1 .. MAX_PROC_GROUP_NUM
  /\ BootCpu \in CPUs /\ InitProc \in Procs /\ NoProc \notin Procs
<1>1. Cardinality(CPUs) # 0
  BY ConstantsAssumption, FS_EmptySet
<1>2. Cardinality(CPUs) \in Nat
  BY ConstantsAssumption, FS_CardinalityType
<1> QED
  BY <1>1, <1>2, ConstantsAssumption DEF GroupIds

\* The conjuncts of IInv.
LEMMA Facts ==
  ASSUME IInv
  PROVE  /\ TypeOK /\ GroupInvariant /\ MembersAgree /\ OnOwnCpu
         /\ panic = "none" => CpuInv /\ ProcInv /\ RunInv /\ InitInv /\ MsgInv
  BY DEF IInv

\* What IInv says of a process that runs on a CPU.
OnCpu(c, p) ==
  /\ cpc[c] = "proc" /\ p # NoProc /\ status[p] = "RUNNING"
  /\ \A d \in CPUs : my_proc[d] = p => d = c
  /\ cpu_pgroup[c] = -1 <=> pc[p] \in {"create_scan", "dec_add"}
  /\ proc_pgroup[p] = -1 <=> pc[p] \in Outside

\* A process on a CPU is RUNNING, on this CPU only, and its place tells which of
\* the two is outside the groups.
LEMMA Running ==
  ASSUME IInv, panic = "none",
         NEW c \in CPUs, NEW p \in Procs, my_proc[c] = p
  PROVE  OnCpu(c, p)
  BY Facts, Constants DEF CpuInv, ProcInv, RunInv, OnCpu

\* The messages the calls send, and what taking one makes of it.
LEMMA MessageTypes ==
  /\ NoMsg \in Messages
  /\ \A p \in Procs :
       [type |-> "NEED_CPU", proc |-> p, group |-> -1] \in Messages
  /\ \A g \in MaybeGroup :
       [type |-> "NEED_CPU_FLEX", proc |-> NoProc, group |-> g] \in Messages
  /\ \A m \in Messages, g \in GroupIds :
       [m EXCEPT !.group = g] \in Messages /\ [m EXCEPT !.group = g].group = g
  BY DEF NoMsg, Messages, MaybeGroup

-----------------------------------------------------------------------------
\* The scheduler loop

\* proc_group_init_hart preserves IInv.
LEMMA proc_group_init_hart_Step ==
  ASSUME IInv, NEW c \in CPUs, proc_group_init_hart(c)
  PROVE  IInv'
<1> USE Facts, Constants DEF proc_group_init_hart, AtCpu, GoTo, JoinDefault,
      add_my_cpu_to_pgroup, CpuNotAdded, PanicUnless, procVars, MaybeGroup,
      DEFAULT_PGROUP_ID
<1>1. cpu_pgroup[c] = -1 /\ my_proc[c] = NoProc
  BY DEF CpuInv
<1>2. id[0] = 0 /\ cpus[0] # {}
  BY DEF GroupInvariant, MembersAgree, InitInv, TypeOK
<1>3. TypeOK'
  BY <1>1, <1>2 DEF TypeOK, Panics, CpuLocs
<1>4. GroupInvariant'
  BY <1>1, <1>2 DEF GroupInvariant, TypeOK
<1>5. MembersAgree'
  BY <1>1, <1>2 DEF TypeOK, MembersAgree
<1>6. panic' = "none" => CpuInv'
  BY <1>1, <1>2 DEF TypeOK, CpuInv
<1>7. panic' = "none" => RunInv'
  BY <1>1, <1>2 DEF TypeOK, RunInv
<1>8. OnOwnCpu'
  BY <1>1, <1>2 DEF TypeOK, OnOwnCpu
<1>9. (panic' = "none" => ProcInv' /\ InitInv' /\ MsgInv')
  BY DEF ProcInv, InitInv, MsgInv
<1> HIDE DEF proc_group_init_hart, AtCpu, GoTo, JoinDefault,
      add_my_cpu_to_pgroup, CpuNotAdded, PanicUnless, procVars
<1> QED BY <1>3, <1>4, <1>5, <1>6, <1>7, <1>8, <1>9 DEF IInv

\* inc_free_cpus preserves IInv.
LEMMA inc_free_cpus_Step ==
  ASSUME IInv, NEW c \in CPUs, inc_free_cpus(c)
  PROVE  IInv'
<1> USE Facts, Constants DEF inc_free_cpus, AtCpu, GoTo, procVars, MaybeGroup,
      DEFAULT_PGROUP_ID
<1>1. TypeOK'
  BY DEF TypeOK, CpuLocs
<1>2. panic' = "none" => CpuInv'
  BY DEF TypeOK, CpuInv
<1>3. GroupInvariant' /\ MembersAgree' /\ OnOwnCpu' /\ (panic' = "none" =>
      ProcInv' /\ RunInv' /\ InitInv' /\ MsgInv')
  BY DEF GroupInvariant, MembersAgree, ProcInv, RunInv, InitInv, MsgInv,
        OnOwnCpu
<1> HIDE DEF inc_free_cpus, AtCpu, GoTo, procVars
<1> QED BY <1>1, <1>2, <1>3 DEF IInv

\* NoMessage preserves IInv.
LEMMA NoMessage_Step ==
  ASSUME IInv, NEW c \in CPUs, NoMessage(c)
  PROVE  IInv'
<1> USE Facts, Constants DEF NoMessage, AtCpu, GoTo, procVars, groupVars,
      MaybeGroup, DEFAULT_PGROUP_ID
<1>1. TypeOK'
  BY DEF TypeOK, CpuLocs
<1>2. panic' = "none" => CpuInv'
  BY DEF TypeOK, CpuInv
<1>3. GroupInvariant' /\ MembersAgree' /\ OnOwnCpu' /\ (panic' = "none" =>
      ProcInv' /\ RunInv' /\ InitInv' /\ MsgInv')
  BY DEF GroupInvariant, MembersAgree, ProcInv, RunInv, InitInv, MsgInv,
        OnOwnCpu
<1> HIDE DEF NoMessage, AtCpu, GoTo, procVars, groupVars
<1> QED BY <1>1, <1>2, <1>3 DEF IInv

\* TakeMessage preserves IInv.
LEMMA TakeMessage_Step ==
  ASSUME IInv, NEW c \in CPUs, TakeMessage(c)
  PROVE  IInv'
<1> USE Facts, Constants DEF TakeMessage, AtCpu, GoTo, Targets, procVars,
      MaybeGroup, DEFAULT_PGROUP_ID
<1>1. Len(um_box) > 0 /\ Head(um_box) = um_box[1] /\ Head(um_box) \in Messages
  BY DEF TypeOK
<1>2. \A g \in Targets(Head(um_box)) : g \in GroupIds
  <2>1. \/ Head(um_box).type = "NEED_CPU" /\ Head(um_box).proc \in Procs
        \/ /\ Head(um_box).type = "NEED_CPU_FLEX"
           /\ Head(um_box).group \in GroupIds
    BY <1>1 DEF MsgInv
  <2> QED BY <2>1 DEF Targets, TypeOK
<1>3. um_box' \in Seq(Messages) /\ Len(um_box') = Len(um_box) - 1 /\ \A i \in
      1 .. Len(um_box') : um_box'[i] = um_box[i + 1]
  BY <1>1 DEF TypeOK
<1>4. msg' \in [CPUs -> Messages] /\ msg'[c].group \in GroupIds /\ \A d \in
      CPUs \ {c} : msg'[d] = msg[d]
  <2>1. PICK g \in GroupIds :
          msg' = [msg EXCEPT ![c] = [Head(um_box) EXCEPT !.group = g]]
    BY ZenonT(30), <1>2
  <2>2. /\ [Head(um_box) EXCEPT !.group = g] \in Messages
        /\ [Head(um_box) EXCEPT !.group = g].group = g
    BY <1>1, MessageTypes
  <2> QED BY <2>1, <2>2, ZenonT(30) DEF TypeOK
<1>5. TypeOK'
  BY <1>3, <1>4 DEF TypeOK, CpuLocs
<1>6. panic' = "none" => CpuInv'
  BY <1>4 DEF CpuInv, TypeOK
<1>7. panic' = "none" => MsgInv'
  BY <1>3 DEF MsgInv, TypeOK
<1>8. GroupInvariant' /\ MembersAgree' /\ OnOwnCpu' /\ (panic' = "none" =>
      ProcInv' /\ RunInv' /\ InitInv')
  BY DEF GroupInvariant, MembersAgree, ProcInv, RunInv, InitInv, OnOwnCpu
<1> HIDE DEF TakeMessage, AtCpu, GoTo, Targets, procVars
<1> QED BY <1>5, <1>6, <1>7, <1>8 DEF IInv

\* LeaveDefault preserves IInv.
LEMMA LeaveDefault_Step ==
  ASSUME IInv, NEW c \in CPUs, LeaveDefault(c)
  PROVE  IInv'
<1> USE Facts, Constants DEF MaybeGroup, DEFAULT_PGROUP_ID
<1>1. /\ panic = "none" /\ cpc[c] = "take"
      /\ my_proc[c] = NoProc /\ cpu_pgroup[c] = 0 /\ c \in cpus[0]
  BY DEF LeaveDefault, AtCpu, CpuInv, MembersAgree
<1>2. UNCHANGED <<id, procs_head, exclusively_occupy, free_cpus, um_box,
                  my_proc, msg, status, proc_pgroup, parent, pc, new_group,
                  old_group, frame>>
  BY DEF LeaveDefault, procVars
<1>3. CASE pgroup_cpu_count_unsafe(0) = 1
  <2>1. panic' = "too_many_allocated" /\ UNCHANGED <<cpus, cpu_pgroup, cpc>>
    BY <1>3 DEF LeaveDefault
  <2> QED
    BY <1>2, <2>1
    DEF IInv, TypeOK, Panics, GroupInvariant, MembersAgree, OnOwnCpu
<1>4. CASE pgroup_cpu_count_unsafe(0) # 1
  <2>1. cpus[0] \ {c} # {}
    <3> SUFFICES ASSUME cpus[0] = {c} PROVE FALSE
      BY <1>1
    <3> QED BY <1>4, FS_Singleton DEF pgroup_cpu_count_unsafe
  <2>2. id[0] = 0
    BY <1>1, <1>2 DEF GroupInvariant, TypeOK
  <2>3. /\ cpus' = [cpus EXCEPT ![0] = cpus[0] \ {c}]
        /\ cpu_pgroup' = [cpu_pgroup EXCEPT ![c] = -1]
        /\ cpc' = [cpc EXCEPT ![c] = "join"]
    BY <1>4 DEF LeaveDefault, remove_my_cpu_from_pgroup, GoTo
  <2>4. panic' = "none"
    BY <1>1, <1>4, <2>2 DEF LeaveDefault, PanicUnless, CpuAdded
  <2>5. TypeOK'
    BY <1>2, <2>3, <2>4 DEF TypeOK, CpuLocs
  <2>6. GroupInvariant'
    BY <1>2, <2>1, <2>2, <2>3 DEF GroupInvariant, TypeOK
  <2>7. MembersAgree'
    BY <1>1, <1>2, <2>3 DEF MembersAgree, TypeOK
  <2>8. CpuInv'
    BY <1>1, <1>2, <2>3 DEF CpuInv, TypeOK
  <2>9. RunInv' /\ OnOwnCpu'
    BY <1>1, <1>2, <2>3 DEF RunInv, OnOwnCpu, TypeOK
  <2>10. ProcInv' /\ InitInv' /\ MsgInv'
    BY <1>1, <1>2 DEF ProcInv, InitInv, MsgInv
  <2> QED BY <2>5, <2>6, <2>7, <2>8, <2>9, <2>10 DEF IInv
<1> QED BY <1>3, <1>4

\* JoinGroup preserves IInv.
LEMMA JoinGroup_Step ==
  ASSUME IInv, NEW c \in CPUs, JoinGroup(c)
  PROVE  IInv'
<1> USE Facts, Constants DEF JoinGroup, AtCpu, GoTo, add_my_cpu_to_pgroup,
      CpuNotAdded, PanicUnless, Woken, MaybeGroup, DEFAULT_PGROUP_ID
<1>1. msg[c].group \in GroupIds /\ id[msg[c].group] = msg[c].group
  BY DEF CpuInv, GroupInvariant, TypeOK
<1>2. cpu_pgroup[c] = -1 /\ my_proc[c] = NoProc
  BY DEF CpuInv
<1>3. TypeOK'
  BY <1>1, <1>2, MessageTypes, ZenonT(30) DEF TypeOK, Panics, Status, CpuLocs
<1>4. GroupInvariant'
  BY <1>1, <1>2 DEF GroupInvariant, TypeOK
<1>5. MembersAgree'
  BY <1>1, <1>2 DEF TypeOK, MembersAgree
<1>6. panic' = "none" => CpuInv'
  BY <1>1, <1>2 DEF TypeOK, CpuInv
<1>7. panic' = "none" => ProcInv'
  BY <1>1, <1>2 DEF TypeOK, ProcInv, IntrOnLocs, IntrOffLocs, Outside
<1>8. panic' = "none" => RunInv'
  BY <1>1, <1>2 DEF TypeOK, RunInv
<1>9. panic' = "none" => InitInv'
  BY <1>1, <1>2 DEF TypeOK, InitInv
<1>10. OnOwnCpu'
  BY <1>1, <1>2 DEF TypeOK, OnOwnCpu
<1>11. (panic' = "none" => MsgInv')
  BY DEF MsgInv
<1> HIDE DEF JoinGroup, AtCpu, GoTo, add_my_cpu_to_pgroup, CpuNotAdded,
      PanicUnless, Woken
<1> QED BY <1>3, <1>4, <1>5, <1>6, <1>7, <1>8, <1>9, <1>10, <1>11 DEF IInv

\* GroupGone preserves IInv.
LEMMA GroupGone_Step ==
  ASSUME IInv, NEW c \in CPUs, GroupGone(c)
  PROVE  IInv'
<1> USE Facts, Constants DEF GroupGone, AtCpu, GoTo, groupVars, PanicUnless,
      procVars, MaybeGroup, DEFAULT_PGROUP_ID
<1>1. TypeOK'
  BY DEF TypeOK, Panics, CpuLocs
<1>2. panic' = "none" => CpuInv'
  BY DEF TypeOK, CpuInv
<1>3. GroupInvariant' /\ MembersAgree' /\ OnOwnCpu' /\ (panic' = "none" =>
      ProcInv' /\ RunInv' /\ InitInv' /\ MsgInv')
  BY DEF GroupInvariant, MembersAgree, ProcInv, RunInv, InitInv, MsgInv,
        OnOwnCpu
<1> HIDE DEF GroupGone, AtCpu, GoTo, groupVars, PanicUnless, procVars
<1> QED BY <1>1, <1>2, <1>3 DEF IInv

\* BackToDefault preserves IInv.
LEMMA BackToDefault_Step ==
  ASSUME IInv, NEW c \in CPUs, BackToDefault(c)
  PROVE  IInv'
<1> USE Facts, Constants DEF BackToDefault, AtCpu, GoTo, JoinDefault,
      add_my_cpu_to_pgroup, CpuNotAdded, PanicUnless, procVars, MaybeGroup,
      DEFAULT_PGROUP_ID
<1>1. cpu_pgroup[c] = -1 /\ my_proc[c] = NoProc
  BY DEF CpuInv
<1>2. id[0] = 0 /\ cpus[0] # {}
  BY DEF GroupInvariant, MembersAgree, InitInv, TypeOK
<1>3. TypeOK'
  BY <1>1, <1>2, MessageTypes DEF TypeOK, Panics, CpuLocs
<1>4. GroupInvariant'
  BY <1>1, <1>2 DEF GroupInvariant, TypeOK
<1>5. MembersAgree'
  BY <1>1, <1>2 DEF TypeOK, MembersAgree
<1>6. panic' = "none" => CpuInv'
  BY <1>1, <1>2 DEF TypeOK, CpuInv
<1>7. panic' = "none" => RunInv'
  BY <1>1, <1>2 DEF TypeOK, RunInv
<1>8. OnOwnCpu'
  BY <1>1, <1>2 DEF TypeOK, OnOwnCpu
<1>9. (panic' = "none" => ProcInv' /\ InitInv' /\ MsgInv')
  BY DEF ProcInv, InitInv, MsgInv
<1> HIDE DEF BackToDefault, AtCpu, GoTo, JoinDefault, add_my_cpu_to_pgroup,
      CpuNotAdded, PanicUnless, procVars
<1> QED BY <1>3, <1>4, <1>5, <1>6, <1>7, <1>8, <1>9 DEF IInv

\* cpu_leave_pgroup_if_empty preserves IInv.
LEMMA cpu_leave_pgroup_if_empty_Step ==
  ASSUME IInv, NEW c \in CPUs, cpu_leave_pgroup_if_empty(c)
  PROVE  IInv'
<1> USE Facts, Constants DEF cpu_leave_pgroup_if_empty, AtCpu, GoTo,
      remove_my_cpu_from_pgroup, CpuAdded, PanicUnless, free_pgroup_if,
      procVars, MaybeGroup, DEFAULT_PGROUP_ID
<1>1. my_proc[c] = NoProc
  BY DEF CpuInv
<1>2. TypeOK'
  BY <1>1, ZenonT(30) DEF TypeOK, Panics, CpuLocs
<1>3. GroupInvariant'
  BY <1>1 DEF TypeOK, GroupInvariant, MembersAgree, CpuInv
<1>4. MembersAgree'
  BY <1>1 DEF TypeOK, MembersAgree, GroupInvariant, CpuInv
<1>5. panic' = "none" => CpuInv'
  BY <1>1 DEF TypeOK, CpuInv
<1>6. panic' = "none" => RunInv'
  BY <1>1 DEF TypeOK, RunInv
<1>7. OnOwnCpu'
  BY <1>1 DEF TypeOK, OnOwnCpu
<1>8. (panic' = "none" => ProcInv' /\ InitInv' /\ MsgInv')
  BY DEF ProcInv, InitInv, MsgInv
<1> HIDE DEF cpu_leave_pgroup_if_empty, AtCpu, GoTo,
      remove_my_cpu_from_pgroup, CpuAdded, PanicUnless, free_pgroup_if,
      procVars
<1> QED BY <1>2, <1>3, <1>4, <1>5, <1>6, <1>7, <1>8 DEF IInv

\* IdleIntoDefault preserves IInv.
LEMMA IdleIntoDefault_Step ==
  ASSUME IInv, NEW c \in CPUs, IdleIntoDefault(c)
  PROVE  IInv'
<1> USE Facts, Constants DEF IdleIntoDefault, AtCpu, GoTo, JoinDefault,
      add_my_cpu_to_pgroup, CpuNotAdded, PanicUnless, procVars, MaybeGroup,
      DEFAULT_PGROUP_ID
<1>1. cpu_pgroup[c] = -1 /\ my_proc[c] = NoProc
  BY DEF CpuInv
<1>2. id[0] = 0 /\ cpus[0] # {}
  BY DEF GroupInvariant, MembersAgree, InitInv, TypeOK
<1>3. TypeOK'
  BY <1>1, <1>2 DEF TypeOK, Panics, CpuLocs
<1>4. GroupInvariant'
  BY <1>1, <1>2 DEF GroupInvariant, TypeOK
<1>5. MembersAgree'
  BY <1>1, <1>2 DEF TypeOK, MembersAgree
<1>6. panic' = "none" => CpuInv'
  BY <1>1, <1>2 DEF TypeOK, CpuInv
<1>7. panic' = "none" => RunInv'
  BY <1>1, <1>2 DEF TypeOK, RunInv
<1>8. OnOwnCpu'
  BY <1>1, <1>2 DEF TypeOK, OnOwnCpu
<1>9. (panic' = "none" => ProcInv' /\ InitInv' /\ MsgInv')
  BY DEF ProcInv, InitInv, MsgInv
<1> HIDE DEF IdleIntoDefault, AtCpu, GoTo, JoinDefault, add_my_cpu_to_pgroup,
      CpuNotAdded, PanicUnless, procVars
<1> QED BY <1>3, <1>4, <1>5, <1>6, <1>7, <1>8, <1>9 DEF IInv

\* RunProcess preserves IInv.
LEMMA RunProcess_Step ==
  ASSUME IInv, NEW c \in CPUs, NEW p \in Procs, RunProcess(c, p)
  PROVE  IInv'
<1> USE Facts, Constants DEF RunProcess, AtCpu, GoTo, groupVars, PanicUnless,
      MaybeGroup, DEFAULT_PGROUP_ID
<1>1. \A d \in CPUs : my_proc[d] # p
  BY DEF ProcInv
<1>2. pc[p] \notin Outside
  BY DEF ProcInv, Outside, IntrOffLocs
<1>3. my_proc[c] = NoProc
  BY DEF CpuInv
<1>4. TypeOK'
  BY <1>1, <1>2, <1>3 DEF TypeOK, Panics, Status, CpuLocs
<1>5. panic' = "none" => CpuInv'
  BY <1>1, <1>2, <1>3 DEF TypeOK, CpuInv
<1>6. panic' = "none" => ProcInv'
  BY <1>1, <1>2, <1>3 DEF TypeOK, ProcInv
<1>7. panic' = "none" => RunInv'
  BY <1>1, <1>2, <1>3 DEF TypeOK, RunInv, CpuInv, ProcInv, MembersAgree,
        GroupInvariant, IntrOnLocs, IntrOffLocs, Outside
<1>8. panic' = "none" => InitInv'
  BY <1>1, <1>2, <1>3 DEF TypeOK, InitInv
<1>9. OnOwnCpu'
  BY <1>1, <1>2, <1>3 DEF TypeOK, OnOwnCpu, CpuInv, ProcInv, MembersAgree,
        IntrOnLocs, IntrOffLocs, Outside
<1>10. GroupInvariant' /\ MembersAgree' /\ (panic' = "none" => MsgInv')
  BY DEF GroupInvariant, MembersAgree, MsgInv
<1> HIDE DEF RunProcess, AtCpu, GoTo, groupVars, PanicUnless
<1> QED BY <1>4, <1>5, <1>6, <1>7, <1>8, <1>9, <1>10 DEF IInv

\* NoRunable preserves IInv.
LEMMA NoRunable_Step ==
  ASSUME IInv, NEW c \in CPUs, NoRunable(c)
  PROVE  IInv'
<1> USE Facts, Constants DEF NoRunable, AtCpu, GoTo, groupVars, PanicUnless,
      procVars, MaybeGroup, DEFAULT_PGROUP_ID
<1>1. TypeOK'
  BY DEF TypeOK, Panics, CpuLocs
<1>2. panic' = "none" => CpuInv'
  BY DEF TypeOK, CpuInv
<1>3. GroupInvariant' /\ MembersAgree' /\ OnOwnCpu' /\ (panic' = "none" =>
      ProcInv' /\ RunInv' /\ InitInv' /\ MsgInv')
  BY DEF GroupInvariant, MembersAgree, ProcInv, RunInv, InitInv, MsgInv,
        OnOwnCpu
<1> HIDE DEF NoRunable, AtCpu, GoTo, groupVars, PanicUnless, procVars
<1> QED BY <1>1, <1>2, <1>3 DEF IInv

-----------------------------------------------------------------------------
\* Time slices, sleeping and waking

\* yield preserves IInv.
LEMMA yield_Step ==
  ASSUME IInv, NEW c \in CPUs, NEW p \in Procs, yield(c, p)
  PROVE  IInv'
<1> USE Facts, Constants DEF yield, Runs, SwitchToScheduler, GoTo, groupVars,
      MaybeGroup, DEFAULT_PGROUP_ID
<1>1. OnCpu(c, p)
  BY Running
<1>2. TypeOK'
  BY <1>1 DEF TypeOK, Status, CpuLocs, IntrOnLocs, IntrOffLocs
<1>3. panic' = "none" => CpuInv'
  BY <1>1 DEF TypeOK, CpuInv, OnCpu, IntrOnLocs
<1>4. panic' = "none" => ProcInv'
  BY <1>1 DEF TypeOK, ProcInv, CpuInv, IntrOnLocs, IntrOffLocs, Outside
<1>5. panic' = "none" => RunInv'
  BY <1>1 DEF TypeOK, RunInv, CpuInv, IntrOnLocs, IntrOffLocs, Outside
<1>6. panic' = "none" => InitInv'
  BY <1>1 DEF TypeOK, InitInv
<1>7. OnOwnCpu'
  BY <1>1 DEF TypeOK, OnOwnCpu, CpuInv, IntrOnLocs, IntrOffLocs, Outside
<1>8. GroupInvariant' /\ MembersAgree' /\ (panic' = "none" => MsgInv')
  BY ZenonT(30) DEF GroupInvariant, MembersAgree, MsgInv
<1> HIDE DEF yield, Runs, SwitchToScheduler, GoTo, groupVars
<1> QED BY <1>2, <1>3, <1>4, <1>5, <1>6, <1>7, <1>8 DEF IInv

\* sleep preserves IInv.
LEMMA sleep_Step ==
  ASSUME IInv, NEW c \in CPUs, NEW p \in Procs, sleep(c, p)
  PROVE  IInv'
<1> USE Facts, Constants DEF sleep, Runs, SwitchToScheduler, GoTo, groupVars,
      MaybeGroup, DEFAULT_PGROUP_ID
<1>1. OnCpu(c, p)
  BY ZenonT(30), Running
<1>2. TypeOK'
  BY <1>1 DEF TypeOK, Status, CpuLocs
<1>3. panic' = "none" => CpuInv'
  BY <1>1 DEF TypeOK, CpuInv, OnCpu
<1>4. panic' = "none" => ProcInv'
  BY <1>1 DEF TypeOK, ProcInv, CpuInv, IntrOnLocs, IntrOffLocs, Outside
<1>5. panic' = "none" => RunInv'
  BY <1>1 DEF TypeOK, RunInv
<1>6. panic' = "none" => InitInv'
  BY <1>1 DEF TypeOK, InitInv
<1>7. OnOwnCpu'
  BY <1>1 DEF TypeOK, OnOwnCpu
<1>8. GroupInvariant' /\ MembersAgree' /\ (panic' = "none" => MsgInv')
  BY ZenonT(30) DEF GroupInvariant, MembersAgree, MsgInv
<1> HIDE DEF sleep, Runs, SwitchToScheduler, GoTo, groupVars
<1> QED BY <1>2, <1>3, <1>4, <1>5, <1>6, <1>7, <1>8 DEF IInv

\* wake_up preserves IInv.
LEMMA wake_up_Step ==
  ASSUME IInv, NEW p \in Procs, wake_up(p)
  PROVE  IInv'
<1> USE Facts, Constants DEF wake_up, Woken, groupVars, cpuVars, MaybeGroup,
      DEFAULT_PGROUP_ID
<1>1. TypeOK'
  BY DEF TypeOK, Status
<1>2. panic' = "none" => ProcInv'
  BY DEF TypeOK, ProcInv, IntrOnLocs, IntrOffLocs, Outside
<1>3. panic' = "none" => InitInv'
  BY DEF TypeOK, InitInv
<1>4. GroupInvariant' /\ MembersAgree' /\ OnOwnCpu' /\ (panic' = "none" =>
      CpuInv' /\ RunInv' /\ MsgInv')
  BY DEF GroupInvariant, MembersAgree, CpuInv, RunInv, MsgInv, OnOwnCpu
<1> HIDE DEF wake_up, Woken, groupVars, cpuVars
<1> QED BY <1>1, <1>2, <1>3, <1>4 DEF IInv

=============================================================================

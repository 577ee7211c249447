----------------------------- MODULE AtomicDisk -----------------------------
(***************************************************************************)
(* What the log promises the file system: a disk on which the writes of a  *)
(* system call survive a crash all together or not at all, and survive     *)
(* together with those of the calls that overlap with it.                  *)
(***************************************************************************)
CONSTANTS Procs, Blocks, Values

VARIABLES
  durable,   \* the contents a crash leaves behind
  current,   \* the contents the running system calls see
  active     \* the processes inside a system call

Init == /\ durable \in [Blocks -> Values]
        /\ current = durable
        /\ active = {}

Begin(p) == active' = active \cup {p} /\ UNCHANGED <<durable, current>>

Write(p) ==
  /\ p \in active
  /\ \E b \in Blocks, v \in Values : current' = [current EXCEPT ![b] = v]
  /\ UNCHANGED <<durable, active>>

End(p) == active' = active \ {p} /\ UNCHANGED <<durable, current>>

\* Only between system calls does the disk change, and then at one blow.
Commit ==
  /\ active = {}
  /\ durable' = current
  /\ UNCHANGED <<current, active>>

Crash == current' = durable /\ active' = {} /\ UNCHANGED durable

Next == \/ \E p \in Procs : Begin(p) \/ Write(p) \/ End(p)
        \/ Commit
        \/ Crash

Spec == Init /\ [][Next]_<<durable, current, active>>
=============================================================================

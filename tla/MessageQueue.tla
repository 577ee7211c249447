---------------------------- MODULE MessageQueue ----------------------------
(***************************************************************************)
(* What the CPU message box promises its users, the CPU calls and the      *)
(* scheduler loops: a bounded queue.  Every message is taken once, by one  *)
(* CPU, oldest first.  ProcGroup uses the box in this form.                *)
(***************************************************************************)
EXTENDS Naturals, Sequences

CONSTANTS Messages, CPUs, EMPTY, CPU_MESSAGE_BOX_SIZE

VARIABLES queue,   \* the messages sent and not taken, oldest first
          taken    \* the message each CPU is serving, or EMPTY

Init == queue = << >> /\ taken = [c \in CPUs |-> EMPTY]

Send(m) ==
  /\ Len(queue) < CPU_MESSAGE_BOX_SIZE
  /\ queue' = Append(queue, m)
  /\ UNCHANGED taken

Take(c) ==
  /\ queue # << >> /\ taken[c] = EMPTY
  /\ queue' = Tail(queue)
  /\ taken' = [taken EXCEPT ![c] = Head(queue)]

Serve(c) ==
  /\ taken[c] # EMPTY
  /\ taken' = [taken EXCEPT ![c] = EMPTY]
  /\ UNCHANGED queue

Next == \/ \E m \in Messages : Send(m)
        \/ \E c \in CPUs : Take(c) \/ Serve(c)

Spec == Init /\ [][Next]_<<queue, taken>>
=============================================================================

----------------------------- MODULE CpuMessage -----------------------------
(***************************************************************************)
(* The CPU message box, kernel/process/cpu_message.c: a ring buffer with   *)
(* two running indices and a counter under one lock, and the look at the   *)
(* counter outside the lock with which handle_cpu_acquire begins.  It      *)
(* implements MessageQueue.                                                *)
(***************************************************************************)
EXTENDS Naturals, Sequences

CONSTANTS
  Messages,              \* the messages of types NEED_CPU and NEED_CPU_FLEX
  CPUs,                  \* the CPUs of the default group
  EMPTY,                 \* the message of type EMP_MESSAGE
  CPU_MESSAGE_BOX_SIZE,  \* 8
  CounterBits            \* the width of box_beg, box_end and size: 64

\* The indices wrap around at 2^CounterBits; the slot they stand for does not
\* jump there because the box size divides it.
ASSUME BoxAssumption ==
  /\ CPU_MESSAGE_BOX_SIZE \in Nat \ {0} /\ CounterBits \in Nat
  /\ CPU_MESSAGE_BOX_SIZE < 2 ^ CounterBits
  /\ 2 ^ CounterBits % CPU_MESSAGE_BOX_SIZE = 0
  /\ EMPTY \notin Messages

VARIABLES
  box, box_beg, box_end, size,  \* um_box
  at,                           \* where the CPU is in handle_cpu_acquire
  m                             \* the message the CPU has got, or EMPTY

vars == <<box, box_beg, box_end, size, at, m>>

Inc(n) == (n + 1) % 2 ^ CounterBits
Slot(n) == n % CPU_MESSAGE_BOX_SIZE

\* um_box is in the zeroed data segment.
Init ==
  /\ box = [i \in 0 .. CPU_MESSAGE_BOX_SIZE - 1 |-> EMPTY]
  /\ box_beg = 0 /\ box_end = 0 /\ size = 0
  /\ at = [c \in CPUs |-> "look"]
  /\ m = [c \in CPUs |-> EMPTY]

box_empty == size = 0
box_full == size = CPU_MESSAGE_BOX_SIZE

\* Mutant: one message is taken for none.
look_off_by_one(c) ==
  /\ at[c] = "look"
  /\ size > 1
  /\ at' = [at EXCEPT ![c] = "get"]
  /\ UNCHANGED <<box, box_beg, box_end, size, m>>

\* no_message_atomic, without the lock: when it finds a message, the CPU goes
\* on to get_cpu_message.
no_message_atomic(c) ==
  /\ at[c] = "look"
  /\ size # 0
  /\ at' = [at EXCEPT ![c] = "get"]
  /\ UNCHANGED <<box, box_beg, box_end, size, m>>

\* Mutant: the slot is read with an index that has moved on.
get_after_inc(c) ==
  /\ at[c] = "get"
  /\ IF box_empty
       THEN at' = [at EXCEPT ![c] = "look"] /\ UNCHANGED <<box_beg, size, m>>
       ELSE /\ m' = [m EXCEPT ![c] = box[Slot(Inc(box_beg))]]
            /\ box_beg' = Inc(box_beg)
            /\ size' = size - 1
            /\ at' = [at EXCEPT ![c] = "serve"]
  /\ UNCHANGED <<box, box_end>>

\* Mutant: the newest message is taken instead of the oldest.
get_newest(c) ==
  /\ at[c] = "get"
  /\ IF box_empty
       THEN at' = [at EXCEPT ![c] = "look"] /\ UNCHANGED <<box_beg, size, m>>
       ELSE /\ m' = [m EXCEPT ![c] = box[Slot(box_beg + size - 1)]]
            /\ box_beg' = Inc(box_beg)
            /\ size' = size - 1
            /\ at' = [at EXCEPT ![c] = "serve"]
  /\ UNCHANGED <<box, box_end>>

\* get_cpu_message, under the lock.  Another CPU may have emptied the box since
\* the look; resend_cpu_message then has nothing to send back.
get_cpu_message(c) ==
  /\ at[c] = "get"
  /\ IF box_empty
       THEN at' = [at EXCEPT ![c] = "look"] /\ UNCHANGED <<box_beg, size, m>>
       ELSE /\ m' = [m EXCEPT ![c] = box[Slot(box_beg)]]
            /\ box_beg' = Inc(box_beg)
            /\ size' = size - 1
            /\ at' = [at EXCEPT ![c] = "serve"]
  /\ UNCHANGED <<box, box_end>>

\* The rest of handle_cpu_acquire.
Served(c) ==
  /\ at[c] = "serve"
  /\ m' = [m EXCEPT ![c] = EMPTY]
  /\ at' = [at EXCEPT ![c] = "look"]
  /\ UNCHANGED <<box, box_beg, box_end, size>>

\* send_cpu_message, under the lock.  ProcGroup shows that the calls never send
\* to a full box (NoKernelPanic).
send_cpu_message(mm) ==
  /\ ~box_full
  /\ box' = [box EXCEPT ![Slot(box_end)] = mm]
  /\ box_end' = Inc(box_end)
  /\ size' = size + 1
  /\ UNCHANGED <<box_beg, at, m>>

Next ==
  \/ \E mm \in Messages : send_cpu_message(mm)
  \/ \E c \in CPUs : no_message_atomic(c) \/ get_cpu_message(c) \/ Served(c)

Spec == Init /\ [][Next]_vars

\* A CPU of the default group comes back to its scheduler loop again and again.
FairSpec ==
  Spec /\ \A c \in CPUs :
            WF_vars(no_message_atomic(c) \/ get_cpu_message(c) \/ Served(c))

----------------------------------------------------------------------------
\* Properties

\* The types: in particular only slots that have been filled are served.
TypeOK ==
  /\ box \in [0 .. CPU_MESSAGE_BOX_SIZE - 1 -> Messages \cup {EMPTY}]
  /\ box_beg \in 0 .. 2 ^ CounterBits - 1
  /\ box_end \in 0 .. 2 ^ CounterBits - 1
  /\ size \in 0 .. CPU_MESSAGE_BOX_SIZE
  /\ at \in [CPUs -> {"look", "get", "serve"}]
  /\ m \in [CPUs -> Messages \cup {EMPTY}]
  /\ \A c \in CPUs : at[c] = "serve" => m[c] # EMPTY

\* The ring buffer is a FIFO queue, also when the running indices wrap around
\* and when several CPUs look, get and find the box empty in any order.
Queue == INSTANCE MessageQueue WITH
  queue <- [i \in 1 .. size |-> box[Slot(box_beg + i - 1)]],
  taken <- m
IsFifo == Queue!Spec

\* A message does not stay in the box for ever: the look outside the lock does
\* not make the CPUs miss it.
AllTaken == size > 0 ~> \E c \in CPUs : at[c] = "serve"
=============================================================================

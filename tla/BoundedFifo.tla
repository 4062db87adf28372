----------------------------- MODULE BoundedFifo -----------------------------
(***************************************************************************)
(* What an aggregation queue promises: a first-in first-out queue of at    *)
(* most Capacity packets, whose push refuses a packet when it is full and  *)
(* whose pull returns nothing when it is empty.                            *)
(***************************************************************************)
EXTENDS Naturals, Sequences

CONSTANTS
  Packets,   \* the packets pushed
  NoPacket,  \* the null packet
  Capacity   \* capacity of the queue

VARIABLES
  fifo,  \* packets in the queue, oldest first
  ret    \* the last call and what it returned

Init ==
  /\ fifo = <<>>
  /\ ret = <<"none">>

push(p) ==
  IF Len(fifo) = Capacity
  THEN /\ ret' = <<"push", FALSE>>
       /\ UNCHANGED fifo
  ELSE /\ ret' = <<"push", TRUE>>
       /\ fifo' = Append(fifo, p)

pull ==
  IF fifo = <<>>
  THEN /\ ret' = <<"pull", NoPacket>>
       /\ UNCHANGED fifo
  ELSE /\ ret' = <<"pull", Head(fifo)>>
       /\ fifo' = Tail(fifo)

Next == (\E p \in Packets : push(p)) \/ pull

Spec == Init /\ [][Next]_<<fifo, ret>>
=============================================================================

-------------------------- MODULE AggregationQueue --------------------------
(***************************************************************************)
(* The ring buffer behind every (receiver, transmitter) pair.  Each call   *)
(* holds the queue's lock from its first access to its last, so it is one  *)
(* step.  The count of refused packets is a statistic and is left out.     *)
(***************************************************************************)
EXTENDS Naturals, Sequences

CONSTANTS Packets, NoPacket, Capacity

ASSUME RingAssumption ==
  /\ Capacity \in Nat \ {0}
  /\ NoPacket \notin Packets

VARIABLES
  q,        \* the slots
  head,     \* index of the oldest packet
  tail,     \* index of the next free slot
  nb_pkts,  \* number of packets
  ret       \* the last call and what it returned

vars == <<q, head, tail, nb_pkts, ret>>

Slots == 0..(Capacity - 1)

Init ==
  /\ q = [i \in Slots |-> NoPacket]
  /\ head = 0
  /\ tail = 0
  /\ nb_pkts = 0
  /\ ret = <<"none">>

\* Mutant: the slot keeps the packet handed out.
PullLeavesSlot ==
  IF nb_pkts > 0
  THEN /\ ret' = <<"pull", q[head]>>
       /\ head' = (head + 1) % Capacity
       /\ nb_pkts' = nb_pkts - 1
       /\ UNCHANGED <<q, tail>>
  ELSE /\ ret' = <<"pull", NoPacket>>
       /\ UNCHANGED <<q, head, tail, nb_pkts>>

pull ==
  IF nb_pkts > 0
  THEN /\ ret' = <<"pull", q[head]>>
       /\ q' = [q EXCEPT ![head] = NoPacket]
       /\ head' = (head + 1) % Capacity
       /\ nb_pkts' = nb_pkts - 1
       /\ UNCHANGED tail
  ELSE /\ ret' = <<"pull", NoPacket>>
       /\ UNCHANGED <<q, head, tail, nb_pkts>>

\* Mutant: full and empty are told apart by the indices, so that the last
\* slot is never used.
PushByIndices(p) ==
  IF (tail + 1) % Capacity = head
  THEN /\ ret' = <<"push", FALSE>>
       /\ UNCHANGED <<q, head, tail, nb_pkts>>
  ELSE /\ ret' = <<"push", TRUE>>
       /\ q' = [q EXCEPT ![tail] = p]
       /\ tail' = (tail + 1) % Capacity
       /\ nb_pkts' = nb_pkts + 1
       /\ UNCHANGED head

push(p) ==
  IF nb_pkts = Capacity
  THEN /\ ret' = <<"push", FALSE>>
       /\ UNCHANGED <<q, head, tail, nb_pkts>>
  ELSE /\ ret' = <<"push", TRUE>>
       /\ q' = [q EXCEPT ![tail] = p]
       /\ tail' = (tail + 1) % Capacity
       /\ nb_pkts' = nb_pkts + 1
       /\ UNCHANGED head

Next == (\E p \in Packets : push(p)) \/ pull

Spec == Init /\ [][Next]_vars

-----------------------------------------------------------------------------
(***************************************************************************)
(* Properties.                                                             *)
(***************************************************************************)

\* The indices stay inside the buffer, also across the wrap-around, and the
\* count inside the capacity.
TypeOK ==
  /\ q \in [Slots -> Packets \cup {NoPacket}]
  /\ head \in Slots
  /\ tail \in Slots
  /\ nb_pkts \in 0..Capacity

\* Slot of the packet that is k places behind the oldest one.
At(k) == (head + k) % Capacity

\* The packets are in the nb_pkts slots from head on, which end at tail, and
\* every other slot is null: the destructor, which frees what is not null,
\* frees the packets still queued and no packet already handed out.
OnlyQueuedSlotsFilled ==
  /\ tail = At(nb_pkts)
  /\ \A i \in Slots : q[i] # NoPacket <=> \E k \in 0..(nb_pkts - 1) : i = At(k)

\* The packets of the ring, oldest first.
Contents == [k \in 1..nb_pkts |-> q[At(k - 1)]]

Fifo == INSTANCE BoundedFifo WITH fifo <- Contents

\* The ring buffer is a bounded first-in first-out queue: push and pull
\* return what such a queue returns.
FifoSpec == Fifo!Spec
=============================================================================

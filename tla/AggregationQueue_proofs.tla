----------------------- MODULE AggregationQueue_proofs -----------------------
(***************************************************************************)
(* The ring buffer implements the bounded queue, for every capacity.       *)
(***************************************************************************)
EXTENDS AggregationQueue, TLAPS

\* What % does to an index that has run over the end once at most.
LEMMA Wrap ==
  ASSUME NEW a \in Nat, a < 2 * Capacity
  PROVE  a % Capacity = IF a < Capacity THEN a ELSE a - Capacity
  <1>1. CASE a < Capacity
    BY <1>1, RingAssumption
  <1>2. CASE a >= Capacity
    BY <1>2, RingAssumption
  <1> QED
    BY <1>1, <1>2, RingAssumption

IInv == TypeOK /\ OnlyQueuedSlotsFilled

\* The slot k places behind slot h, without the remainder.
LEMMA Offset ==
  ASSUME NEW h \in Slots, NEW k \in 0..Capacity
  PROVE  (h + k) % Capacity = IF h + k < Capacity THEN h + k
                                                  ELSE h + k - Capacity
  <1>1. h \in Nat /\ k \in Nat /\ h + k \in Nat /\ h + k < 2 * Capacity
    BY RingAssumption DEF Slots
  <1> QED
    BY <1>1, RingAssumption

LEMMA AtValue ==
  ASSUME head \in Slots, NEW k \in 0..Capacity
  PROVE  At(k) = IF head + k < Capacity THEN head + k ELSE head + k - Capacity
  BY Offset DEF At

\* The slots from head on are slots, and different ones.
LEMMA SlotsDistinct ==
  ASSUME head \in Slots
  PROVE  /\ \A k \in 0..Capacity : At(k) \in Slots
         /\ \A j, k \in 0..(Capacity - 1) : At(j) = At(k) => j = k
  BY AtValue, RingAssumption DEF Slots

\* When head moves to the next slot, so does every slot counted from it.
LEMMA NextSlot ==
  ASSUME head \in Slots, head' = (head + 1) % Capacity
  PROVE  /\ head' \in Slots
         /\ \A k \in 0..(Capacity - 1) : At(k)' = At(k + 1)
  <1> USE RingAssumption
  <1>1. head' = IF head + 1 < Capacity THEN head + 1 ELSE 0
    <2>1. head + 1 \in Nat /\ head + 1 < 2 * Capacity /\ head + 1 <= Capacity
      BY DEF Slots
    <2> QED
      BY <2>1, Wrap
  <1>2. head' \in Slots
    BY <1>1 DEF Slots
  <1>3. ASSUME NEW k \in 0..(Capacity - 1)
        PROVE  At(k)' = At(k + 1)
    <2>1. At(k + 1) = IF head + (k + 1) < Capacity THEN head + (k + 1)
                                               ELSE head + (k + 1) - Capacity
      BY AtValue
    <2>2. At(k)' = IF head' + k < Capacity THEN head' + k
                                           ELSE head' + k - Capacity
      <3>1. k \in 0..Capacity
        OBVIOUS
      <3> QED
        BY Zenon, <3>1, <1>2, Offset DEF At
    <2> QED
      BY <2>1, <2>2, <1>1 DEF Slots
  <1> QED
    BY <1>2, <1>3

\* The slot a push fills is free, and is the last one of the longer queue.
LEMMA PushKeepsInv ==
  ASSUME IInv, NEW p \in Packets, push(p)
  PROVE  IInv'
  <1> USE RingAssumption
  <1>1. CASE nb_pkts = Capacity
    BY <1>1 DEF push, IInv, TypeOK, OnlyQueuedSlotsFilled, At
  <1>2. CASE nb_pkts # Capacity
    <2>1. /\ q' = [q EXCEPT ![tail] = p] /\ tail' = (tail + 1) % Capacity
          /\ nb_pkts' = nb_pkts + 1 /\ head' = head
          /\ nb_pkts < Capacity
      BY <1>2 DEF push, IInv, TypeOK
    <2>2. \A k \in 0..Capacity : At(k)' = At(k)
      BY <2>1 DEF At
    <2>3. tail' = IF tail + 1 < Capacity THEN tail + 1 ELSE 0
      <3>1. tail + 1 \in Nat /\ tail + 1 < 2 * Capacity /\ tail + 1 <= Capacity
        BY DEF IInv, TypeOK, Slots
      <3> QED
        BY <3>1, <2>1, Wrap
    <2>4. TypeOK'
      BY <2>1, <2>3 DEF IInv, TypeOK, Slots
    <2>5. tail' = At(nb_pkts)'
      <3>1. /\ nb_pkts \in 0..Capacity /\ nb_pkts + 1 \in 0..Capacity
            /\ head \in Slots
        BY <2>1 DEF IInv, TypeOK
      <3>2. tail = IF head + nb_pkts < Capacity THEN head + nb_pkts
                                                ELSE head + nb_pkts - Capacity
        BY <3>1, AtValue DEF IInv, OnlyQueuedSlotsFilled
      <3>3. At(nb_pkts)' = At(nb_pkts + 1)
        BY <2>1 DEF At
      <3>4. At(nb_pkts + 1) = IF head + (nb_pkts + 1) < Capacity
                              THEN head + (nb_pkts + 1)
                              ELSE head + (nb_pkts + 1) - Capacity
        BY <3>1, AtValue
      <3> QED
        BY <2>3, <3>1, <3>2, <3>3, <3>4 DEF IInv, TypeOK, Slots
    <2>6. ASSUME NEW i \in Slots
          PROVE  q'[i] # NoPacket <=> \E k \in 0..(nb_pkts' - 1) : i = At(k)'
      <3>1. CASE i = tail
        <4>1. q'[i] = p /\ i = At(nb_pkts)
          BY <3>1, <2>1 DEF IInv, TypeOK, OnlyQueuedSlotsFilled
        <4> QED
          BY <4>1, <2>1, <2>2 DEF IInv, TypeOK
      <3>2. CASE i # tail
        <4>1. q'[i] = q[i]
          BY <3>2, <2>1 DEF IInv, TypeOK
        <4>2. (\E k \in 0..(nb_pkts' - 1) : i = At(k)')
                <=> (\E k \in 0..(nb_pkts - 1) : i = At(k))
          BY <3>2, <2>1, <2>2 DEF IInv, TypeOK, OnlyQueuedSlotsFilled
        <4> QED
          BY <4>1, <4>2 DEF IInv, OnlyQueuedSlotsFilled
      <3> QED
        BY <3>1, <3>2
    <2> QED
      BY <2>4, <2>5, <2>6 DEF IInv, OnlyQueuedSlotsFilled
  <1> QED
    BY <1>1, <1>2

\* The slot a pull empties is the first one; the others keep their order.
LEMMA PullKeepsInv ==
  ASSUME IInv, pull
  PROVE  IInv'
  <1> USE RingAssumption
  <1>1. CASE ~(nb_pkts > 0)
    BY <1>1 DEF pull, IInv, TypeOK, OnlyQueuedSlotsFilled, At
  <1>2. CASE nb_pkts > 0
    <2>1. /\ q' = [q EXCEPT ![head] = NoPacket] /\ tail' = tail
          /\ nb_pkts' = nb_pkts - 1 /\ head' = (head + 1) % Capacity
          /\ nb_pkts \in 1..Capacity /\ head \in Slots
      BY <1>2 DEF pull, IInv, TypeOK
    <2>2. head' \in Slots
      BY <2>1, NextSlot
    <2>3. TypeOK'
      BY <2>1, <2>2 DEF IInv, TypeOK, Slots
    <2>4. \A k \in 0..(Capacity - 1) : At(k)' = At(k + 1)
      BY <2>1, NextSlot
    <2>5. tail' = At(nb_pkts)'
      <3>1. PICK n \in 0..(Capacity - 1) : n = nb_pkts'
        BY <2>1
      <3>2. At(nb_pkts)' = At(n)'
        BY <3>1 DEF At
      <3>3. At(n)' = At(nb_pkts)
        <4>1. n + 1 = nb_pkts
          BY <3>1, <2>1
        <4> QED
          BY <4>1, <2>4
      <3> QED
        BY <2>1, <3>2, <3>3 DEF IInv, OnlyQueuedSlotsFilled
    <2>6. At(0) = head
      BY <2>1, AtValue DEF Slots
    <2>7. ASSUME NEW i \in Slots
          PROVE  q'[i] # NoPacket <=> \E k \in 0..(nb_pkts' - 1) : i = At(k)'
      <3>1. (\E k \in 0..(nb_pkts' - 1) : i = At(k)')
              <=> (\E k \in 1..(nb_pkts - 1) : i = At(k))
        <4>1. ASSUME NEW k \in 0..(nb_pkts' - 1), i = At(k)'
              PROVE  \E j \in 1..(nb_pkts - 1) : i = At(j)
          <5>1. k + 1 \in 1..(nb_pkts - 1) /\ i = At(k + 1)
            BY <4>1, <2>1, <2>4
          <5> QED
            BY <5>1
        <4>2. ASSUME NEW k \in 1..(nb_pkts - 1), i = At(k)
              PROVE  \E j \in 0..(nb_pkts' - 1) : i = At(j)'
          <5>1. /\ k - 1 \in 0..(nb_pkts' - 1) /\ k - 1 \in 0..(Capacity - 1)
                /\ (k - 1) + 1 = k
            BY <2>1
          <5>2. i = At(k - 1)'
            BY <4>2, <5>1, <2>4
          <5> QED
            BY <5>1, <5>2
        <4> QED
          BY <4>1, <4>2
      <3>2. CASE i = head
        <4>1. q'[i] = NoPacket
          BY <3>2, <2>1 DEF IInv, TypeOK
        <4>2. \A k \in 1..(nb_pkts - 1) : i # At(k)
          BY <3>2, <2>1, <2>6, SlotsDistinct
        <4> QED
          BY <3>1, <4>1, <4>2
      <3>3. CASE i # head
        <4>1. q'[i] = q[i]
          BY <3>3, <2>1 DEF IInv, TypeOK
        <4>2. (\E k \in 0..(nb_pkts - 1) : i = At(k))
                <=> (\E k \in 1..(nb_pkts - 1) : i = At(k))
          BY <3>3, <2>1, <2>6
        <4> QED
          BY <3>1, <4>1, <4>2 DEF IInv, OnlyQueuedSlotsFilled
      <3> QED
        BY <3>2, <3>3
    <2> QED
      BY <2>3, <2>5, <2>7 DEF IInv, OnlyQueuedSlotsFilled
  <1> QED
    BY <1>1, <1>2

LEMMA StepKeepsInv ==
  ASSUME IInv, [Next]_vars
  PROVE  IInv'
  <1>1. CASE \E p \in Packets : push(p)
    BY <1>1, PushKeepsInv
  <1>2. CASE pull
    BY <1>2, PullKeepsInv
  <1>3. CASE UNCHANGED vars
    BY <1>3 DEF vars, IInv, TypeOK, OnlyQueuedSlotsFilled, At
  <1> QED
    BY <1>1, <1>2, <1>3 DEF Next

LEMMA InitEstablishesInv ==
  ASSUME Init
  PROVE  IInv
  <1> USE RingAssumption DEF Init
  <1>1. TypeOK
    BY DEF TypeOK, Slots
  <1>2. At(0) = 0
    BY <1>1, AtValue DEF TypeOK
  <1> QED
    BY <1>1, <1>2 DEF IInv, OnlyQueuedSlotsFilled

\* In every state the indices are in range and exactly the slots between head
\* and tail hold packets: push and pull never overwrite a queued packet, and
\* the destructor frees each packet still queued once.
THEOREM RingInvariant == Spec => [](TypeOK /\ OnlyQueuedSlotsFilled)
  <1>1. Init => IInv
    BY InitEstablishesInv
  <1>2. IInv /\ [Next]_vars => IInv'
    BY StepKeepsInv
  <1> QED
    BY <1>1, <1>2, PTL DEF Spec, IInv

\* The contents are a sequence of nb_pkts packets.
LEMMA ContentsSeq ==
  ASSUME IInv
  PROVE  /\ Contents \in Seq(Packets)
         /\ Len(Contents) = nb_pkts
         /\ DOMAIN Contents = 1..nb_pkts
         /\ \A k \in 1..nb_pkts : Contents[k] = q[At(k - 1)]
  <1> USE RingAssumption
  <1>1. \A k \in 1..nb_pkts : q[At(k - 1)] \in Packets
    <2> SUFFICES ASSUME NEW k \in 1..nb_pkts
                 PROVE  q[At(k - 1)] \in Packets
      OBVIOUS
    <2>1. k - 1 \in 0..(nb_pkts - 1) /\ k - 1 \in 0..Capacity
      BY DEF IInv, TypeOK
    <2>2. At(k - 1) \in Slots
      BY <2>1, SlotsDistinct DEF IInv, TypeOK
    <2>3. q[At(k - 1)] # NoPacket
      BY <2>1, <2>2 DEF IInv, OnlyQueuedSlotsFilled
    <2> QED
      BY <2>2, <2>3 DEF IInv, TypeOK
  <1>2. nb_pkts \in Nat
    BY DEF IInv, TypeOK
  <1> QED
    BY <1>1, <1>2 DEF Contents

LEMMA PushImplementsFifo ==
  ASSUME IInv, IInv', NEW p \in Packets, push(p)
  PROVE  Fifo!push(p)
  <1> USE RingAssumption
  <1>1. CASE nb_pkts = Capacity
    <2>1. Contents' = Contents
      BY <1>1 DEF push, Contents, At
    <2> QED
      BY Zenon, <1>1, <2>1, ContentsSeq DEF push, Fifo!push
  <1>2. CASE nb_pkts # Capacity
    <2>1. /\ q' = [q EXCEPT ![tail] = p] /\ nb_pkts' = nb_pkts + 1
          /\ head' = head /\ nb_pkts < Capacity
          /\ nb_pkts \in Nat /\ head \in Slots /\ tail \in Slots
      BY <1>2 DEF push, IInv, TypeOK
    <2>7. ret' = <<"push", TRUE>>
      BY Zenon, <1>2, Zenon DEF push
    <2>2. \A k \in 1..nb_pkts' : Contents'[k] = q'[At(k - 1)]
      BY <2>1 DEF Contents, At
    <2>3. ASSUME NEW k \in 1..nb_pkts
          PROVE  Contents'[k] = Contents[k]
      <3>1. k - 1 \in 0..(Capacity - 1) /\ nb_pkts \in 0..(Capacity - 1)
            /\ k - 1 # nb_pkts
        BY <2>1
      <3>2. At(k - 1) # At(nb_pkts) /\ At(k - 1) \in Slots
        BY <3>1, <2>1, SlotsDistinct
      <3>3. q'[At(k - 1)] = q[At(k - 1)]
        BY <3>2, <2>1 DEF IInv, OnlyQueuedSlotsFilled, TypeOK
      <3> QED
        BY <3>3, <2>1, <2>2, ContentsSeq
    <2>4. Contents'[nb_pkts + 1] = p
      <3>1. Contents'[nb_pkts + 1] = q'[At(nb_pkts)]
        BY <2>1, <2>2
      <3> QED
        BY <3>1, <2>1 DEF IInv, OnlyQueuedSlotsFilled, TypeOK
    <2>5. Contents' \in Seq(Packets) /\ Len(Contents') = nb_pkts + 1
      <3>1. (Contents \in Seq(Packets) /\ Len(Contents) = nb_pkts)'
        BY ContentsSeq, PTL
      <3> QED
        BY <3>1, <2>1
    <2>6. Contents' = Append(Contents, p)
      BY <2>1, <2>3, <2>4, <2>5, ContentsSeq
    <2> QED
      BY Zenon, <1>2, <2>6, <2>7, ContentsSeq, Zenon DEF Fifo!push
  <1> QED
    BY <1>1, <1>2

LEMMA PullImplementsFifo ==
  ASSUME IInv, IInv', pull
  PROVE  Fifo!pull
  <1> USE RingAssumption
  <1>1. CASE ~(nb_pkts > 0)
    <2>1. Contents' = Contents
      BY <1>1 DEF pull, Contents, At
    <2>2. Contents = <<>>
      BY <1>1, ContentsSeq DEF IInv, TypeOK
    <2> QED
      BY <1>1, <2>1, <2>2 DEF pull, Fifo!pull
  <1>2. CASE nb_pkts > 0
    <2>1. /\ q' = [q EXCEPT ![head] = NoPacket] /\ nb_pkts' = nb_pkts - 1
          /\ head' = (head + 1) % Capacity /\ ret' = <<"pull", q[head]>>
          /\ nb_pkts \in 1..Capacity /\ head \in Slots
      BY <1>2 DEF pull, IInv, TypeOK
    <2>2. Contents # <<>> /\ Head(Contents) = q[head]
      <3>1. At(0) = head
        BY <2>1, AtValue DEF Slots
      <3>2. Contents[1] = q[At(0)]
        BY <2>1, ContentsSeq
      <3> QED
        BY <2>1, <3>1, <3>2, ContentsSeq
    <2>3. /\ Contents' \in Seq(Packets) /\ Len(Contents') = nb_pkts - 1
          /\ \A k \in 1..(nb_pkts - 1) : Contents'[k] = q'[At(k)]
      <3>1. /\ (Contents \in Seq(Packets) /\ Len(Contents) = nb_pkts)'
            /\ (\A k \in 1..nb_pkts : Contents[k] = q[At(k - 1)])'
        BY ContentsSeq, PTL
      <3>2. \A k \in 1..(nb_pkts - 1) : At(k - 1)' = At(k)
        BY <2>1, NextSlot
      <3> QED
        BY <3>1, <3>2, <2>1
    <2>4. ASSUME NEW k \in 1..(nb_pkts - 1)
          PROVE  Contents'[k] = Contents[k + 1]
      <3>1. k \in 0..(Capacity - 1) /\ 0 \in 0..(Capacity - 1) /\ k # 0
        BY <2>1
      <3>2. At(k) # At(0) /\ At(k) \in Slots /\ At(0) = head
        BY <3>1, <2>1, SlotsDistinct, AtValue DEF Slots
      <3>3. q'[At(k)] = q[At(k)]
        BY <3>2, <2>1 DEF IInv, TypeOK
      <3>4. k + 1 \in 1..nb_pkts /\ (k + 1) - 1 = k
        BY <2>1
      <3>5. Contents[k + 1] = q[At(k)]
        BY <3>4, ContentsSeq
      <3> QED
        BY <2>3, <3>3, <3>5
    <2>5. Contents' = Tail(Contents)
      BY SMTT(30), <2>1, <2>2, <2>3, <2>4, ContentsSeq
    <2> QED
      BY <2>1, <2>2, <2>5 DEF Fifo!pull
  <1> QED
    BY <1>1, <1>2

\* The ring buffer implements the bounded queue, for every capacity and every
\* set of packets: what push and pull return is what a first-in first-out
\* queue of that capacity returns.
THEOREM ImplementsFifo == Spec => FifoSpec
  <1>1. Init => Fifo!Init
    BY RingAssumption DEF Init, Fifo!Init, Contents
  <1>2. ASSUME IInv, IInv', [Next]_vars
        PROVE  [Fifo!Next]_<<Contents, ret>>
    <2>1. CASE \E p \in Packets : push(p)
      BY <1>2, <2>1, PushImplementsFifo DEF Fifo!Next
    <2>2. CASE pull
      BY <1>2, <2>2, PullImplementsFifo DEF Fifo!Next
    <2>3. CASE UNCHANGED vars
      BY <2>3 DEF vars, Contents, At
    <2> QED
      BY <1>2, <2>1, <2>2, <2>3 DEF Next
  <1>3. Spec => []IInv
    BY RingInvariant, PTL DEF IInv
  <1> QED
    BY <1>1, <1>2, <1>3, PTL DEF Spec, FifoSpec, Fifo!Spec
=============================================================================

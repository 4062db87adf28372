------------------------ MODULE FullNoteQueue_proofs ------------------------
(***************************************************************************)
(* Proofs about the Queue element between two threads, for every capacity, *)
(* burst, number of packets and sleepiness trigger: no wake-up is lost,    *)
(* and the ring is a bounded first-in first-out queue.                     *)
(***************************************************************************)
EXTENDS FullNoteQueue, TLAPS

SrcSteps == {"idle", "run", "push", "store", "publish", "wake", "reschedule",
             "test", "recheck", "nonfull", "self"}

SnkSteps == {"idle", "pull", "take", "release", "wake", "reschedule", "doze",
             "recheck", "nonempty", "self", "signal", "again"}

Typed ==
    /\ TypeOK
    /\ src \in [pc : SrcSteps, count : 0..Limit, n : 0..Burst, worked : BOOLEAN,
                h : Indices]
    /\ snk \in [pc : SnkSteps, p : Packets \cup {NoPacket}]

(* The slot the source writes is free and is not the one the sink reads;   *)
(* what the one publishes and the other hands out is what the slot holds.  *)
SlotsApart ==
    /\ src.pc \in {"store", "publish"} => next_i(tail) # head /\ src.count # 0
    /\ src.pc = "publish" => q[tail] = src.count
    /\ snk.pc \in {"take", "release"} => head # tail
    /\ snk.pc = "release" => snk.p = q[head]

(* The burst stops at the limit, and a run that pushes nothing has reached *)
(* it.                                                                     *)
BurstInv ==
    /\ src.count + src.n <= Limit
    /\ src.pc \notin {"idle", "run"} /\ ~src.worked => src.count = Limit

(* The empty notifier: a puller that is not going to run was told to sleep *)
(* or is about to be scheduled; and while it is told to sleep although a   *)
(* packet is there, the pusher is about to wake it or it looks again.      *)
EmptyNoteInv ==
    /\ snk.pc = "idle" /\ ~scheduled["snk"] => ~empty_note \/ src.pc = "reschedule"
    /\ ~empty_note /\ head # tail => src.pc = "wake" \/ snk.pc \in {"recheck", "nonempty"}

(* The full notifier, the same for the pusher.                             *)
FullNoteInv ==
    /\ src.pc = "idle" /\ ~scheduled["src"] /\ src.count < Limit
         => ~full_note \/ snk.pc = "reschedule"
    /\ ~full_note /\ size(head, tail) < Capacity
         => snk.pc = "wake" \/ src.pc \in {"recheck", "nonfull"}

IInv == Typed /\ SlotsApart /\ BurstInv /\ EmptyNoteInv /\ FullNoteInv

-----------------------------------------------------------------------------
(* The indices: the successor of an index is one, and different indices    *)
(* have different successors.                                              *)
LEMMA NextIndex ==
  ASSUME NEW i \in Indices
  PROVE  /\ next_i(i) \in Indices
         /\ next_i(i) # i
         /\ \A j \in Indices : next_i(i) = next_i(j) => i = j
BY QueueAssumption DEF Indices, next_i

(* size is the number of packets: none when the indices are equal, the     *)
(* capacity when the tail is about to reach the head, one more when the    *)
(* tail moves and one less when the head does.                             *)
LEMMA SizeFacts ==
  ASSUME NEW h \in Indices, NEW t \in Indices
  PROVE  /\ size(h, t) \in 0..Capacity
         /\ size(h, t) = 0 <=> h = t
         /\ size(h, t) = Capacity <=> next_i(t) = h
         /\ h # t => size(next_i(h), t) = size(h, t) - 1
         /\ next_i(t) # h => size(h, next_i(t)) = size(h, t) + 1
BY QueueAssumption DEF Indices, next_i, size

LEMMA InitEstablishesInv == Init => IInv
BY QueueAssumption DEF Init, IInv, Typed, TypeOK, SlotsApart, BurstInv, EmptyNoteInv,
   FullNoteInv, SrcSteps, SnkSteps, Indices

(* A step of the source that only moves on keeps its other fields.         *)
LEMMA SrcGoes ==
  ASSUME Typed, NEW pc \in SrcSteps, SrcGo(pc)
  PROVE  /\ src' \in [pc : SrcSteps, count : 0..Limit, n : 0..Burst, worked : BOOLEAN,
                      h : Indices]
         /\ src'.count = src.count /\ src'.n = src.n /\ src'.h = src.h
BY DEF Typed, SrcGo

LEMMA SrcStepKeepsInv ==
  ASSUME IInv, SrcStep
  PROVE  IInv'
<1> USE QueueAssumption DEF queue, notes, SrcGo, SnkGo, IInv
<1>1. CASE SrcFire
  BY SMTT(30), <1>1, NextIndex, SizeFacts
  DEF SrcFire, Typed, TypeOK, SlotsApart, BurstInv,
     EmptyNoteInv, FullNoteInv, SrcSteps, SnkSteps
<1>2. CASE SrcRun
  <2>1. CASE ~full_note
    BY <1>2, <2>1 DEF SrcRun, Typed, TypeOK, SlotsApart, BurstInv, EmptyNoteInv,
       FullNoteInv, SrcSteps, SnkSteps
  <2>2. CASE full_note
    <3> DEFINE left == Limit - src.count
               n == IF left <= Burst THEN left ELSE Burst
    <3>1. n \in 0..Burst /\ src.count + n <= Limit /\ (n = 0 => src.count = Limit)
      BY DEF Typed
    <3>2. src' = [src EXCEPT !.pc = "push", !.n = n, !.worked = n > 0]
      BY <1>2, <2>2 DEF SrcRun
    <3>3. (n > 0) \in BOOLEAN /\ (n > 0 \/ n = 0)
      BY <3>1
    <3> HIDE DEF n, left
    <3>4. UNCHANGED <<queue, notes, scheduled, snk>> /\ src.pc = "run"
      BY <1>2 DEF SrcRun
    <3>5. Typed'
      BY Zenon, <3>1, <3>2, <3>3, <3>4 DEF Typed, TypeOK, SrcSteps
    <3>6. BurstInv'
      BY Zenon, <3>1, <3>2, <3>3 DEF Typed, BurstInv
    <3> QED
      BY <2>2, <3>2, <3>4, <3>5, <3>6
      DEF Typed, TypeOK, SlotsApart, EmptyNoteInv, FullNoteInv
  <2> QED
    BY <2>1, <2>2
<1>3. CASE SrcEnd
  <2>1. (scheduled["src"] \/ src.worked) \in BOOLEAN
    BY Zenon
  <2>2. Typed'
    BY <1>3, <2>1 DEF SrcEnd, Typed, TypeOK, SrcSteps
  <2> QED
    BY <1>3, <2>2 DEF SrcEnd, Typed, TypeOK, SlotsApart, BurstInv, EmptyNoteInv,
       FullNoteInv
<1>4. CASE SrcPush
  <2>1. Typed'
    <3>1. src.count + 1 \in 0..Limit /\ src.n - 1 \in 0..Burst
      BY <1>4 DEF SrcPush, Typed, BurstInv
    <3> DEFINE step == IF next_i(tail) = head THEN "push" ELSE "store"
    <3>2. step \in SrcSteps
      BY DEF SrcSteps
    <3>3. src' = [src EXCEPT !.pc = step, !.h = head, !.count = @ + 1, !.n = @ - 1]
      BY <1>4 DEF SrcPush
    <3> QED
      BY Zenon, <1>4, <3>1, <3>2, <3>3 DEF SrcPush, Typed, TypeOK
  <2>2. SlotsApart'
    BY <1>4, NextIndex, SizeFacts DEF SrcPush, Typed, TypeOK, SlotsApart
  <2>3. BurstInv'
    BY <1>4 DEF SrcPush, Typed, BurstInv
  <2>4. EmptyNoteInv'
    BY <1>4, NextIndex, SizeFacts DEF SrcPush, Typed, TypeOK, EmptyNoteInv, SlotsApart
  <2>5. FullNoteInv'
    BY <1>4, NextIndex, SizeFacts DEF SrcPush, Typed, TypeOK, FullNoteInv,
       SlotsApart, BurstInv
  <2> QED
    BY <2>1, <2>2, <2>3, <2>4, <2>5
<1>5. CASE SrcStore
  <2>1. Typed'
    <3>1. src.count \in Packets
      BY <1>5 DEF SrcStore, Typed, SlotsApart, Packets
    <3> QED
      BY <1>5, <3>1 DEF SrcStore, Typed, TypeOK, SrcSteps
  <2>2. SlotsApart'
    BY <1>5, NextIndex, SizeFacts DEF SrcStore, Typed, TypeOK, SlotsApart
  <2>3. BurstInv'
    BY <1>5 DEF SrcStore, Typed, BurstInv
  <2>4. EmptyNoteInv'
    BY <1>5, NextIndex, SizeFacts DEF SrcStore, Typed, TypeOK, EmptyNoteInv,
       SlotsApart
  <2>5. FullNoteInv'
    BY <1>5, NextIndex, SizeFacts DEF SrcStore, Typed, TypeOK, FullNoteInv,
       SlotsApart, BurstInv
  <2> QED
    BY <2>1, <2>2, <2>3, <2>4, <2>5
<1>6. CASE SrcPublish
  <2>1. Typed'
    BY <1>6, NextIndex DEF SrcPublish, Typed, TypeOK, SrcSteps, SnkSteps
  <2>2. SlotsApart'
    BY <1>6, NextIndex, SizeFacts DEF SrcPublish, Typed, TypeOK, SlotsApart
  <2>3. BurstInv'
    BY <1>6 DEF SrcPublish, Typed, BurstInv
  <2>4. EmptyNoteInv'
    BY <1>6, NextIndex, SizeFacts DEF SrcPublish, Typed, TypeOK, EmptyNoteInv,
       SlotsApart
  <2>5. FullNoteInv'
    BY <1>6, NextIndex, SizeFacts DEF SrcPublish, Typed, TypeOK, FullNoteInv,
       SlotsApart, BurstInv
  <2> QED
    BY <2>1, <2>2, <2>3, <2>4, <2>5
<1>7. CASE SrcWake
  <2>1. CASE empty_note
    BY SMTT(30), <1>7, <2>1, NextIndex, SizeFacts
    DEF SrcWake, Typed, TypeOK, SlotsApart, BurstInv,
       EmptyNoteInv, FullNoteInv, SrcSteps, SnkSteps
  <2>2. CASE ~empty_note
    BY Zenon, <1>7, <2>2, NextIndex, SizeFacts
    DEF SrcWake, Typed, TypeOK, SlotsApart, BurstInv,
       EmptyNoteInv, FullNoteInv, SrcSteps, SnkSteps
  <2> QED
    BY <2>1, <2>2
<1>8. CASE SrcReschedule
  BY ZenonT(30), <1>8, NextIndex, SizeFacts
  DEF SrcReschedule, Typed, TypeOK, SlotsApart, BurstInv,
     EmptyNoteInv, FullNoteInv, SrcSteps, SnkSteps
<1>9. CASE SrcSleep
  <2>1. Typed'
    <3>1. PICK pc \in {"recheck", "push"} : SrcGo(pc)
      BY <1>9 DEF SrcSleep
    <3>2. pc \in SrcSteps
      BY DEF SrcSteps
    <3> HIDE DEF SrcGo, IInv
    <3>3. Typed
      BY DEF IInv
    <3>4. /\ src' \in [pc : SrcSteps, count : 0..Limit, n : 0..Burst,
                       worked : BOOLEAN, h : Indices]
          /\ src'.count = src.count /\ src'.n = src.n /\ src'.h = src.h
      BY <3>1, <3>2, <3>3, SrcGoes
    <3>5. full_note' \in BOOLEAN
      BY Zenon, <1>9, <3>3 DEF SrcSleep, Typed, TypeOK
    <3>6. UNCHANGED <<q, head, tail, sleepiness, empty_note, scheduled, snk>>
      BY <1>9 DEF SrcSleep
    <3> QED
      BY <3>3, <3>4, <3>5, <3>6 DEF Typed, TypeOK
  <2>2. SlotsApart'
    BY <1>9, NextIndex, SizeFacts DEF SrcSleep, Typed, TypeOK, SlotsApart
  <2>3. BurstInv'
    BY <1>9 DEF SrcSleep, Typed, BurstInv
  <2>4. EmptyNoteInv'
    BY <1>9, NextIndex, SizeFacts DEF SrcSleep, Typed, TypeOK, EmptyNoteInv,
       SlotsApart
  <2>5. FullNoteInv'
    BY <1>9, NextIndex, SizeFacts DEF SrcSleep, Typed, TypeOK, FullNoteInv,
       SlotsApart, BurstInv
  <2> QED
    BY <2>1, <2>2, <2>3, <2>4, <2>5
<1>10. CASE SrcRecheck
  BY SMTT(30), <1>10, NextIndex, SizeFacts
  DEF SrcRecheck, Typed, TypeOK, SlotsApart, BurstInv,
     EmptyNoteInv, FullNoteInv, SrcSteps, SnkSteps
<1>11. CASE SrcNonfull
  BY <1>11, NextIndex, SizeFacts
  DEF SrcNonfull, Typed, TypeOK, SlotsApart, BurstInv,
     EmptyNoteInv, FullNoteInv, SrcSteps, SnkSteps
<1>12. CASE SrcSelf
  BY SMTT(30), <1>12, NextIndex, SizeFacts
  DEF SrcSelf, Typed, TypeOK, SlotsApart, BurstInv,
     EmptyNoteInv, FullNoteInv, SrcSteps, SnkSteps
<1> QED
  BY <1>1, <1>2, <1>3, <1>4, <1>5, <1>6, <1>7, <1>8, <1>9, <1>10, <1>11, <1>12
     DEF SrcStep

LEMMA SnkGoes ==
  ASSUME Typed, NEW pc \in SnkSteps, SnkGo(pc)
  PROVE  /\ snk' \in [pc : SnkSteps, p : Packets \cup {NoPacket}]
         /\ snk'.pc = pc /\ snk'.p = snk.p
BY DEF Typed, SnkGo

LEMMA SnkStepKeepsInv ==
  ASSUME IInv, SnkStep
  PROVE  IInv'
<1> USE QueueAssumption DEF queue, notes, SrcGo, SnkGo, IInv
<1>1. CASE SnkFire
  BY Zenon, <1>1, NextIndex, SizeFacts
  DEF SnkFire, Typed, TypeOK, SlotsApart, BurstInv,
     EmptyNoteInv, FullNoteInv, SrcSteps, SnkSteps
<1>2. CASE SnkPull
  BY <1>2, NextIndex, SizeFacts
  DEF SnkPull, Typed, TypeOK, SlotsApart, BurstInv,
     EmptyNoteInv, FullNoteInv, SrcSteps, SnkSteps
<1>3. CASE SnkTake
  BY Zenon, <1>3, NextIndex, SizeFacts
  DEF SnkTake, Typed, TypeOK, SlotsApart, BurstInv,
     EmptyNoteInv, FullNoteInv, SrcSteps, SnkSteps
<1>4. CASE SnkRelease
  <2>1. Typed'
    BY <1>4, NextIndex DEF SnkRelease, Typed, TypeOK, SrcSteps, SnkSteps
  <2>2. SlotsApart'
    BY <1>4, NextIndex, SizeFacts DEF SnkRelease, Typed, TypeOK, SlotsApart
  <2>3. BurstInv'
    BY <1>4 DEF SnkRelease, Typed, BurstInv
  <2>4. EmptyNoteInv'
    BY <1>4, NextIndex, SizeFacts DEF SnkRelease, Typed, TypeOK, EmptyNoteInv,
       SlotsApart
  <2>5. FullNoteInv'
    BY <1>4, NextIndex, SizeFacts DEF SnkRelease, Typed, TypeOK, FullNoteInv,
       SlotsApart, BurstInv
  <2> QED
    BY <2>1, <2>2, <2>3, <2>4, <2>5
<1>5. CASE SnkWake
  <2>1. CASE full_note
    BY Zenon, <1>5, <2>1, NextIndex, SizeFacts
    DEF SnkWake, Typed, TypeOK, SlotsApart, BurstInv,
       EmptyNoteInv, FullNoteInv, SrcSteps, SnkSteps
  <2>2. CASE ~full_note
    BY Zenon, <1>5, <2>2, NextIndex, SizeFacts
    DEF SnkWake, Typed, TypeOK, SlotsApart, BurstInv,
       EmptyNoteInv, FullNoteInv, SrcSteps, SnkSteps
  <2> QED
    BY <2>1, <2>2
<1>6. CASE SnkReschedule
  BY SMTT(30), <1>6, NextIndex, SizeFacts
  DEF SnkReschedule, Typed, TypeOK, SlotsApart, BurstInv,
     EmptyNoteInv, FullNoteInv, SrcSteps, SnkSteps
<1>7. CASE SnkDoze
  <2>1. Typed'
    <3>1. CASE sleepiness >= Trigger
      BY Zenon, <1>7, <3>1 DEF SnkDoze, Typed, TypeOK, SnkSteps
    <3>2. CASE ~(sleepiness >= Trigger)
      <4>1. sleepiness + 1 \in 0..Trigger
        BY <3>2 DEF Typed, TypeOK
      <4> QED
        BY <1>7, <3>2, <4>1 DEF SnkDoze, Typed, TypeOK, SnkSteps
    <3> QED
      BY <3>1, <3>2
  <2>2. SlotsApart'
    BY <1>7, NextIndex, SizeFacts DEF SnkDoze, Typed, TypeOK, SlotsApart
  <2>3. BurstInv'
    BY <1>7 DEF SnkDoze, Typed, BurstInv
  <2>4. EmptyNoteInv'
    BY <1>7, NextIndex, SizeFacts DEF SnkDoze, Typed, TypeOK, EmptyNoteInv, SlotsApart
  <2>5. FullNoteInv'
    BY <1>7, NextIndex, SizeFacts DEF SnkDoze, Typed, TypeOK, FullNoteInv,
       SlotsApart, BurstInv
  <2> QED
    BY <2>1, <2>2, <2>3, <2>4, <2>5
<1>8. CASE SnkRecheck
  <2>1. PICK pc \in {"nonempty", "signal"} :
          SnkGo(pc) /\ (pc = "signal" => size(head, tail) = 0)
    BY <1>8 DEF SnkRecheck
  <2>2. /\ snk.pc = "recheck"
        /\ UNCHANGED <<q, head, tail, sleepiness, empty_note, full_note, scheduled, src>>
    BY <1>8 DEF SnkRecheck
  <2>3. pc \in SnkSteps
    BY DEF SnkSteps
  <2>4. /\ snk' \in [pc : SnkSteps, p : Packets \cup {NoPacket}]
        /\ snk'.pc = pc
    BY <2>1, <2>3, SnkGoes
  <2>5. Typed'
    BY <2>2, <2>4 DEF Typed, TypeOK
  <2>6. SlotsApart' /\ BurstInv'
    BY <2>2, <2>4 DEF SlotsApart, BurstInv
  <2>7. EmptyNoteInv'
    <3>1. size(head, tail) = 0 => head = tail
      BY SizeFacts DEF Typed, TypeOK
    <3> QED
      BY <2>1, <2>2, <2>4, <3>1 DEF EmptyNoteInv
  <2>8. FullNoteInv'
    BY <2>2, <2>4 DEF FullNoteInv
  <2> QED
    BY <2>5, <2>6, <2>7, <2>8
<1>9. CASE SnkNonempty
  <2>1. CASE empty_note
    BY SMTT(30), <1>9, <2>1, NextIndex, SizeFacts
    DEF SnkNonempty, Typed, TypeOK, SlotsApart, BurstInv,
       EmptyNoteInv, FullNoteInv, SrcSteps, SnkSteps
  <2>2. CASE ~empty_note
    BY <1>9, <2>2, NextIndex, SizeFacts
    DEF SnkNonempty, Typed, TypeOK, SlotsApart, BurstInv,
       EmptyNoteInv, FullNoteInv, SrcSteps, SnkSteps
  <2> QED
    BY <2>1, <2>2
<1>10. CASE SnkSelf
  BY SMTT(30), <1>10, NextIndex, SizeFacts
  DEF SnkSelf, Typed, TypeOK, SlotsApart, BurstInv,
     EmptyNoteInv, FullNoteInv, SrcSteps, SnkSteps
<1>11. CASE SnkSignal
  BY SMTT(30), <1>11, NextIndex, SizeFacts
  DEF SnkSignal, Typed, TypeOK, SlotsApart, BurstInv,
     EmptyNoteInv, FullNoteInv, SrcSteps, SnkSteps
<1>12. CASE SnkAgain
  BY <1>12, NextIndex, SizeFacts
  DEF SnkAgain, Typed, TypeOK, SlotsApart, BurstInv,
     EmptyNoteInv, FullNoteInv, SrcSteps, SnkSteps
<1> QED
  BY <1>1, <1>2, <1>3, <1>4, <1>5, <1>6, <1>7, <1>8, <1>9, <1>10, <1>11, <1>12
     DEF SnkStep

LEMMA StepKeepsInv == IInv /\ [Next]_vars => IInv'
<1> SUFFICES ASSUME IInv, [Next]_vars
             PROVE  IInv'
  OBVIOUS
<1>1. CASE SrcStep
  BY <1>1, SrcStepKeepsInv
<1>2. CASE SnkStep
  BY <1>2, SnkStepKeepsInv
<1>3. CASE UNCHANGED vars
  BY <1>3 DEF vars, queue, notes, IInv, Typed, TypeOK, SlotsApart, BurstInv,
     EmptyNoteInv, FullNoteInv
<1> QED
  BY <1>1, <1>2, <1>3 DEF Next

THEOREM Invariance == Spec => []IInv
BY InitEstablishesInv, StepKeepsInv, PTL DEF Spec

(* Whatever the two threads do between each other's steps, no wake-up of   *)
(* the pulling task is lost: push's wake, pull_failure's second look and   *)
(* run_task's test of the signal leave no gap.                             *)
THEOREM PullerNeverLost == Spec => []PullerAwake
<1>1. IInv => PullerAwake
  BY SizeFacts DEF IInv, Typed, TypeOK, EmptyNoteInv, PullerAwake
<1> QED
  BY <1>1, Invariance, PTL

(* No wake-up of the pushing task is lost either: push_success's second    *)
(* look and pull's wake leave no gap, although push decides by the head it *)
(* read before it stored the packet.                                       *)
THEOREM PusherNeverLost == Spec => []PusherAwake
<1>1. IInv => PusherAwake
  BY SizeFacts DEF IInv, Typed, TypeOK, FullNoteInv, PusherAwake
<1> QED
  BY <1>1, Invariance, PTL

-----------------------------------------------------------------------------
(* The refinement.  Slot(h, k) is the slot k places behind slot h.         *)
Slot(h, k) == IF h + k <= Capacity THEN h + k ELSE h + k - (Capacity + 1)

(* What % does to a number that has run over the modulus once at most.     *)
LEMMA Remainder ==
  ASSUME NEW N \in Nat \ {0}, NEW a \in Nat, a < 2 * N
  PROVE  a % N = IF a < N THEN a ELSE a - N
<1>1. CASE a < N
  BY <1>1
<1>2. CASE a >= N
  BY <1>2
<1> QED
  BY <1>1, <1>2

LEMMA SlotIsRemainder ==
  ASSUME NEW h \in Indices, NEW k \in 0..Capacity
  PROVE  (h + k) % (Capacity + 1) = Slot(h, k)
<1>1. Capacity + 1 \in Nat \ {0} /\ h + k \in Nat /\ h + k < 2 * (Capacity + 1)
  BY QueueAssumption DEF Indices
<1>2. PICK N \in Nat \ {0}, a \in Nat : N = Capacity + 1 /\ a = h + k
  BY <1>1
<1>3. a % N = IF a < N THEN a ELSE a - N
  BY <1>1, <1>2, Remainder
<1>4. a % N = (h + k) % (Capacity + 1)
  BY <1>2
<1> QED
  BY <1>2, <1>3, <1>4, QueueAssumption DEF Slot, Indices

(* The slots behind h are slots and different ones, the first is h, the    *)
(* one behind the last packet is the tail, and they move with h.           *)
LEMMA SlotFacts ==
  ASSUME NEW h \in Indices, NEW t \in Indices
  PROVE  /\ \A k \in 0..Capacity : Slot(h, k) \in Indices
         /\ \A j, k \in 0..Capacity : Slot(h, j) = Slot(h, k) => j = k
         /\ Slot(h, 0) = h
         /\ Slot(h, size(h, t)) = t
         /\ \A k \in 0..(Capacity - 1) : Slot(next_i(h), k) = Slot(h, k + 1)
BY QueueAssumption DEF Indices, Slot, size, next_i

LEMMA ContentsFacts ==
  ASSUME IInv
  PROVE  /\ Contents \in Seq(Packets \cup {NoPacket})
         /\ Len(Contents) = size(head, tail)
         /\ \A k \in 1..size(head, tail) : Contents[k] = q[Slot(head, k - 1)]
<1> DEFINE n == size(head, tail)
<1>1. head \in Indices /\ tail \in Indices /\ n \in 0..Capacity
  BY SizeFacts DEF IInv, Typed, TypeOK
<1>2. ASSUME NEW k \in 1..n
      PROVE  /\ q[(head + k - 1) % (Capacity + 1)] = q[Slot(head, k - 1)]
             /\ q[Slot(head, k - 1)] \in Packets \cup {NoPacket}
  <2>1. k - 1 \in 0..Capacity /\ head + k - 1 = head + (k - 1)
    BY <1>1, QueueAssumption DEF Indices
  <2> QED
    BY <1>1, <2>1, SlotIsRemainder, SlotFacts DEF IInv, Typed, TypeOK
<1> QED
  BY <1>1, <1>2 DEF Contents

(* A packet stored behind the last one is not in the queue yet.            *)
LEMMA StoreHidden ==
  ASSUME IInv, IInv', SrcStore
  PROVE  Contents' = Contents
<1> DEFINE n == size(head, tail)
<1>1. /\ head' = head /\ tail' = tail /\ head \in Indices /\ tail \in Indices
      /\ q' = [q EXCEPT ![tail] = src.count] /\ q \in [Indices -> Packets \cup {NoPacket}]
      /\ n \in 0..Capacity /\ n' = n
  BY SizeFacts DEF SrcStore, IInv, Typed, TypeOK
<1> HIDE DEF n
<1>2. ASSUME NEW k \in 1..n
      PROVE  q'[Slot(head, k - 1)] = q[Slot(head, k - 1)]
  <2>1. k - 1 \in 0..Capacity /\ k - 1 # n
    BY <1>1, QueueAssumption
  <2>2. Slot(head, k - 1) \in Indices /\ Slot(head, k - 1) # tail
    BY <1>1, <2>1, SlotFacts DEF n
  <2> QED
    BY <1>1, <2>2
<1>3. ASSUME NEW k \in 1..n
      PROVE  /\ (head + k - 1) % (Capacity + 1) = Slot(head, k - 1)
             /\ (head' + k - 1) % (Capacity + 1) = Slot(head, k - 1)
  <2>1. k - 1 \in 0..Capacity /\ head + k - 1 = head + (k - 1)
    BY <1>1, QueueAssumption DEF Indices
  <2> QED
    BY <1>1, <2>1, SlotIsRemainder
<1> QED
  BY <1>1, <1>2, <1>3 DEF Contents, n

(* The facts about the contents hold after a step as well.                 *)
LEMMA ContentsFactsNext ==
  ASSUME IInv'
  PROVE  /\ Contents' \in Seq(Packets \cup {NoPacket})
         /\ Len(Contents') = size(head', tail')
         /\ \A k \in 1..size(head', tail') : Contents'[k] = q'[Slot(head', k - 1)]
<1>1. (/\ Contents \in Seq(Packets \cup {NoPacket})
       /\ Len(Contents) = size(head, tail)
       /\ \A k \in 1..size(head, tail) : Contents[k] = q[Slot(head, k - 1)])'
  BY ContentsFacts, PTL
<1> QED
  BY <1>1 DEF Slot, size

(* Moving the tail appends the packet stored before.                       *)
LEMMA PublishAppends ==
  ASSUME IInv, IInv', SrcPublish
  PROVE  Fifo!push(src.count) /\ src.count \in Packets
<1> DEFINE n == size(head, tail)
<1>1. /\ head' = head /\ q' = q /\ tail' = next_i(tail) /\ ret' = <<"push", TRUE>>
      /\ head \in Indices /\ tail \in Indices
      /\ next_i(tail) # head /\ q[tail] = src.count /\ src.count \in Packets
  BY DEF SrcPublish, IInv, Typed, TypeOK, SlotsApart, Packets
<1>2. n \in 0..Capacity /\ n # Capacity /\ size(head', tail') = n + 1
  BY <1>1, SizeFacts
<1>3. Slot(head, n) = tail
  BY <1>1, SlotFacts
<1> HIDE DEF n
<1>4. /\ Contents \in Seq(Packets \cup {NoPacket}) /\ Len(Contents) = n
      /\ \A k \in 1..n : Contents[k] = q[Slot(head, k - 1)]
  BY ContentsFacts DEF n
<1>5. /\ Contents' \in Seq(Packets \cup {NoPacket}) /\ Len(Contents') = n + 1
      /\ \A k \in 1..(n + 1) : Contents'[k] = q[Slot(head, k - 1)]
  BY <1>1, <1>2, ContentsFactsNext
<1>6. Contents'[n + 1] = src.count
  <2>1. n + 1 \in 1..(n + 1) /\ (n + 1) - 1 = n
    BY <1>2
  <2> QED
    BY <1>1, <1>3, <1>5, <2>1
<1>7. Contents' = Append(Contents, src.count)
  BY <1>1, <1>2, <1>4, <1>5, <1>6
<1>8. Len(Contents) # Capacity
  BY <1>2, <1>4
<1> QED
  BY <1>1, <1>7, <1>8 DEF Fifo!push

(* Moving the head takes the oldest packet out.                            *)
LEMMA ReleasePulls ==
  ASSUME IInv, IInv', SnkRelease
  PROVE  Fifo!pull
<1> DEFINE n == size(head, tail)
<1>1. /\ head' = next_i(head) /\ q' = q /\ tail' = tail /\ ret' = <<"pull", q[head]>>
      /\ head \in Indices /\ tail \in Indices /\ head # tail
  BY DEF SnkRelease, IInv, Typed, TypeOK, SlotsApart
<1>2. n \in 1..Capacity /\ size(head', tail') = n - 1
  <2>1. n \in 0..Capacity /\ n # 0 /\ size(head', tail') = n - 1
    BY <1>1, SizeFacts
  <2> QED
    BY <2>1, QueueAssumption
<1>3. Slot(head, 0) = head /\ \A k \in 0..(Capacity - 1) : Slot(head', k) = Slot(head, k + 1)
  BY <1>1, SlotFacts
<1> HIDE DEF n
<1>4. /\ Contents \in Seq(Packets \cup {NoPacket}) /\ Len(Contents) = n
      /\ \A k \in 1..n : Contents[k] = q[Slot(head, k - 1)]
  BY ContentsFacts DEF n
<1>5. /\ Contents' \in Seq(Packets \cup {NoPacket}) /\ Len(Contents') = n - 1
      /\ \A k \in 1..(n - 1) : Contents'[k] = q[Slot(head', k - 1)]
  BY <1>1, <1>2, ContentsFactsNext
<1>6. ASSUME NEW k \in 1..(n - 1)
      PROVE  Contents'[k] = Contents[k + 1]
  <2>1. /\ k - 1 \in 0..(Capacity - 1) /\ k + 1 \in 1..n
        /\ (k - 1) + 1 = k /\ (k + 1) - 1 = k
    BY <1>2, QueueAssumption
  <2>2. Slot(head', k - 1) = Slot(head, k)
    BY <1>3, <2>1
  <2>3. Contents[k + 1] = q[Slot(head, k)]
    BY <1>4, <2>1
  <2> QED
    BY <1>5, <2>2, <2>3
<1>7. Contents # <<>> /\ Head(Contents) = q[head]
  BY <1>2, <1>3, <1>4
<1>8. Contents' = Tail(Contents)
  BY <1>2, <1>4, <1>5, <1>6
<1> QED
  BY <1>1, <1>7, <1>8 DEF Fifo!pull

(* Every step of the two threads is a push, a pull or no step of the queue. *)
LEMMA StepImplementsFifo ==
  ASSUME IInv, IInv', [Next]_vars
  PROVE  [Fifo!Next]_<<Contents, ret>>
<1>1. CASE SrcStep
  <2>1. CASE SrcPush
    <3>1. Contents' = Contents
      BY <2>1 DEF SrcPush, queue, Contents
    <3>2. CASE next_i(tail) = head
      <4>1. ret' = <<"push", FALSE>>
        BY <2>1, <3>2 DEF SrcPush
      <4>2. Len(Contents) = Capacity
        <5>1. head \in Indices /\ tail \in Indices
          BY DEF IInv, Typed, TypeOK
        <5>2. size(head, tail) = Capacity
          BY <3>2, <5>1, SizeFacts
        <5> QED
          BY <5>2, ContentsFacts DEF IInv
      <4>3. 1 \in Packets
        BY <2>1, QueueAssumption DEF SrcPush, IInv, Typed, BurstInv, Packets
      <4>4. Fifo!push(1)
        BY <3>1, <4>1, <4>2 DEF Fifo!push
      <4> QED
        BY <4>3, <4>4 DEF Fifo!Next
    <3>3. CASE next_i(tail) # head
      BY <2>1, <3>1, <3>3 DEF SrcPush
    <3> QED
      BY <3>2, <3>3
  <2>2. CASE SrcStore
    BY <2>2, StoreHidden DEF SrcStore
  <2>3. CASE SrcPublish
    BY <2>3, PublishAppends DEF Fifo!Next
  <2>4. CASE SrcStep /\ ~SrcPush /\ ~SrcStore /\ ~SrcPublish
    <3>1. UNCHANGED <<q, head, tail, ret>>
      BY <2>4 DEF SrcStep, queue, SrcFire, SrcRun, SrcEnd, SrcWake, SrcReschedule,
         SrcSleep, SrcRecheck, SrcNonfull, SrcSelf
    <3> QED
      BY <3>1 DEF Contents
  <2> QED
    BY <1>1, <2>1, <2>2, <2>3, <2>4
<1>2. CASE SnkStep
  <2>1. CASE SnkPull
    <3>1. Contents' = Contents
      BY <2>1 DEF SnkPull, queue, Contents
    <3>2. CASE head = tail
      <4>1. ret' = <<"pull", NoPacket>>
        BY <2>1, <3>2 DEF SnkPull
      <4>2. Contents = <<>>
        <5>1. size(head, tail) = 0
          BY <3>2, SizeFacts DEF IInv, Typed, TypeOK
        <5> QED
          BY <5>1, ContentsFacts
      <4>3. Fifo!pull
        BY <3>1, <4>1, <4>2 DEF Fifo!pull
      <4> QED
        BY <4>3 DEF Fifo!Next
    <3>3. CASE head # tail
      BY <2>1, <3>1, <3>3 DEF SnkPull
    <3> QED
      BY <3>2, <3>3
  <2>2. CASE SnkRelease
    BY <2>2, ReleasePulls DEF Fifo!Next
  <2>3. CASE SnkStep /\ ~SnkPull /\ ~SnkRelease
    <3>1. UNCHANGED <<q, head, tail, ret>>
      BY <2>3 DEF SnkStep, queue, SnkFire, SnkTake, SnkWake, SnkReschedule, SnkDoze,
         SnkRecheck, SnkNonempty, SnkSelf, SnkSignal, SnkAgain
    <3> QED
      BY <3>1 DEF Contents
  <2> QED
    BY <1>2, <2>1, <2>2, <2>3
<1>3. CASE UNCHANGED vars
  BY <1>3 DEF vars, queue, Contents
<1> QED
  BY <1>1, <1>2, <1>3 DEF Next

(* Without a lock between them, one pushing and one pulling thread share a *)
(* bounded first-in first-out queue: push stores before it moves the tail, *)
(* pull reads before it moves the head, and each tests an index the other  *)
(* one can only have moved in the safe direction.                          *)
THEOREM ImplementsFifo == Spec => FifoSpec
<1>1. Init => Fifo!Init
  <2> SUFFICES ASSUME Init
               PROVE  Contents = <<>> /\ ret = <<"none">>
    BY DEF Fifo!Init
  <2>1. IInv /\ head = tail
    BY InitEstablishesInv DEF Init
  <2>2. size(head, tail) = 0
    BY <2>1, SizeFacts DEF IInv, Typed, TypeOK
  <2> QED
    BY <2>1, <2>2, ContentsFacts DEF Init
<1>2. IInv /\ IInv' /\ [Next]_vars => [Fifo!Next]_<<Contents, ret>>
  BY StepImplementsFifo
<1> QED
  BY <1>1, <1>2, Invariance, PTL DEF Spec, FifoSpec
=============================================================================

---------------------- MODULE EmpowerQOSManager_proofs ----------------------
(***************************************************************************)
(* Proofs about the downlink scheduler, for any tenants, classes, flows,   *)
(* quanta, air times and capacity.                                         *)
(***************************************************************************)
EXTENDS EmpowerQOSManager, TLAPS

-----------------------------------------------------------------------------
(***************************************************************************)
(* The inductive invariant.                                                *)
(***************************************************************************)

\* An inner list has every flow with packets, once.
Listed(q) ==
  /\ IsInjective(q.flow_list)
  /\ \A f \in Flows : q.queues[f] # <<>> => Contains(q.flow_list, f)

\* A queue holds packets of its own flow, in the order of their arrival.
Sorted(q) ==
  \A f \in Flows : \A k \in 1..Len(q.queues[f]) :
    /\ q.queues[f][k].flow = f
    /\ \A j \in 1..Len(q.queues[f]) :
         j < k => q.queues[f][j].id < q.queues[f][k].id

QueueInv(q) ==
  /\ q \in TrafficRuleQueue
  /\ ExistsBijection(1..q.size, Occupied(q))
  /\ Listed(q)
  /\ Sorted(q)

StateInv ==
  /\ TypeOK
  /\ \A tr \in TrafficRule : rules[tr] # NoRule => QueueInv(rules[tr])
  /\ ~asleep => sleepiness < SLEEPINESS_TRIGGER

SchedInv == NoRuleForgotten /\ NoLostWakeup /\ DeficitBounded

Ids == 1..MaxPackets

\* The whereabouts of packet i, given rules R, head table H, sent packets S
\* and dropped ones D.
HasId(s, i) == \E k \in 1..Len(s) : s[k].id = i

Queued(R, i, tr, f) == R[tr] # NoRule /\ HasId(R[tr].queues[f], i)

Held(H, i, tr) == H[tr] # NoPacket /\ H[tr].id = i

Left(S, i) == \E n \in 1..Len(S) : S[n].packet.id = i

Seen(R, H, S, D, i) ==
  \/ \E tr \in TrafficRule, f \in Flows : Queued(R, i, tr, f)
  \/ \E tr \in TrafficRule : Held(H, i, tr)
  \/ Left(S, i)
  \/ i \in D

\* A packet is in one place at most.
Once(R, H, S, D) ==
  \A i \in Ids :
    /\ \A tr1, tr2 \in TrafficRule : \A g1, g2 \in Flows :
         Queued(R, i, tr1, g1) /\ Queued(R, i, tr2, g2) => tr1 = tr2 /\ g1 = g2
    /\ \A tr1, tr2 \in TrafficRule : Held(H, i, tr1) /\ Held(H, i, tr2) => tr1 = tr2
    /\ \A m, n \in 1..Len(S) :
         S[m].packet.id = i /\ S[n].packet.id = i => m = n
    /\ \A tr1, tr2 \in TrafficRule : \A g \in Flows :
         ~ (Queued(R, i, tr1, g) /\ Held(H, i, tr2))
    /\ \A tr \in TrafficRule : \A g \in Flows :
         Queued(R, i, tr, g) => ~ Left(S, i) /\ i \notin D
    /\ \A tr \in TrafficRule : Held(H, i, tr) => ~ Left(S, i) /\ i \notin D
    /\ Left(S, i) => i \notin D

\* The same, one part at a time: no two queues, no two head places and no two
\* places of the sent packets share a packet, and the four kinds of places
\* share none either.
QueuedOnce(R) ==
  \A i \in Ids : \A tr1, tr2 \in TrafficRule : \A g1, g2 \in Flows :
    Queued(R, i, tr1, g1) /\ Queued(R, i, tr2, g2) => tr1 = tr2 /\ g1 = g2

HeldOnce(H) ==
  \A i \in Ids : \A tr1, tr2 \in TrafficRule :
    Held(H, i, tr1) /\ Held(H, i, tr2) => tr1 = tr2

SentOnce(S) ==
  \A i \in Ids : \A m, n \in 1..Len(S) :
    S[m].packet.id = i /\ S[n].packet.id = i => m = n

QueuedNotHeld(R, H) ==
  \A i \in Ids : \A tr1, tr2 \in TrafficRule : \A g \in Flows :
    ~ (Queued(R, i, tr1, g) /\ Held(H, i, tr2))

QueuedNotGone(R, S, D) ==
  \A i \in Ids : \A tr \in TrafficRule : \A g \in Flows :
    Queued(R, i, tr, g) => ~ Left(S, i) /\ i \notin D

HeldNotGone(H, S, D) ==
  \A i \in Ids : \A tr \in TrafficRule :
    Held(H, i, tr) => ~ Left(S, i) /\ i \notin D

SentNotDropped(S, D) == \A i \in Ids : Left(S, i) => i \notin D

\* Within a rule and a flow, what was sent is older than what is held, and
\* that is older than what is queued.
Ordered(R, H, S) ==
  /\ \A tr \in TrafficRule : \A i \in Ids :
       H[tr] # NoPacket /\ Queued(R, i, tr, H[tr].flow) => H[tr].id < i
  /\ \A n \in 1..Len(S) : \A i \in Ids :
       Queued(R, i, S[n].rule, S[n].packet.flow) => S[n].packet.id < i
  /\ \A n \in 1..Len(S) :
       /\ H[S[n].rule] # NoPacket
       /\ H[S[n].rule].flow = S[n].packet.flow
       => S[n].packet.id < H[S[n].rule].id
  /\ \A m, n \in 1..Len(S) :
       m < n /\ S[m].rule = S[n].rule /\ S[m].packet.flow = S[n].packet.flow
         => S[m].packet.id < S[n].packet.id

\* The packets up to number n are seen, and no others, unless the agent
\* crashed on the last one.
Accounted(R, H, S, D, n, up) ==
  \A i \in Ids :
    /\ Seen(R, H, S, D, i) => i <= n
    /\ up /\ i <= n => Seen(R, H, S, D, i)

Placed(R, H, S, D, n, up) ==
  /\ Accounted(R, H, S, D, n, up)
  /\ Once(R, H, S, D)
  /\ Ordered(R, H, S)

PlaceInv == Placed(rules, head_table, sent, dropped, arrived, agent = "up")

IInv == StateInv /\ SchedInv /\ PlaceInv

-----------------------------------------------------------------------------
(***************************************************************************)
(* Lemmas about sequences and about counting.                              *)
(***************************************************************************)

\* A sequence is a function on its places.
LEMMA LenFacts ==
  ASSUME NEW S, NEW s \in Seq(S)
  PROVE  /\ Len(s) \in Nat
         /\ DOMAIN s = 1 .. Len(s)
         /\ s \in [1 .. Len(s) -> S]
         /\ \A i \in 1 .. Len(s) : s[i] \in S
OBVIOUS

LEMMA EmptyFacts ==
  ASSUME NEW S
  PROVE  /\ <<>> \in Seq(S)
         /\ Len(<<>>) = 0
         /\ \A s \in Seq(S) : s = <<>> <=> Len(s) = 0
OBVIOUS

LEMMA AppendFacts ==
  ASSUME NEW S, NEW s \in Seq(S), NEW e \in S
  PROVE  /\ Append(s, e) \in Seq(S)
         /\ Append(s, e) # <<>>
         /\ Len(Append(s, e)) = Len(s) + 1
         /\ \A i \in 1 .. Len(s) : Append(s, e)[i] = s[i]
         /\ Append(s, e)[Len(s) + 1] = e
OBVIOUS

LEMMA TailFacts ==
  ASSUME NEW S, NEW s \in Seq(S), s # <<>>
  PROVE  /\ Head(s) \in S
         /\ Head(s) = s[1]
         /\ Tail(s) \in Seq(S)
         /\ Len(Tail(s)) = Len(s) - 1
         /\ \A i \in 1 .. Len(Tail(s)) : Tail(s)[i] = s[i + 1]
OBVIOUS

\* What follows the k-th place.
LEMMA RestFacts ==
  ASSUME NEW S, NEW s \in Seq(S), NEW k \in 1 .. Len(s)
  PROVE  LET r == SubSeq(s, k + 1, Len(s)) IN
         /\ r \in Seq(S)
         /\ Len(r) = Len(s) - k
         /\ \A i \in 1 .. Len(s) - k : r[i] = s[k + i]
<1>1. SubSeq(s, k + 1, Len(s)) \in Seq(S)
  OBVIOUS
<1>2. Len(SubSeq(s, k + 1, Len(s))) = Len(s) - k
  OBVIOUS
<1>3. \A i \in 1 .. Len(s) - k : SubSeq(s, k + 1, Len(s))[i] = s[k + i]
  OBVIOUS
<1> QED
  BY <1>1, <1>2, <1>3

\* Appending an element adds it and keeps the others.
LEMMA ContainsAppend ==
  ASSUME NEW S, NEW s \in Seq(S), NEW e \in S, NEW x
  PROVE  Contains(Append(s, e), x) <=> Contains(s, x) \/ x = e
<1>1. /\ Len(s) \in Nat
      /\ Len(Append(s, e)) = Len(s) + 1
      /\ \A i \in 1 .. Len(s) : Append(s, e)[i] = s[i]
      /\ Append(s, e)[Len(s) + 1] = e
  BY AppendFacts, LenFacts
<1> QED
  BY <1>1 DEF Contains

\* What a sequence contains, by its head and its tail.
LEMMA ContainsTail ==
  ASSUME NEW S, NEW s \in Seq(S), s # <<>>, NEW x
  PROVE  Contains(s, x) <=> x = Head(s) \/ Contains(Tail(s), x)
<1> DEFINE t == Tail(s)
<1>1. /\ Len(s) \in Nat \ {0}
      /\ Head(s) = s[1]
      /\ Len(t) = Len(s) - 1
      /\ \A i \in 1 .. Len(t) : t[i] = s[i + 1]
  BY TailFacts, EmptyFacts, LenFacts
<1> HIDE DEF t
<1>2. /\ 1 \in 1 .. Len(s)
      /\ \A i \in 1 .. Len(t) : i + 1 \in 1 .. Len(s)
      /\ \A i \in 1 .. Len(s) : i # 1 => i - 1 \in 1 .. Len(t) /\ (i - 1) + 1 = i
  BY <1>1
<1>3. ASSUME Contains(s, x) PROVE x = Head(s) \/ Contains(t, x)
  <2>1. PICK i \in 1 .. Len(s) : s[i] = x
    BY <1>3 DEF Contains
  <2>2. CASE i = 1
    BY <1>1, <2>1, <2>2
  <2>3. CASE i # 1
    BY ZenonT(30), <1>1, <1>2, <2>1, <2>3 DEF Contains
  <2> QED
    BY <2>2, <2>3
<1>4. ASSUME x = Head(s) \/ Contains(t, x) PROVE Contains(s, x)
  BY <1>1, <1>2, <1>4 DEF Contains
<1> QED
  BY <1>3, <1>4 DEF t

\* Counting with bijections: the empty set, one element more, one less.
LEMMA CountNone ==
  /\ ExistsBijection(1..0, {})
  /\ \A n \in Nat : ExistsBijection(1..n, {}) => n = 0
<1> DEFINE f == [i \in 1..0 |-> i]
<1>1. 1..0 = {}
  OBVIOUS
<1>2. f \in Bijection(1..0, {})
  BY <1>1 DEF Bijection, Injection, Surjection, IsInjective
<1>3. ASSUME NEW n \in Nat, n # 0, NEW g \in [1..n -> {}] PROVE FALSE
  <2>1. 1 \in 1..n
    BY <1>3
  <2> QED
    BY <1>3, <2>1
<1> QED
  BY Zenon, <1>2, <1>3 DEF ExistsBijection, Bijection, Injection

LEMMA CountMore ==
  ASSUME NEW S, NEW n \in Nat, ExistsBijection(1..n, S), NEW x, x \notin S
  PROVE  ExistsBijection(1..(n + 1), S \cup {x})
<1>1. PICK f \in Bijection(1..n, S) : TRUE
  BY DEF ExistsBijection
<1>2. /\ f \in [1..n -> S]
      /\ \A i, j \in 1..n : f[i] = f[j] => i = j
      /\ \A y \in S : \E i \in 1..n : f[i] = y
  BY DEF Bijection, Injection, Surjection, IsInjective
<1> DEFINE g == [i \in 1..(n + 1) |-> IF i = n + 1 THEN x ELSE f[i]]
<1>3. \A i \in 1..(n + 1) : i = n + 1 \/ i \in 1..n
  OBVIOUS
<1>4. \A i \in 1..n : i \in 1..(n + 1) /\ i # n + 1
  OBVIOUS
<1>5. n + 1 \in 1..(n + 1)
  OBVIOUS
<1>6. g \in [1..(n + 1) -> S \cup {x}]
  BY <1>2, <1>3
<1>7. /\ \A i \in 1..n : g[i] = f[i]
      /\ g[n + 1] = x
  BY <1>4, <1>5
<1> HIDE DEF g
<1>8. \A i, j \in 1..(n + 1) : g[i] = g[j] => i = j
  BY <1>2, <1>3, <1>7
<1>9. \A y \in S \cup {x} : \E i \in 1..(n + 1) : g[i] = y
  BY <1>2, <1>4, <1>5, <1>7
<1>10. g \in Bijection(1..(n + 1), S \cup {x})
  BY <1>6, <1>8, <1>9 DEF Bijection, Injection, Surjection, IsInjective
<1> QED
  BY Zenon, <1>10 DEF ExistsBijection

LEMMA CountLess ==
  ASSUME NEW S, NEW n \in Nat, ExistsBijection(1..n, S), NEW x \in S
  PROVE  n # 0 /\ ExistsBijection(1..(n - 1), S \ {x})
<1>1. PICK f \in Bijection(1..n, S) : TRUE
  BY DEF ExistsBijection
<1>2. /\ f \in [1..n -> S]
      /\ \A i, j \in 1..n : f[i] = f[j] => i = j
      /\ \A y \in S : \E i \in 1..n : f[i] = y
  BY DEF Bijection, Injection, Surjection, IsInjective
<1>3. PICK k \in 1..n : f[k] = x
  BY <1>2
<1> DEFINE g == [i \in 1..(n - 1) |-> IF i = k THEN f[n] ELSE f[i]]
<1>4. n \in 1..n /\ n # 0 /\ \A i \in 1..(n - 1) : i \in 1..n /\ i # n
  OBVIOUS
<1>5. \A i \in 1..n : i = n \/ i \in 1..(n - 1)
  OBVIOUS
<1>6. \A i \in 1..(n - 1) : g[i] = IF i = k THEN f[n] ELSE f[i]
  OBVIOUS
<1>7. g \in [1..(n - 1) -> S \ {x}]
  BY <1>2, <1>3, <1>4
<1> HIDE DEF g
<1>8. \A i, j \in 1..(n - 1) : g[i] = g[j] => i = j
  BY <1>2, <1>4, <1>6
<1>9. ASSUME NEW y \in S \ {x} PROVE \E i \in 1..(n - 1) : g[i] = y
  <2>1. PICK i \in 1..n : f[i] = y
    BY <1>2
  <2>2. CASE i = n
    <3>1. k \in 1..(n - 1)
      BY <1>3, <1>5, <1>9, <2>1, <2>2
    <3> QED
      BY <1>6, <2>1, <2>2, <3>1
  <2>3. CASE i # n
    BY <1>3, <1>5, <1>6, <2>1, <2>3
  <2> QED
    BY <2>2, <2>3
<1>10. g \in Bijection(1..(n - 1), S \ {x})
  BY <1>7, <1>8, <1>9 DEF Bijection, Injection, Surjection, IsInjective
<1> QED
  BY <1>4, <1>10 DEF ExistsBijection

-----------------------------------------------------------------------------
(***************************************************************************)
(* Lemmas about TrafficRuleQueue.                                          *)
(***************************************************************************)

\* A place of the aggregation queues is a flow and an index into its queue.
LEMMA OccupiedPlaces ==
  ASSUME NEW q \in TrafficRuleQueue
  PROVE  /\ \A g, k : <<g, k>> \in Occupied(q)
                      <=> g \in Flows /\ k \in 1..Len(q.queues[g])
         /\ \A x \in Occupied(q) : \E g, k : x = <<g, k>>
<1>1. \A g \in Flows : DOMAIN q.queues[g] = 1..Len(q.queues[g])
  BY LenFacts DEF TrafficRuleQueue
<1>2. Occupied(q) = UNION {{g} \X (1..Len(q.queues[g])) : g \in Flows}
  BY <1>1 DEF Occupied
<1>3. ASSUME NEW x \in Occupied(q)
      PROVE  \E g \in Flows : \E k \in 1..Len(q.queues[g]) : x = <<g, k>>
  BY <1>2
<1>4. ASSUME NEW g \in Flows, NEW k \in 1..Len(q.queues[g])
      PROVE  <<g, k>> \in Occupied(q)
  BY <1>2
<1> QED
  BY <1>3, <1>4

\* Two queues with the same packets occupy the same places.
LEMMA SamePlaces ==
  ASSUME NEW q, NEW r, r.queues = q.queues
  PROVE  Occupied(r) = Occupied(q)
BY DEF Occupied

\* The deficit has no part in the invariant of a rule's queues.
LEMMA DeficitIsFree ==
  ASSUME NEW q, QueueInv(q), NEW d \in Nat
  PROVE  LET r == [q EXCEPT !.deficit = d] IN
         /\ QueueInv(r)
         /\ r.queues = q.queues
         /\ r.size = q.size
         /\ r.deficit = d
         /\ r.quantum = q.quantum
<1> DEFINE r == [q EXCEPT !.deficit = d]
<1>1. /\ r \in TrafficRuleQueue
      /\ r.queues = q.queues
      /\ r.flow_list = q.flow_list
      /\ r.size = q.size
      /\ r.deficit = d
      /\ r.quantum = q.quantum
  BY Zenon DEF QueueInv, TrafficRuleQueue
<1>2. Occupied(r) = Occupied(q)
  BY Zenon, <1>1, SamePlaces
<1> HIDE DEF r
<1>3. QueueInv(r)
  BY Zenon, <1>1, <1>2 DEF QueueInv, Listed, Sorted
<1> QED
  BY <1>1, <1>3 DEF r

\* A new rule has empty queues.
LEMMA NewQueueInv ==
  ASSUME NEW quantum \in Nat
  PROVE  /\ QueueInv(NewQueue(quantum))
         /\ NewQueue(quantum).queues = [f \in Flows |-> <<>>]
         /\ NewQueue(quantum).size = 0
         /\ NewQueue(quantum).deficit = 0
<1> DEFINE q == NewQueue(quantum)
<1>1. q.queues = [f \in Flows |-> <<>>] /\ q.flow_list = <<>> /\ q.size = 0 /\ q.deficit = 0
  BY DEF NewQueue
<1>2. q.queues \in [Flows -> Seq(Packet)] /\ q.flow_list \in Seq(Flows)
  BY <1>1, EmptyFacts
<1>3. q \in TrafficRuleQueue
  BY <1>1, <1>2, QosAssumption DEF TrafficRuleQueue, NewQueue
<1> HIDE DEF q
<1>4. \A f \in Flows : q.queues[f] = <<>> /\ Len(q.queues[f]) = 0
  BY <1>1, EmptyFacts
<1>5. Occupied(q) = {}
  <2>1. ASSUME NEW x \in Occupied(q) PROVE FALSE
    <3>1. PICK g, k : x = <<g, k>>
      BY <1>3, OccupiedPlaces
    <3>2. g \in Flows /\ k \in 1..Len(q.queues[g])
      BY <1>3, <3>1, OccupiedPlaces
    <3> QED
      BY <3>2, <1>4
  <2> QED
    BY <2>1
<1>6. ExistsBijection(1..q.size, Occupied(q))
  BY <1>1, <1>5, CountNone
<1>7. Listed(q)
  BY <1>1, <1>4 DEF Listed, IsInjective
<1>8. Sorted(q)
  BY <1>4 DEF Sorted
<1> QED
  BY <1>1, <1>3, <1>6, <1>7, <1>8 DEF QueueInv, q

\* A packet younger than those of its flow goes to the end of its queue.
LEMMA EnqueueFacts ==
  ASSUME NEW q, QueueInv(q), NEW p \in Packet,
         \A k \in 1..Len(q.queues[p.flow]) : q.queues[p.flow][k].id < p.id
  PROVE  LET r == [enqueue(q, p) EXCEPT !.size = @ + 1] IN
         /\ enqueue(q, p) \in TrafficRuleQueue
         /\ QueueInv(r)
         /\ r.queues = [q.queues EXCEPT ![p.flow] = Append(@, p)]
         /\ r.size = q.size + 1
         /\ r.deficit = q.deficit
         /\ r.quantum = q.quantum
<1> DEFINE r == [enqueue(q, p) EXCEPT !.size = @ + 1]
           g == p.flow
           s == q.queues[g]
           l == q.flow_list
           m == IF Contains(l, g) THEN l ELSE Append(l, g)
<1>1. q \in TrafficRuleQueue /\ g \in Flows /\ p.id \in Nat
  BY DEF QueueInv, Packet
<1>2. s \in Seq(Packet) /\ l \in Seq(Flows) /\ q.size \in Nat
  BY <1>1 DEF TrafficRuleQueue
<1>3. /\ r.queues = [q.queues EXCEPT ![g] = Append(@, p)]
      /\ r.flow_list = m
      /\ r.size = q.size + 1
      /\ r.deficit = q.deficit
      /\ r.quantum = q.quantum
  BY <1>1 DEF TrafficRuleQueue, enqueue
<1>4. /\ Append(s, p) \in Seq(Packet)
      /\ Len(s) \in Nat
      /\ Len(Append(s, p)) = Len(s) + 1
      /\ \A i \in 1..Len(s) : Append(s, p)[i] = s[i]
      /\ Append(s, p)[Len(s) + 1] = p
  BY <1>2, AppendFacts, LenFacts
<1>5. m \in Seq(Flows)
  BY <1>1, <1>2, AppendFacts
<1>6. r \in TrafficRuleQueue
  <2>1. [q.queues EXCEPT ![g] = Append(@, p)] \in [Flows -> Seq(Packet)]
    BY <1>1, <1>4 DEF TrafficRuleQueue
  <2>2. q.size + 1 \in Nat
    BY <1>2
  <2> QED
    BY Zenon, <1>1, <1>3, <1>5, <2>1, <2>2 DEF TrafficRuleQueue, enqueue
<1>15. enqueue(q, p) \in TrafficRuleQueue
  <2>1. [q.queues EXCEPT ![g] = Append(@, p)] \in [Flows -> Seq(Packet)]
    BY <1>1, <1>4 DEF TrafficRuleQueue
  <2> QED
    BY Zenon, <1>1, <1>5, <2>1 DEF TrafficRuleQueue, enqueue
<1>7. \A h \in Flows : r.queues[h] = IF h = g THEN Append(s, p) ELSE q.queues[h]
  BY Zenon, <1>1, <1>3 DEF TrafficRuleQueue
<1>8. Contains(m, g) /\ \A h : Contains(l, h) => Contains(m, h)
  BY <1>1, <1>2, ContainsAppend
<1>9. IsInjective(m)
  <2>1. IsInjective(l)
    BY DEF QueueInv, Listed
  <2>2. CASE Contains(l, g)
    BY <2>1, <2>2
  <2>3. CASE ~ Contains(l, g)
    <3>1. /\ m = Append(l, g)
          /\ Len(l) \in Nat
          /\ Len(m) = Len(l) + 1
          /\ DOMAIN l = 1..Len(l)
          /\ DOMAIN m = 1..Len(m)
          /\ \A i \in 1..Len(l) : m[i] = l[i]
          /\ m[Len(l) + 1] = g
      BY <1>1, <1>2, <1>5, <2>3, AppendFacts, LenFacts
    <3>2. \A i \in 1..Len(l) : l[i] # g
      BY <2>3 DEF Contains
    <3> HIDE DEF m, l, g
    <3> QED
      BY <2>1, <3>1, <3>2 DEF IsInjective
  <2> QED
    BY <2>2, <2>3
<1> HIDE DEF r, m
<1>10. Occupied(r) = Occupied(q) \cup {<<g, Len(s) + 1>>}
  <2>1. ASSUME NEW h, NEW k
        PROVE  <<h, k>> \in Occupied(r)
                 <=> <<h, k>> \in Occupied(q) \/ (h = g /\ k = Len(s) + 1)
    <3>1. /\ <<h, k>> \in Occupied(r) <=> h \in Flows /\ k \in 1..Len(r.queues[h])
          /\ <<h, k>> \in Occupied(q) <=> h \in Flows /\ k \in 1..Len(q.queues[h])
      BY <1>1, <1>6, OccupiedPlaces
    <3>2. CASE h = g
      <4>1. Len(r.queues[g]) = Len(s) + 1 /\ g \in Flows
        BY Zenon, <1>1, <1>4, <1>7
      <4>2. k \in 1..(Len(s) + 1) <=> k \in 1..Len(s) \/ k = Len(s) + 1
        BY SMTT(30), <1>4
      <4> QED
        BY <3>1, <3>2, <4>1, <4>2
    <3>3. CASE h # g
      BY Zenon, <1>7, <3>1, <3>3
    <3> QED
      BY <3>2, <3>3
  <2>2. \A x \in Occupied(r) : \E h, k : x = <<h, k>>
    BY <1>6, OccupiedPlaces
  <2>3. \A x \in Occupied(q) : \E h, k : x = <<h, k>>
    BY <1>1, OccupiedPlaces
  <2> QED
    BY <2>1, <2>2, <2>3
<1>11. ExistsBijection(1..r.size, Occupied(r))
  <2>1. <<g, Len(s) + 1>> \notin Occupied(q)
    BY SMTT(30), <1>1, <1>4, OccupiedPlaces
  <2>2. ExistsBijection(1..q.size, Occupied(q))
    BY DEF QueueInv
  <2>3. ExistsBijection(1..(q.size + 1), Occupied(q) \cup {<<g, Len(s) + 1>>})
    BY Zenon, <1>2, <2>1, <2>2, CountMore
  <2> QED
    BY Zenon, <1>3, <1>10, <2>3
<1>12. Listed(r)
  BY Zenon, <1>1, <1>3, <1>7, <1>8, <1>9 DEF Listed, QueueInv
<1>13. Sorted(r)
  <2>1. SUFFICES ASSUME NEW h \in Flows, NEW k \in 1..Len(r.queues[h])
                 PROVE  /\ r.queues[h][k].flow = h
                        /\ \A j \in 1..Len(r.queues[h]) :
                             j < k => r.queues[h][j].id < r.queues[h][k].id
    BY Zenon DEF Sorted
  <2>2. CASE h = g
    <3>1. r.queues[h] = Append(s, p)
      BY Zenon, <2>2, <1>1, <1>7
    <3>2. \A i \in 1..Len(s) :
            /\ s[i].flow = g
            /\ s[i].id < p.id
            /\ \A j \in 1..Len(s) : j < i => s[j].id < s[i].id
      BY Zenon, <1>1 DEF QueueInv, Sorted
    <3> DEFINE t == Append(s, p)
    <3>3. /\ Len(t) = Len(s) + 1
          /\ \A i \in 1..Len(s) : t[i] = s[i]
          /\ t[Len(s) + 1] = p
      BY Zenon, <1>4
    <3> HIDE DEF t, s, g
    <3>4. k \in 1..Len(t) /\ r.queues[h] = t
      BY <3>1 DEF t, s
    <3>5. CASE k \in 1..Len(s)
      BY <1>4, <2>2, <3>2, <3>3, <3>4, <3>5
    <3>6. CASE k = Len(s) + 1
      <4>1. \A j \in 1..Len(t) : j < k => j \in 1..Len(s)
        BY <1>4, <3>3, <3>6
      <4>2. t[k] = p
        BY <3>3, <3>6
      <4>3. \A j \in 1..Len(t) : j < k => t[j].id < t[k].id
        BY Zenon, <3>2, <3>3, <4>1, <4>2
      <4> QED
        BY <2>2, <3>4, <4>2, <4>3 DEF g
    <3> QED
      BY <1>4, <3>3, <3>4, <3>5, <3>6
  <2>3. CASE h # g
    BY Zenon, <2>3, <1>7 DEF QueueInv, Sorted
  <2> QED
    BY Zenon, <2>2, <2>3
<1>14. QueueInv(r)
  BY <1>6, <1>11, <1>12, <1>13 DEF QueueInv
<1> QED
  BY Zenon, <1>3, <1>14, <1>15 DEF r

\* The inner list after a flow was served: the flows behind it, then itself.
LEMMA ServedList ==
  ASSUME NEW l \in Seq(Flows), NEW k \in 1..Len(l), IsInjective(l)
  PROVE  LET m == Append(SubSeq(l, k + 1, Len(l)), l[k]) IN
         /\ m \in Seq(Flows)
         /\ IsInjective(m)
         /\ \A j \in k..Len(l) : Contains(m, l[j])
<1> DEFINE b == SubSeq(l, k + 1, Len(l))
           m == Append(b, l[k])
<1>1. Len(l) \in Nat /\ DOMAIN l = 1..Len(l) /\ \A i \in 1..Len(l) : l[i] \in Flows
  BY LenFacts
<1>2. /\ b \in Seq(Flows)
      /\ Len(b) = Len(l) - k
      /\ \A i \in 1..(Len(l) - k) : b[i] = l[k + i]
  BY RestFacts
<1> HIDE DEF b
<1>3. /\ m \in Seq(Flows)
      /\ Len(m) = Len(b) + 1
      /\ \A i \in 1..Len(b) : m[i] = b[i]
      /\ m[Len(b) + 1] = l[k]
      /\ DOMAIN m = 1..Len(m)
  <2>1. b \in Seq(Flows) /\ l[k] \in Flows
    BY <1>1, <1>2
  <2> QED
    BY <2>1, AppendFacts, LenFacts
<1> HIDE DEF m
<1> DEFINE at(i) == IF i = Len(l) - k + 1 THEN k ELSE k + i
<1>4. \A i \in DOMAIN m : at(i) \in DOMAIN l /\ m[i] = l[at(i)]
  <2>1. SUFFICES ASSUME NEW i \in DOMAIN m
                 PROVE  at(i) \in DOMAIN l /\ m[i] = l[at(i)]
    OBVIOUS
  <2>2. i \in 1..(Len(l) - k + 1)
    BY <1>1, <1>2, <1>3
  <2>3. CASE i = Len(l) - k + 1
    BY <1>1, <1>2, <1>3, <2>3
  <2>4. CASE i # Len(l) - k + 1
    <3>1. i \in 1..(Len(l) - k) /\ i \in 1..Len(b) /\ k + i \in 1..Len(l)
      BY <1>1, <1>2, <2>2, <2>4
    <3> QED
      BY <1>1, <1>2, <1>3, <2>4, <3>1
  <2> QED
    BY <2>3, <2>4
<1>5. \A i, j \in DOMAIN m : at(i) = at(j) => i = j
  BY <1>1, <1>2, <1>3
<1>6. IsInjective(m)
  BY <1>4, <1>5 DEF IsInjective
<1>7. ASSUME NEW j \in k..Len(l) PROVE Contains(m, l[j])
  <2>1. CASE j = k
    <3>1. Len(b) + 1 \in 1..Len(m)
      BY <1>1, <1>2, <1>3
    <3> QED
      BY <1>3, <2>1, <3>1 DEF Contains
  <2>2. CASE j # k
    <3>1. /\ j - k \in 1..Len(m)
          /\ j - k \in 1..Len(b)
          /\ j - k \in 1..(Len(l) - k)
          /\ k + (j - k) = j
      BY <1>1, <1>2, <1>3, <2>2
    <3>2. m[j - k] = l[j]
      BY Zenon, <1>2, <1>3, <3>1
    <3> QED
      BY Zenon, <3>1, <3>2 DEF Contains
  <2> QED
    BY <2>1, <2>2
<1> QED
  BY <1>3, <1>6, <1>7 DEF m, b

\* dequeue finds nothing only when every queue is empty; otherwise it takes the
\* first packet of one flow.
LEMMA DequeueFacts ==
  ASSUME NEW q, QueueInv(q), NEW d \in dequeue(q)
  PROVE  /\ QueueInv(d.queue)
         /\ d.queue.deficit = q.deficit
         /\ d.queue.quantum = q.quantum
         /\ \/ /\ d.packet = NoPacket
               /\ q.size = 0
               /\ d.queue.queues = q.queues
               /\ d.queue.size = q.size
            \/ \E f \in Flows :
                 /\ d.packet \in Packet
                 /\ d.packet.flow = f
                 /\ q.queues[f] \in Seq(Packet)
                 /\ q.queues[f] # <<>>
                 /\ d.packet = Head(q.queues[f])
                 /\ d.queue.queues = [q.queues EXCEPT ![f] = Tail(@)]
                 /\ d.queue.size = q.size - 1
<1> DEFINE l == q.flow_list
<1>1. q \in TrafficRuleQueue /\ l \in Seq(Flows) /\ q.size \in Nat
  BY DEF QueueInv, TrafficRuleQueue
<1>2. CASE \A k \in 1..Len(l) : q.queues[l[k]] = <<>>
  <2>1. \A f \in Flows : q.queues[f] = <<>> /\ Len(q.queues[f]) = 0
    <3>1. \A f \in Flows : Contains(l, f) => q.queues[f] = <<>>
      BY <1>2 DEF Contains
    <3> QED
      BY <3>1, EmptyFacts DEF QueueInv, Listed
  <2> DEFINE r == [q EXCEPT !.flow_list = <<>>]
  <2>2. d.packet = NoPacket /\ d.queue = r
    BY <1>2 DEF dequeue
  <2>3. <<>> \in Seq(Flows)
    BY EmptyFacts
  <2>4. /\ r \in TrafficRuleQueue
        /\ r.flow_list = <<>>
        /\ r.queues = q.queues
        /\ r.size = q.size
        /\ r.deficit = q.deficit
        /\ r.quantum = q.quantum
    BY Zenon, <1>1, <2>3 DEF TrafficRuleQueue
  <2>5. Occupied(r) = Occupied(q)
    BY Zenon, <2>4, SamePlaces
  <2> HIDE DEF r
  <2>6. Listed(r)
    BY <2>1, <2>4 DEF Listed, IsInjective
  <2>7. QueueInv(r)
    BY Zenon, <2>4, <2>5, <2>6 DEF QueueInv, Sorted
  <2>8. q.size = 0
    <3>1. ASSUME NEW x \in Occupied(q) PROVE FALSE
      <4>1. PICK g, n : x = <<g, n>>
        BY <1>1, OccupiedPlaces
      <4>2. g \in Flows /\ n \in 1..Len(q.queues[g])
        BY <1>1, <4>1, OccupiedPlaces
      <4> QED
        BY <2>1, <4>2
    <3>2. Occupied(q) = {}
      BY <3>1
    <3> QED
      BY <1>1, <3>2, CountNone DEF QueueInv
  <2> QED
    BY <2>2, <2>4, <2>7, <2>8
<1>3. CASE ~ \A k \in 1..Len(l) : q.queues[l[k]] = <<>>
  <2>16. PICK k \in FirstBacklogged(q) : d = Served(q, k)
    BY <1>3 DEF dequeue
  <2> DEFINE f == l[k]
             s == q.queues[f]
             m == Append(SubSeq(l, k + 1, Len(l)), f)
             r == [q EXCEPT !.queues[f] = Tail(@), !.size = @ - 1,
                            !.flow_list = m]
  <2>1. /\ k \in 1..Len(l)
        /\ f \in Flows
        /\ s # <<>>
        /\ \A j \in 1..Len(l) : j < k => q.queues[l[j]] = <<>>
    <3>1. Len(l) \in Nat /\ \A j \in 1..Len(l) : l[j] \in Flows
      BY <1>1, LenFacts
    <3>2. /\ k \in 1..Len(l)
          /\ q.queues[l[k]] # <<>>
          /\ \A j \in 1..(k - 1) : q.queues[l[j]] = <<>>
      BY DEF FirstBacklogged
    <3>3. \A j \in 1..Len(l) : j < k => j \in 1..(k - 1)
      BY <3>1, <3>2
    <3> QED
      BY Zenon, <3>1, <3>2, <3>3
  <2>2. d.packet = Head(s) /\ d.queue = r
    BY <2>16 DEF Served
  <2>3. s \in Seq(Packet)
    BY Zenon, <1>1, <2>1 DEF TrafficRuleQueue
  <2>4. /\ Head(s) \in Packet
        /\ Head(s) = s[1]
        /\ Tail(s) \in Seq(Packet)
        /\ Len(s) \in Nat \ {0}
        /\ Len(Tail(s)) = Len(s) - 1
        /\ \A i \in 1..Len(Tail(s)) : Tail(s)[i] = s[i + 1]
    BY <2>1, <2>3, TailFacts, EmptyFacts
  <2>5. /\ m \in Seq(Flows)
        /\ IsInjective(m)
        /\ \A j \in k..Len(l) : Contains(m, l[j])
    BY Zenon, <1>1, <2>1, ServedList DEF QueueInv, Listed
  <2> HIDE DEF m
  <2>6. /\ r.flow_list = m
        /\ r.queues = [q.queues EXCEPT ![f] = Tail(@)]
        /\ r.size = q.size - 1
        /\ r.deficit = q.deficit
        /\ r.quantum = q.quantum
    BY <1>1 DEF TrafficRuleQueue
  <2>7. q.size \in Nat \ {0} /\ <<f, Len(s)>> \in Occupied(q)
    <3>1. <<f, Len(s)>> \in Occupied(q)
      BY <1>1, <2>1, <2>4, OccupiedPlaces
    <3> QED
      BY Zenon, <1>1, <3>1, CountLess DEF QueueInv
  <2>8. r \in TrafficRuleQueue
    <3>1. [q.queues EXCEPT ![f] = Tail(@)] \in [Flows -> Seq(Packet)]
      BY Zenon, <1>1, <2>4 DEF TrafficRuleQueue
    <3>2. q.size - 1 \in Nat
      BY <2>7
    <3> QED
      BY Zenon, <1>1, <2>5, <2>6, <3>1, <3>2 DEF TrafficRuleQueue
  <2>9. \A h \in Flows : r.queues[h] = IF h = f THEN Tail(s) ELSE q.queues[h]
    BY Zenon, <1>1, <2>1, <2>6 DEF TrafficRuleQueue
  <2> HIDE DEF r
  <2>10. Occupied(r) = Occupied(q) \ {<<f, Len(s)>>}
    <3>1. ASSUME NEW h, NEW n
          PROVE  <<h, n>> \in Occupied(r)
                   <=> <<h, n>> \in Occupied(q) /\ ~ (h = f /\ n = Len(s))
      <4>1. /\ <<h, n>> \in Occupied(r) <=> h \in Flows /\ n \in 1..Len(r.queues[h])
            /\ <<h, n>> \in Occupied(q) <=> h \in Flows /\ n \in 1..Len(q.queues[h])
        BY <1>1, <2>8, OccupiedPlaces
      <4>2. CASE h = f
        <5>1. r.queues[f] = Tail(s)
          BY Zenon, <2>1, <2>9
        <5>2. n \in 1..(Len(s) - 1) <=> n \in 1..Len(s) /\ n # Len(s)
          BY <2>4
        <5> QED
          BY Zenon, <2>1, <2>4, <4>1, <4>2, <5>1, <5>2
      <4>3. CASE h # f
        BY Zenon, <2>9, <4>1, <4>3
      <4> QED
        BY <4>2, <4>3
    <3>2. \A x \in Occupied(r) : \E h, n : x = <<h, n>>
      BY <2>8, OccupiedPlaces
    <3>3. \A x \in Occupied(q) : \E h, n : x = <<h, n>>
      BY <1>1, OccupiedPlaces
    <3> QED
      BY <3>1, <3>2, <3>3
  <2>11. ExistsBijection(1..r.size, Occupied(r))
    <3>1. ExistsBijection(1..(q.size - 1), Occupied(q) \ {<<f, Len(s)>>})
      BY Zenon, <1>1, <2>7, CountLess DEF QueueInv
    <3> QED
      BY Zenon, <2>6, <2>10, <3>1
  <2>12. Listed(r)
    <3>1. SUFFICES ASSUME NEW h \in Flows, r.queues[h] # <<>>
                   PROVE  Contains(m, h)
      BY Zenon, <2>5, <2>6 DEF Listed
    <3>2. CASE h = f
      <4>1. k \in k..Len(l)
        BY <2>1
      <4> QED
        BY <2>5, <3>2, <4>1
    <3>3. CASE h # f
      <4>1. q.queues[h] # <<>> /\ Contains(l, h)
        BY <2>9, <3>1, <3>3 DEF QueueInv, Listed
      <4>2. PICK j \in 1..Len(l) : l[j] = h
        BY <4>1 DEF Contains
      <4>3. ~ (j < k)
        BY <2>1, <4>1, <4>2
      <4>4. j \in k..Len(l)
        BY <2>1, <4>3
      <4> QED
        BY <2>5, <4>2, <4>4
    <3> QED
      BY <3>2, <3>3
  <2>13. Sorted(r)
    <3>1. SUFFICES ASSUME NEW h \in Flows, NEW n \in 1..Len(r.queues[h])
                   PROVE  /\ r.queues[h][n].flow = h
                          /\ \A j \in 1..Len(r.queues[h]) :
                               j < n => r.queues[h][j].id < r.queues[h][n].id
      BY Zenon DEF Sorted
    <3>2. CASE h = f
      <4> DEFINE t == Tail(s)
      <4>1. r.queues[h] = t /\ n \in 1..Len(t)
        BY Zenon, <2>1, <2>9, <3>2
      <4>2. \A i \in 1..Len(s) :
              /\ s[i].flow = f
              /\ \A j \in 1..Len(s) : j < i => s[j].id < s[i].id
        BY Zenon, <2>1 DEF QueueInv, Sorted
      <4>3. \A i \in 1..Len(t) : i + 1 \in 1..Len(s) /\ t[i] = s[i + 1]
        BY <2>4
      <4>4. \A i, j \in 1..Len(t) : i < j => i + 1 < j + 1
        BY <2>4
      <4> HIDE DEF t, s, f
      <4> QED
        BY ZenonT(30), <3>2, <4>1, <4>2, <4>3, <4>4
    <3>3. CASE h # f
      BY Zenon, <2>9, <3>3 DEF QueueInv, Sorted
    <3> QED
      BY Zenon, <3>2, <3>3
  <2>14. QueueInv(r)
    BY <2>8, <2>11, <2>12, <2>13 DEF QueueInv
  <2>15. Head(s).flow = f
    <3>1. 1 \in 1..Len(s)
      BY <2>4
    <3> QED
      BY ZenonT(30), <2>1, <2>4, <3>1 DEF QueueInv, Sorted
  <2> QED
    BY Zenon, <2>1, <2>2, <2>3, <2>4, <2>6, <2>14, <2>15
<1> QED
  BY Zenon, <1>2, <1>3

-----------------------------------------------------------------------------
(***************************************************************************)
(* Lemmas about the whereabouts of packets.                                *)
(***************************************************************************)

SentPacket == [packet: Packet, rule: TrafficRule]

HeadTable == [TrafficRule -> Packet \cup {NoPacket}]

\* From rules R to R2 the queues keep their packets, packet i joins those of
\* (tr, f), or p, the oldest of its flow, leaves those of tr.
SameQueued(R, R2) ==
  \A i : \A t \in TrafficRule : \A g \in Flows :
    Queued(R2, i, t, g) <=> Queued(R, i, t, g)

MoreQueued(R, R2, i, tr, f) ==
  \A j : \A t \in TrafficRule : \A g \in Flows :
    Queued(R2, j, t, g) <=> Queued(R, j, t, g) \/ (j = i /\ t = tr /\ g = f)

LessQueued(R, R2, p, tr) ==
  /\ Queued(R, p.id, tr, p.flow)
  /\ \A j : \A t \in TrafficRule : \A g \in Flows :
       Queued(R2, j, t, g)
         <=> Queued(R, j, t, g) /\ ~ (j = p.id /\ t = tr /\ g = p.flow)
  /\ \A j : Queued(R2, j, tr, p.flow) => p.id < j

\* The numbers in a queue after a packet was appended.
LEMMA HasIdAppend ==
  ASSUME NEW s \in Seq(Packet), NEW p \in Packet, NEW i
  PROVE  HasId(Append(s, p), i) <=> HasId(s, i) \/ i = p.id
<1> DEFINE t == Append(s, p)
<1>1. /\ Len(s) \in Nat
      /\ Len(t) = Len(s) + 1
      /\ \A k \in 1..Len(s) : t[k] = s[k]
      /\ t[Len(s) + 1] = p
  BY AppendFacts, LenFacts
<1> HIDE DEF t
<1>2. \A k \in 1..Len(t) : k \in 1..Len(s) \/ k = Len(s) + 1
  BY <1>1
<1>3. Len(s) + 1 \in 1..Len(t) /\ \A k \in 1..Len(s) : k \in 1..Len(t)
  BY <1>1
<1>4. HasId(t, i) => HasId(s, i) \/ i = p.id
  BY <1>1, <1>2 DEF HasId
<1>5. HasId(s, i) => HasId(t, i)
  BY <1>1, <1>3 DEF HasId
<1>6. i = p.id => HasId(t, i)
  BY <1>1, <1>3 DEF HasId
<1> QED
  BY <1>4, <1>5, <1>6 DEF t

\* The head of a sorted queue is the oldest, and its tail has the others.
LEMMA HasIdTail ==
  ASSUME NEW s \in Seq(Packet), s # <<>>,
         \A j, k \in 1..Len(s) : j < k => s[j].id < s[k].id
  PROVE  /\ HasId(s, Head(s).id)
         /\ \A i : HasId(Tail(s), i) <=> HasId(s, i) /\ i # Head(s).id
         /\ \A i : HasId(Tail(s), i) => Head(s).id < i
<1> DEFINE t == Tail(s)
           h == Head(s)
<1>1. /\ Len(s) \in Nat \ {0}
      /\ h = s[1]
      /\ Len(t) = Len(s) - 1
      /\ \A k \in 1..Len(t) : t[k] = s[k + 1]
  BY TailFacts, EmptyFacts
<1>2. \A k \in 1..Len(s) : s[k] \in Packet /\ s[k].id \in Nat
  <2>1. \A k \in 1..Len(s) : s[k] \in Packet
    BY LenFacts
  <2> QED
    BY <2>1 DEF Packet
<1> HIDE DEF t, h
<1>3. 1 \in 1..Len(s) /\ HasId(s, h.id)
  BY <1>1 DEF HasId
<1>4. \A k \in 1..Len(s) : 1 < k => h.id < s[k].id
  BY <1>1, <1>3
<1>5. \A k \in 1..Len(t) : k + 1 \in 1..Len(s) /\ 1 < k + 1
  BY <1>1
<1>6. \A k \in 1..Len(s) : k # 1 => k - 1 \in 1..Len(t) /\ (k - 1) + 1 = k
  BY <1>1
<1>7. ASSUME NEW i, HasId(t, i) PROVE HasId(s, i) /\ h.id < i
  BY Zenon, <1>1, <1>4, <1>5, <1>7 DEF HasId
<1>8. ASSUME NEW i, HasId(s, i), i # h.id PROVE HasId(t, i)
  <2>1. PICK k \in 1..Len(s) : s[k].id = i
    BY <1>8 DEF HasId
  <2>2. k # 1
    BY <1>1, <1>8, <2>1
  <2>3. k - 1 \in 1..Len(t) /\ t[k - 1].id = i
    BY Zenon, <1>1, <1>6, <2>1, <2>2
  <2> QED
    BY <2>3 DEF HasId
<1>9. \A i : h.id < i => i # h.id
  <2>1. h.id \in Nat
    BY <1>1, <1>2, <1>3
  <2> QED
    BY <2>1
<1> QED
  BY <1>3, <1>7, <1>8, <1>9 DEF t, h

\* The sent packets after one more.
LEMMA SentMore ==
  ASSUME NEW S \in Seq(SentPacket), NEW e \in SentPacket
  PROVE  /\ Append(S, e) \in Seq(SentPacket)
         /\ Len(S) \in Nat
         /\ Len(Append(S, e)) = Len(S) + 1
         /\ \A n \in 1..Len(S) : Append(S, e)[n] = S[n]
         /\ Append(S, e)[Len(S) + 1] = e
         /\ \A n \in 1..(Len(S) + 1) : n \in 1..Len(S) \/ n = Len(S) + 1
         /\ \A i : Left(Append(S, e), i) <=> Left(S, i) \/ i = e.packet.id
<1> DEFINE T == Append(S, e)
<1>1. /\ T \in Seq(SentPacket)
      /\ Len(S) \in Nat
      /\ Len(T) = Len(S) + 1
      /\ \A n \in 1..Len(S) : T[n] = S[n]
      /\ T[Len(S) + 1] = e
  BY AppendFacts, LenFacts
<1> HIDE DEF T
<1>2. \A n \in 1..(Len(S) + 1) : n \in 1..Len(S) \/ n = Len(S) + 1
  BY <1>1
<1>3. Len(S) + 1 \in 1..Len(T) /\ \A n \in 1..Len(S) : n \in 1..Len(T)
  BY <1>1
<1>4. ASSUME NEW i PROVE Left(T, i) <=> Left(S, i) \/ i = e.packet.id
  <2>1. Left(T, i) => Left(S, i) \/ i = e.packet.id
    BY <1>1, <1>2 DEF Left
  <2>2. Left(S, i) => Left(T, i)
    BY <1>1, <1>3 DEF Left
  <2>3. i = e.packet.id => Left(T, i)
    BY <1>1, <1>3 DEF Left
  <2> QED
    BY <2>1, <2>2, <2>3
<1> QED
  BY <1>1, <1>2, <1>4 DEF T

\* The rules and flows of packets sent or held are known.
LEMMA SentTypes ==
  ASSUME NEW S \in Seq(SentPacket)
  PROVE  \A m \in 1..Len(S) : /\ S[m].rule \in TrafficRule
                              /\ S[m].packet.flow \in Flows
                              /\ S[m].packet.id \in Ids
<1>1. \A m \in 1..Len(S) : S[m] \in SentPacket
  BY LenFacts
<1> QED
  BY <1>1 DEF SentPacket, Packet, Ids

LEMMA HeldTypes ==
  ASSUME NEW H \in HeadTable
  PROVE  \A t \in TrafficRule :
           H[t] # NoPacket => H[t].flow \in Flows /\ H[t].id \in Ids
BY DEF HeadTable, Packet, Ids

\* A packet is in one place at most exactly when every part of that holds.
LEMMA OnceParts ==
  ASSUME NEW R, NEW H, NEW S, NEW D
  PROVE  Once(R, H, S, D) <=>
           /\ QueuedOnce(R)
           /\ HeldOnce(H)
           /\ SentOnce(S)
           /\ QueuedNotHeld(R, H)
           /\ QueuedNotGone(R, S, D)
           /\ HeldNotGone(H, S, D)
           /\ SentNotDropped(S, D)
BY ZenonT(30) DEF Once, QueuedOnce, HeldOnce, SentOnce, QueuedNotHeld,
                  QueuedNotGone, HeldNotGone, SentNotDropped

\* A packet that arrives is refused, or queued behind all others.
LEMMA ArrivalRefused ==
  ASSUME NEW R, NEW H, NEW S, NEW D, NEW n \in Nat, n + 1 \in Ids,
         Placed(R, H, S, D, n, TRUE)
  PROVE  Placed(R, H, S, D \cup {n + 1}, n + 1, TRUE)
<1>1. ~ Seen(R, H, S, D, n + 1)
  BY DEF Placed, Accounted
<1>2. \A i : Seen(R, H, S, D \cup {n + 1}, i) <=> Seen(R, H, S, D, i) \/ i = n + 1
  BY DEF Seen
<1>3. Accounted(R, H, S, D \cup {n + 1}, n + 1, TRUE)
  BY <1>2 DEF Placed, Accounted, Ids
<1>4. Once(R, H, S, D \cup {n + 1})
  <2>1. /\ QueuedOnce(R)
        /\ HeldOnce(H)
        /\ SentOnce(S)
        /\ QueuedNotHeld(R, H)
        /\ QueuedNotGone(R, S, D)
        /\ HeldNotGone(H, S, D)
        /\ SentNotDropped(S, D)
    BY Zenon, OnceParts DEF Placed
  <2>2. QueuedNotGone(R, S, D \cup {n + 1})
    BY Zenon, <1>1, <2>1 DEF Seen, QueuedNotGone
  <2>3. HeldNotGone(H, S, D \cup {n + 1})
    BY Zenon, <1>1, <2>1 DEF Seen, HeldNotGone
  <2>4. SentNotDropped(S, D \cup {n + 1})
    BY Zenon, <1>1, <2>1 DEF Seen, SentNotDropped
  <2> QED
    BY Zenon, <2>1, <2>2, <2>3, <2>4, OnceParts
<1> QED
  BY Zenon, <1>3, <1>4 DEF Placed

LEMMA ArrivalQueued ==
  ASSUME NEW R, NEW H \in HeadTable,
         NEW S \in Seq(SentPacket), NEW D,
         NEW n \in Nat, n + 1 \in Ids,
         NEW R2, NEW tr \in TrafficRule, NEW f \in Flows,
         MoreQueued(R, R2, n + 1, tr, f),
         Placed(R, H, S, D, n, TRUE)
  PROVE  Placed(R2, H, S, D, n + 1, TRUE)
<1> USE DEF MoreQueued
<1>1. ~ Seen(R, H, S, D, n + 1)
  BY DEF Placed, Accounted
<1>2. \A i : Seen(R2, H, S, D, i) <=> Seen(R, H, S, D, i) \/ i = n + 1
  BY DEF Seen
<1>3. Accounted(R2, H, S, D, n + 1, TRUE)
  BY <1>2 DEF Placed, Accounted, Ids
<1>4. Once(R2, H, S, D)
  <2>1. /\ QueuedOnce(R)
        /\ HeldOnce(H)
        /\ SentOnce(S)
        /\ QueuedNotHeld(R, H)
        /\ QueuedNotGone(R, S, D)
        /\ HeldNotGone(H, S, D)
        /\ SentNotDropped(S, D)
    BY Zenon, OnceParts DEF Placed
  <2>2. QueuedOnce(R2)
    BY SMTT(30), <1>1, <2>1 DEF Seen, QueuedOnce
  <2>3. QueuedNotHeld(R2, H)
    BY Zenon, <1>1, <2>1 DEF Seen, QueuedNotHeld
  <2>4. QueuedNotGone(R2, S, D)
    BY Zenon, <1>1, <2>1 DEF Seen, QueuedNotGone
  <2> QED
    BY Zenon, <2>1, <2>2, <2>3, <2>4, OnceParts
<1>5. ASSUME NEW t \in TrafficRule, H[t] # NoPacket
      PROVE  H[t].id \in Ids /\ H[t].id <= n
  <2>1. H[t].id \in Ids /\ Held(H, H[t].id, t)
    BY <1>5 DEF Packet, Ids, Held, HeadTable
  <2> QED
    BY Zenon, <2>1 DEF Placed, Accounted, Seen
<1>6. ASSUME NEW m \in 1..Len(S)
      PROVE  S[m].packet.id \in Ids /\ S[m].packet.id <= n
  <2>1. S[m] \in SentPacket
    BY LenFacts
  <2>2. S[m].packet.id \in Ids /\ Left(S, S[m].packet.id)
    BY ZenonT(30), <2>1 DEF SentPacket, Packet, Ids, Left
  <2> QED
    BY Zenon, <2>2 DEF Placed, Accounted, Seen
<1>7. Ordered(R2, H, S)
  BY <1>5, <1>6, HeldTypes, SentTypes DEF Placed, Ordered, Ids
<1> QED
  BY Zenon, <1>3, <1>4, <1>7 DEF Placed

\* A packet taken out of its queue is lost, sent or held.
LEMMA TakenLost ==
  ASSUME NEW R, NEW H \in HeadTable,
         NEW S \in Seq(SentPacket), NEW D, NEW n, NEW R2,
         NEW tr \in TrafficRule, NEW p \in Packet,
         LessQueued(R, R2, p, tr),
         Placed(R, H, S, D, n, TRUE)
  PROVE  Placed(R2, H, S, D \cup {p.id}, n, TRUE)
<1> USE DEF LessQueued
<1> DEFINE D2 == D \cup {p.id}
<1>1. p.id \in Ids /\ p.flow \in Flows
  BY DEF Packet, Ids
<1>2. ASSUME NEW i \in Ids
      PROVE  Seen(R2, H, S, D2, i) <=> Seen(R, H, S, D, i)
  <2>1. CASE i = p.id
    BY <1>1, <2>1 DEF Seen
  <2>2. CASE i # p.id
    BY <2>2 DEF Seen
  <2> QED
    BY Zenon, <2>1, <2>2
<1>3. Accounted(R2, H, S, D2, n, TRUE)
  BY Zenon, <1>2 DEF Placed, Accounted
<1>4. Once(R2, H, S, D2)
  <2>1. /\ QueuedOnce(R)
        /\ HeldOnce(H)
        /\ SentOnce(S)
        /\ QueuedNotHeld(R, H)
        /\ QueuedNotGone(R, S, D)
        /\ HeldNotGone(H, S, D)
        /\ SentNotDropped(S, D)
    BY Zenon, OnceParts DEF Placed
  <2>2. QueuedOnce(R2)
    BY <2>1 DEF QueuedOnce
  <2>3. QueuedNotHeld(R2, H)
    BY Zenon, <2>1 DEF QueuedNotHeld
  <2>4. QueuedNotGone(R2, S, D2)
    BY SMTT(30), <1>1, <2>1 DEF QueuedOnce, QueuedNotGone
  <2>5. HeldNotGone(H, S, D2)
    BY ZenonT(30), <1>1, <2>1 DEF QueuedNotHeld, HeldNotGone
  <2>6. SentNotDropped(S, D2)
    BY Zenon, <1>1, <2>1 DEF QueuedNotGone, SentNotDropped
  <2> QED
    BY Zenon, <2>1, <2>2, <2>3, <2>4, <2>5, <2>6, OnceParts
<1>5. Ordered(R2, H, S)
  BY Zenon, HeldTypes, SentTypes DEF Placed, Ordered
<1> QED
  BY Zenon, <1>3, <1>4, <1>5 DEF Placed

LEMMA TakenSent ==
  ASSUME NEW R, NEW H \in HeadTable,
         NEW S \in Seq(SentPacket), NEW D, NEW n, NEW R2,
         NEW tr \in TrafficRule, NEW p \in Packet,
         H[tr] = NoPacket,
         LessQueued(R, R2, p, tr),
         Placed(R, H, S, D, n, TRUE)
  PROVE  Placed(R2, H, Append(S, [packet |-> p, rule |-> tr]), D, n, TRUE)
<1> USE DEF LessQueued
<1> DEFINE e == [packet |-> p, rule |-> tr]
           T == Append(S, e)
<1>1. p.id \in Ids /\ p.flow \in Flows /\ e \in SentPacket
      /\ e.packet = p /\ e.rule = tr
  BY SMTT(30) DEF Packet, Ids, SentPacket
<1>2. /\ Len(S) \in Nat
      /\ Len(T) = Len(S) + 1
      /\ \A m \in 1..Len(S) : T[m] = S[m]
      /\ T[Len(S) + 1] = e
      /\ \A m \in 1..Len(T) : m \in 1..Len(S) \/ m = Len(S) + 1
      /\ \A i : Left(T, i) <=> Left(S, i) \/ i = p.id
  BY SMTT(30), <1>1, SentMore
<1>3. \A m, l \in 1..Len(T) : m < l => m \in 1..Len(S)
  BY <1>2
<1> HIDE DEF e, T
<1>4. ASSUME NEW i \in Ids
      PROVE  Seen(R2, H, T, D, i) <=> Seen(R, H, S, D, i)
  <2>1. CASE i = p.id
    BY Zenon, <1>1, <1>2, <2>1 DEF Seen
  <2>2. CASE i # p.id
    BY <1>2, <2>2 DEF Seen
  <2> QED
    BY <2>1, <2>2
<1>5. Accounted(R2, H, T, D, n, TRUE)
  BY Zenon, <1>4 DEF Placed, Accounted
<1>6. ~ Left(S, p.id)
  BY Zenon, <1>1 DEF Placed, Once
<1>7. Once(R2, H, T, D)
  <2>1. /\ QueuedOnce(R)
        /\ HeldOnce(H)
        /\ SentOnce(S)
        /\ QueuedNotHeld(R, H)
        /\ QueuedNotGone(R, S, D)
        /\ HeldNotGone(H, S, D)
        /\ SentNotDropped(S, D)
    BY Zenon, OnceParts DEF Placed
  <2>2. ASSUME NEW i \in Ids, NEW l \in 1..Len(T), NEW m \in 1..Len(T),
               T[l].packet.id = i, T[m].packet.id = i
        PROVE  l = m
    <3>1. CASE l \in 1..Len(S) /\ m \in 1..Len(S)
      BY Zenon, <1>2, <2>1, <2>2, <3>1 DEF SentOnce
    <3>2. CASE l = Len(S) + 1 \/ m = Len(S) + 1
      BY ZenonT(30), <1>1, <1>2, <1>6, <2>2, <3>2 DEF Left
    <3> QED
      BY <1>2, <3>1, <3>2
  <2>3. SentOnce(T)
    BY Zenon, <2>2 DEF SentOnce
  <2>4. QueuedOnce(R2)
    BY <2>1 DEF QueuedOnce
  <2>5. QueuedNotHeld(R2, H)
    BY ZenonT(30), <2>1 DEF QueuedNotHeld
  <2>6. QueuedNotGone(R2, T, D)
    BY SMTT(30), <1>1, <1>2, <2>1 DEF QueuedOnce, QueuedNotGone
  <2>7. HeldNotGone(H, T, D)
    BY SMTT(30), <1>1, <1>2, <2>1 DEF QueuedNotHeld, HeldNotGone
  <2>8. SentNotDropped(T, D)
    BY SMTT(30), <1>1, <1>2, <2>1 DEF QueuedNotGone, SentNotDropped
  <2> QED
    BY Zenon, <2>1, <2>3, <2>4, <2>5, <2>6, <2>7, <2>8, OnceParts
<1>8. Ordered(R2, H, T)
  <2>1. \A t \in TrafficRule : \A i \in Ids :
          H[t] # NoPacket /\ Queued(R2, i, t, H[t].flow) => H[t].id < i
    BY ZenonT(30), HeldTypes, SentTypes DEF Placed, Ordered
  <2>2. \A m \in 1..Len(T) : \A i \in Ids :
          Queued(R2, i, T[m].rule, T[m].packet.flow) => T[m].packet.id < i
    BY <1>1, <1>2, HeldTypes, SentTypes DEF Placed, Ordered
  <2>3. \A m \in 1..Len(T) :
          /\ H[T[m].rule] # NoPacket
          /\ H[T[m].rule].flow = T[m].packet.flow
          => T[m].packet.id < H[T[m].rule].id
    BY ZenonT(30), <1>1, <1>2 DEF Placed, Ordered
  <2>4. \A m, l \in 1..Len(T) :
          m < l /\ T[m].rule = T[l].rule /\ T[m].packet.flow = T[l].packet.flow
            => T[m].packet.id < T[l].packet.id
    BY <1>1, <1>2, <1>3 DEF Placed, Ordered
  <2> QED
    BY Zenon, <2>1, <2>2, <2>3, <2>4 DEF Ordered
<1> QED
  BY Zenon, <1>5, <1>7, <1>8 DEF Placed, T, e

LEMMA TakenHeld ==
  ASSUME NEW R, NEW H \in HeadTable,
         NEW S \in Seq(SentPacket), NEW D, NEW n, NEW R2,
         NEW tr \in TrafficRule, NEW p \in Packet,
         H[tr] = NoPacket,
         LessQueued(R, R2, p, tr),
         Placed(R, H, S, D, n, TRUE)
  PROVE  Placed(R2, [H EXCEPT ![tr] = p], S, D, n, TRUE)
<1> USE DEF LessQueued
<1> DEFINE G == [H EXCEPT ![tr] = p]
<1>1. p.id \in Ids /\ p.flow \in Flows /\ p # NoPacket
  BY Zenon, MarkAssumption DEF Packet, Ids
<1>2. \A t \in TrafficRule : G[t] = IF t = tr THEN p ELSE H[t]
  BY DEF HeadTable
<1> HIDE DEF G
<1>3. \A i : \A t \in TrafficRule :
        Held(G, i, t) <=> Held(H, i, t) \/ (i = p.id /\ t = tr)
  BY Zenon, <1>1, <1>2 DEF Held
<1>4. ASSUME NEW i \in Ids
      PROVE  Seen(R2, G, S, D, i) <=> Seen(R, H, S, D, i)
  <2>1. CASE i = p.id
    BY Zenon, <1>1, <1>3, <2>1 DEF Seen
  <2>2. CASE i # p.id
    BY <1>3, <2>2 DEF Seen
  <2> QED
    BY Zenon, <2>1, <2>2
<1>5. Accounted(R2, G, S, D, n, TRUE)
  BY <1>4 DEF Placed, Accounted
<1>6. Once(R2, G, S, D)
  <2>1. /\ QueuedOnce(R)
        /\ HeldOnce(H)
        /\ SentOnce(S)
        /\ QueuedNotHeld(R, H)
        /\ QueuedNotGone(R, S, D)
        /\ HeldNotGone(H, S, D)
        /\ SentNotDropped(S, D)
    BY Zenon, OnceParts DEF Placed
  <2>2. QueuedOnce(R2)
    BY <2>1 DEF QueuedOnce
  <2>3. HeldOnce(G)
    BY SMTT(30), <1>1, <1>3, <2>1 DEF HeldOnce, QueuedNotHeld
  <2>4. QueuedNotHeld(R2, G)
    BY <1>1, <1>3, <2>1 DEF QueuedOnce, QueuedNotHeld
  <2>5. QueuedNotGone(R2, S, D)
    BY ZenonT(30), <2>1 DEF QueuedNotGone
  <2>6. HeldNotGone(G, S, D)
    BY SMTT(30), <1>1, <1>3, <2>1 DEF QueuedNotGone, HeldNotGone
  <2> QED
    BY ZenonT(30), <2>1, <2>2, <2>3, <2>4, <2>5, <2>6, OnceParts
<1>7. Ordered(R2, G, S)
  <2>1. \A m \in 1..Len(S) : S[m].rule \in TrafficRule
    <3>1. \A m \in 1..Len(S) : S[m] \in SentPacket
      BY LenFacts
    <3> QED
      BY Zenon, <3>1 DEF SentPacket
  <2>2. \A t \in TrafficRule : \A i \in Ids :
          G[t] # NoPacket /\ Queued(R2, i, t, G[t].flow) => G[t].id < i
    <3> SUFFICES ASSUME NEW t \in TrafficRule, NEW i \in Ids,
                        G[t] # NoPacket, Queued(R2, i, t, G[t].flow)
                 PROVE  G[t].id < i
      OBVIOUS
    <3>1. CASE t = tr
      BY Zenon, <1>2, <3>1
    <3>2. CASE t # tr
      BY ZenonT(30), <1>2, <3>2, HeldTypes DEF Placed, Ordered
    <3> QED
      BY <3>1, <3>2
  <2>3. \A m \in 1..Len(S) :
          /\ G[S[m].rule] # NoPacket
          /\ G[S[m].rule].flow = S[m].packet.flow
          => S[m].packet.id < G[S[m].rule].id
    <3> SUFFICES ASSUME NEW m \in 1..Len(S), G[S[m].rule] # NoPacket,
                        G[S[m].rule].flow = S[m].packet.flow
                 PROVE  S[m].packet.id < G[S[m].rule].id
      OBVIOUS
    <3>1. CASE S[m].rule = tr
      BY ZenonT(30), <1>1, <1>2, <3>1 DEF Placed, Ordered
    <3>2. CASE S[m].rule # tr
      BY Zenon, <1>2, <2>1, <3>2 DEF Placed, Ordered
    <3> QED
      BY SMTT(30), <3>1, <3>2
  <2> QED
    BY ZenonT(30), <2>2, <2>3, HeldTypes, SentTypes DEF Placed, Ordered
<1> QED
  BY Zenon, <1>5, <1>6, <1>7 DEF Placed, G

\* A packet that was held is sent, or forgotten when its rule is new.
LEMMA HeldSent ==
  ASSUME NEW R, NEW H \in HeadTable,
         NEW S \in Seq(SentPacket), NEW D, NEW n, NEW R2,
         NEW tr \in TrafficRule, H[tr] # NoPacket,
         SameQueued(R, R2),
         Placed(R, H, S, D, n, TRUE)
  PROVE  Placed(R2, [H EXCEPT ![tr] = NoPacket],
                Append(S, [packet |-> H[tr], rule |-> tr]), D, n, TRUE)
<1> USE DEF SameQueued
<1> DEFINE p == H[tr]
           G == [H EXCEPT ![tr] = NoPacket]
           e == [packet |-> p, rule |-> tr]
           T == Append(S, e)
<1>1. p \in Packet /\ p.id \in Ids /\ p.flow \in Flows /\ Held(H, p.id, tr)
  BY DEF Packet, Ids, Held, HeadTable
<1>2. e \in SentPacket /\ e.packet = p /\ e.rule = tr
  BY ZenonT(30), <1>1 DEF SentPacket
<1>3. /\ Len(S) \in Nat
      /\ Len(T) = Len(S) + 1
      /\ \A m \in 1..Len(S) : T[m] = S[m]
      /\ T[Len(S) + 1] = e
      /\ \A m \in 1..Len(T) : m \in 1..Len(S) \/ m = Len(S) + 1
      /\ \A i : Left(T, i) <=> Left(S, i) \/ i = p.id
  BY SMTT(30), <1>2, SentMore
<1>4. \A m, l \in 1..Len(T) : m < l => m \in 1..Len(S)
  BY <1>3
<1>5. \A t \in TrafficRule : G[t] = IF t = tr THEN NoPacket ELSE H[t]
  BY DEF HeadTable
<1>6. \A m \in 1..Len(S) : S[m].rule \in TrafficRule
  <2>1. \A m \in 1..Len(S) : S[m] \in SentPacket
    BY LenFacts
  <2> QED
    BY Zenon, <2>1 DEF SentPacket
<1> HIDE DEF e, T, G
<1>7. \A i : \A t \in TrafficRule :
        Held(G, i, t) <=> Held(H, i, t) /\ ~ (i = p.id /\ t = tr)
  BY Zenon, <1>1, <1>5 DEF Held
<1> HIDE DEF p
<1>8. ASSUME NEW i \in Ids
      PROVE  Seen(R2, G, T, D, i) <=> Seen(R, H, S, D, i)
  <2>1. CASE i = p.id
    BY Zenon, <1>1, <1>3, <2>1 DEF Seen
  <2>2. CASE i # p.id
    BY Zenon, <1>3, <1>7, <2>2 DEF Seen
  <2> QED
    BY Zenon, <2>1, <2>2
<1>9. Accounted(R2, G, T, D, n, TRUE)
  BY Zenon, <1>8 DEF Placed, Accounted
<1>10. ~ Left(S, p.id)
  BY Zenon, <1>1 DEF Placed, Once
<1>11. Once(R2, G, T, D)
  <2>1. /\ QueuedOnce(R)
        /\ HeldOnce(H)
        /\ SentOnce(S)
        /\ QueuedNotHeld(R, H)
        /\ QueuedNotGone(R, S, D)
        /\ HeldNotGone(H, S, D)
        /\ SentNotDropped(S, D)
    BY Zenon, OnceParts DEF Placed
  <2>2. ASSUME NEW i \in Ids, NEW l \in 1..Len(T), NEW m \in 1..Len(T),
               T[l].packet.id = i, T[m].packet.id = i
        PROVE  l = m
    <3>1. CASE l \in 1..Len(S) /\ m \in 1..Len(S)
      BY Zenon, <1>3, <2>1, <2>2, <3>1 DEF SentOnce
    <3>2. CASE l = Len(S) + 1 \/ m = Len(S) + 1
      BY ZenonT(30), <1>2, <1>3, <1>10, <2>2, <3>2 DEF Left
    <3> QED
      BY Zenon, <1>3, <3>1, <3>2
  <2>3. SentOnce(T)
    BY Zenon, <2>2 DEF SentOnce
  <2>4. QueuedOnce(R2)
    BY <2>1 DEF QueuedOnce
  <2>5. HeldOnce(G)
    BY Zenon, <1>7, <2>1 DEF HeldOnce
  <2>6. QueuedNotHeld(R2, G)
    BY Zenon, <1>7, <2>1 DEF QueuedNotHeld
  <2>7. QueuedNotGone(R2, T, D)
    BY <1>1, <1>3, <2>1 DEF QueuedNotGone, QueuedNotHeld
  <2>8. HeldNotGone(G, T, D)
    BY SMTT(30), <1>1, <1>3, <1>7, <2>1 DEF HeldOnce, HeldNotGone
  <2>9. SentNotDropped(T, D)
    BY Zenon, <1>1, <1>3, <2>1 DEF HeldNotGone, SentNotDropped
  <2> QED
    BY Zenon, <2>1, <2>3, <2>4, <2>5, <2>6, <2>7, <2>8, <2>9, OnceParts
<1>12. Ordered(R2, G, T)
  <2>1. \A t \in TrafficRule : \A i \in Ids :
          G[t] # NoPacket /\ Queued(R2, i, t, G[t].flow) => G[t].id < i
    BY ZenonT(30), <1>5, HeldTypes, SentTypes DEF Placed, Ordered
  <2>2. \A m \in 1..Len(T) : \A i \in Ids :
          Queued(R2, i, T[m].rule, T[m].packet.flow) => T[m].packet.id < i
    <3>1. \A i \in Ids : Queued(R2, i, tr, p.flow) => p.id < i
      BY ZenonT(30), HeldTypes, SentTypes DEF Placed, Ordered, p
    <3> SUFFICES ASSUME NEW m \in 1..Len(T), NEW i \in Ids,
                        Queued(R2, i, T[m].rule, T[m].packet.flow)
                 PROVE  T[m].packet.id < i
      OBVIOUS
    <3>2. CASE m \in 1..Len(S)
      BY Zenon, <1>3, <3>2, SentTypes DEF Placed, Ordered
    <3>3. CASE m = Len(S) + 1
      BY ZenonT(30), <1>2, <1>3, <3>1, <3>3
    <3> QED
      BY <1>3, <3>2, <3>3
  <2>3. \A m \in 1..Len(T) :
          /\ G[T[m].rule] # NoPacket
          /\ G[T[m].rule].flow = T[m].packet.flow
          => T[m].packet.id < G[T[m].rule].id
    <3> SUFFICES ASSUME NEW m \in 1..Len(T), G[T[m].rule] # NoPacket,
                        G[T[m].rule].flow = T[m].packet.flow
                 PROVE  T[m].packet.id < G[T[m].rule].id
      OBVIOUS
    <3>1. CASE m \in 1..Len(S)
      <4>1. T[m] = S[m] /\ S[m].rule \in TrafficRule
        BY Zenon, <1>3, <1>6, <3>1
      <4>2. G[S[m].rule] = H[S[m].rule]
        BY Zenon, <1>5, <4>1
      <4> QED
        BY Zenon, <3>1, <4>1, <4>2 DEF Placed, Ordered
    <3>2. CASE m = Len(S) + 1
      BY Zenon, <1>2, <1>3, <1>5, <3>2
    <3> QED
      BY SMTT(30), <1>3, <3>1, <3>2
  <2>4. \A m, l \in 1..Len(T) :
          m < l /\ T[m].rule = T[l].rule /\ T[m].packet.flow = T[l].packet.flow
            => T[m].packet.id < T[l].packet.id
    <3>1. \A m \in 1..Len(S) : S[m].rule = tr /\ S[m].packet.flow = p.flow
                               => S[m].packet.id < p.id
      BY Zenon DEF Placed, Ordered, p
    <3> QED
      BY ZenonT(30), <1>2, <1>3, <1>4, <3>1 DEF Placed, Ordered
  <2> QED
    BY Zenon, <2>1, <2>2, <2>3, <2>4 DEF Ordered
<1> QED
  BY Zenon, <1>9, <1>11, <1>12 DEF Placed, G, T, e, p

LEMMA HeldForgotten ==
  ASSUME NEW R, NEW H \in HeadTable,
         NEW S \in Seq(SentPacket), NEW D, NEW n, NEW R2,
         NEW tr \in TrafficRule,
         SameQueued(R, R2),
         Placed(R, H, S, D, n, TRUE)
  PROVE  Placed(R2, [H EXCEPT ![tr] = NoPacket], S,
                D \cup {p.id : p \in {H[tr]} \ {NoPacket}}, n, TRUE)
<1> USE DEF SameQueued
<1> DEFINE G == [H EXCEPT ![tr] = NoPacket]
           D2 == D \cup {p.id : p \in {H[tr]} \ {NoPacket}}
<1>1. \A t \in TrafficRule : G[t] = IF t = tr THEN NoPacket ELSE H[t]
  BY DEF HeadTable
<1>2. \A i : i \in D2 <=> i \in D \/ Held(H, i, tr)
  BY Zenon DEF Held
<1>3. \A m \in 1..Len(S) : S[m].rule \in TrafficRule /\ S[m].packet.flow \in Flows
  <2>1. \A m \in 1..Len(S) : S[m] \in SentPacket
    BY LenFacts
  <2> QED
    BY Zenon, <2>1 DEF SentPacket, Packet
<1>4. \A t \in TrafficRule : H[t] # NoPacket => H[t].flow \in Flows
  BY Zenon DEF Packet, HeadTable
<1> HIDE DEF G, D2
<1>5. \A i : \A t \in TrafficRule : Held(G, i, t) <=> Held(H, i, t) /\ t # tr
  BY Zenon, <1>1 DEF Held
<1>6. \A i \in Ids : Seen(R2, G, S, D2, i) <=> Seen(R, H, S, D, i)
  BY Zenon, <1>2, <1>5 DEF Seen
<1>7. Accounted(R2, G, S, D2, n, TRUE)
  BY Zenon, <1>6 DEF Placed, Accounted
<1>8. Once(R2, G, S, D2)
  <2>1. /\ QueuedOnce(R)
        /\ HeldOnce(H)
        /\ SentOnce(S)
        /\ QueuedNotHeld(R, H)
        /\ QueuedNotGone(R, S, D)
        /\ HeldNotGone(H, S, D)
        /\ SentNotDropped(S, D)
    BY Zenon, OnceParts DEF Placed
  <2>2. QueuedOnce(R2)
    BY SMTT(30), <2>1 DEF QueuedOnce
  <2>3. HeldOnce(G)
    BY Zenon, <1>5, <2>1 DEF HeldOnce
  <2>4. QueuedNotHeld(R2, G)
    BY Zenon, <1>5, <2>1 DEF QueuedNotHeld
  <2>5. QueuedNotGone(R2, S, D2)
    BY Zenon, <1>2, <2>1 DEF QueuedNotGone, QueuedNotHeld
  <2>6. HeldNotGone(G, S, D2)
    BY Zenon, <1>2, <1>5, <2>1 DEF HeldOnce, HeldNotGone
  <2>7. SentNotDropped(S, D2)
    BY Zenon, <1>2, <2>1 DEF HeldNotGone, SentNotDropped
  <2> QED
    BY Zenon, <2>1, <2>2, <2>3, <2>4, <2>5, <2>6, <2>7, OnceParts
<1>9. Ordered(R2, G, S)
  <2>1. \A t \in TrafficRule : \A i \in Ids :
          G[t] # NoPacket /\ Queued(R2, i, t, G[t].flow) => G[t].id < i
    BY Zenon, <1>1, <1>4 DEF Placed, Ordered
  <2>2. \A m \in 1..Len(S) : \A i \in Ids :
          Queued(R2, i, S[m].rule, S[m].packet.flow) => S[m].packet.id < i
    BY Zenon, <1>3 DEF Placed, Ordered
  <2>3. \A m \in 1..Len(S) :
          /\ G[S[m].rule] # NoPacket
          /\ G[S[m].rule].flow = S[m].packet.flow
          => S[m].packet.id < G[S[m].rule].id
    BY Zenon, <1>1, <1>3 DEF Placed, Ordered
  <2> QED
    BY Zenon, <2>1, <2>2, <2>3 DEF Placed, Ordered
<1> QED
  BY Zenon, <1>7, <1>8, <1>9 DEF Placed, G, D2

\* A rule's packets go with it.
RuleGone(R, R2, D, D2, tr) ==
  /\ \A i : \A t \in TrafficRule : \A g \in Flows :
       Queued(R2, i, t, g) <=> Queued(R, i, t, g) /\ t # tr
  /\ \A i : i \in D2 <=> i \in D \/ \E g \in Flows : Queued(R, i, tr, g)

LEMMA RuleDropped ==
  ASSUME NEW R, NEW H \in HeadTable,
         NEW S \in Seq(SentPacket), NEW D, NEW n, NEW R2, NEW D2,
         NEW tr \in TrafficRule, RuleGone(R, R2, D, D2, tr),
         Placed(R, H, S, D, n, TRUE)
  PROVE  Placed(R2, H, S, D2, n, TRUE)
<1> USE DEF RuleGone
<1>1. ASSUME NEW i \in Ids
      PROVE  Seen(R2, H, S, D2, i) <=> Seen(R, H, S, D, i)
  <2>1. CASE \E g \in Flows : Queued(R, i, tr, g)
    BY Zenon, <2>1 DEF Seen
  <2>2. CASE ~ \E g \in Flows : Queued(R, i, tr, g)
    BY Zenon, <2>2 DEF Seen
  <2> QED
    BY Zenon, <2>1, <2>2
<1>2. Accounted(R2, H, S, D2, n, TRUE)
  BY Zenon, <1>1 DEF Placed, Accounted
<1>3. Once(R2, H, S, D2)
  <2>1. /\ QueuedOnce(R)
        /\ HeldOnce(H)
        /\ SentOnce(S)
        /\ QueuedNotHeld(R, H)
        /\ QueuedNotGone(R, S, D)
        /\ HeldNotGone(H, S, D)
        /\ SentNotDropped(S, D)
    BY Zenon, OnceParts DEF Placed
  <2>2. QueuedOnce(R2)
    BY SMTT(30), <2>1 DEF QueuedOnce
  <2>3. QueuedNotHeld(R2, H)
    BY Zenon, <2>1 DEF QueuedNotHeld
  <2>4. QueuedNotGone(R2, S, D2)
    BY Zenon, <2>1 DEF QueuedOnce, QueuedNotGone
  <2>5. HeldNotGone(H, S, D2)
    BY Zenon, <2>1 DEF QueuedNotHeld, HeldNotGone
  <2>6. SentNotDropped(S, D2)
    BY Zenon, <2>1 DEF QueuedNotGone, SentNotDropped
  <2> QED
    BY Zenon, <2>1, <2>2, <2>3, <2>4, <2>5, <2>6, OnceParts
<1>5. Ordered(R2, H, S)
  BY Zenon, HeldTypes, SentTypes DEF Placed, Ordered
<1> QED
  BY Zenon, <1>2, <1>3, <1>5 DEF Placed

\* Nothing else moves a packet.
LEMMA SameWhereabouts ==
  ASSUME NEW R, NEW H \in HeadTable,
         NEW S \in Seq(SentPacket), NEW D, NEW n, NEW R2,
         SameQueued(R, R2),
         Placed(R, H, S, D, n, TRUE)
  PROVE  Placed(R2, H, S, D, n, TRUE)
<1> USE DEF SameQueued
<1>1. \A i : Seen(R2, H, S, D, i) <=> Seen(R, H, S, D, i)
  BY Zenon DEF Seen
<1>2. Accounted(R2, H, S, D, n, TRUE)
  BY Zenon, <1>1 DEF Placed, Accounted
<1>3. Once(R2, H, S, D)
  <2>1. /\ QueuedOnce(R)
        /\ HeldOnce(H)
        /\ SentOnce(S)
        /\ QueuedNotHeld(R, H)
        /\ QueuedNotGone(R, S, D)
        /\ HeldNotGone(H, S, D)
        /\ SentNotDropped(S, D)
    BY Zenon, OnceParts DEF Placed
  <2>2. QueuedOnce(R2)
    BY <2>1 DEF QueuedOnce
  <2>3. QueuedNotHeld(R2, H)
    BY Zenon, <2>1 DEF QueuedNotHeld
  <2>4. QueuedNotGone(R2, S, D)
    BY Zenon, <2>1 DEF QueuedNotGone
  <2> QED
    BY Zenon, <2>1, <2>2, <2>3, <2>4, OnceParts
<1>4. Ordered(R2, H, S)
  BY Zenon, HeldTypes, SentTypes DEF Placed, Ordered
<1> QED
  BY Zenon, <1>2, <1>3, <1>4 DEF Placed

-----------------------------------------------------------------------------
(***************************************************************************)
(* Lemmas about the update of one rule.                                    *)
(***************************************************************************)

RuleTable == [TrafficRule -> TrafficRuleQueue \cup {NoRule}]

LEMMA RuleUpdated ==
  ASSUME NEW R \in RuleTable, NEW tr \in TrafficRule, NEW q, QueueInv(q),
         \A t \in TrafficRule : R[t] # NoRule => QueueInv(R[t])
  PROVE  LET R2 == [R EXCEPT ![tr] = q] IN
         /\ R2 \in RuleTable
         /\ q # NoRule
         /\ \A t \in TrafficRule : R2[t] = IF t = tr THEN q ELSE R[t]
         /\ \A t \in TrafficRule : R2[t] # NoRule => QueueInv(R2[t])
<1>1. q \in TrafficRuleQueue
  BY DEF QueueInv
<1>2. q # NoRule
  BY <1>1, MarkAssumption
<1>3. [R EXCEPT ![tr] = q] \in RuleTable
  BY <1>1 DEF RuleTable
<1>4. \A t \in TrafficRule : [R EXCEPT ![tr] = q][t] = IF t = tr THEN q ELSE R[t]
  BY DEF RuleTable
<1> QED
  BY Zenon, <1>2, <1>3, <1>4

\* What is queued when a rule's queues get a packet or lose the first.
LEMMA QueuesGrow ==
  ASSUME NEW R, NEW R2, NEW tr \in TrafficRule, NEW q, q # NoRule,
         \A t \in TrafficRule : R2[t] = IF t = tr THEN q ELSE R[t],
         R[tr] # NoRule, QueueInv(R[tr]), NEW p \in Packet,
         q.queues = [R[tr].queues EXCEPT ![p.flow] = Append(@, p)]
  PROVE  MoreQueued(R, R2, p.id, tr, p.flow)
<1> DEFINE f == p.flow
           s == R[tr].queues[f]
<1>1. R[tr].queues \in [Flows -> Seq(Packet)] /\ f \in Flows
  BY Zenon DEF QueueInv, TrafficRuleQueue, Packet
<1>2. s \in Seq(Packet)
  BY Zenon, <1>1
<1>3. \A g \in Flows : q.queues[g] = IF g = f THEN Append(s, p) ELSE R[tr].queues[g]
  BY Zenon, <1>1
<1>4. \A i : HasId(Append(s, p), i) <=> HasId(s, i) \/ i = p.id
  BY Zenon, <1>2, HasIdAppend
<1>5. \A i : \A g \in Flows :
        HasId(q.queues[g], i)
          <=> HasId(R[tr].queues[g], i) \/ (i = p.id /\ g = f)
  BY Zenon, <1>3, <1>4
<1> QED
  BY Zenon, <1>5 DEF MoreQueued, Queued

LEMMA QueuesShrink ==
  ASSUME NEW R, NEW R2, NEW tr \in TrafficRule, NEW q, q # NoRule,
         \A t \in TrafficRule : R2[t] = IF t = tr THEN q ELSE R[t],
         R[tr] # NoRule, QueueInv(R[tr]), NEW p \in Packet,
         R[tr].queues[p.flow] # <<>>, p = Head(R[tr].queues[p.flow]),
         q.queues = [R[tr].queues EXCEPT ![p.flow] = Tail(@)]
  PROVE  LessQueued(R, R2, p, tr)
<1> DEFINE f == p.flow
           s == R[tr].queues[f]
<1>1. R[tr].queues \in [Flows -> Seq(Packet)] /\ f \in Flows
  BY Zenon DEF QueueInv, TrafficRuleQueue, Packet
<1>2. /\ s \in Seq(Packet)
      /\ \A j, k \in 1..Len(s) : j < k => s[j].id < s[k].id
  BY <1>1 DEF QueueInv, Sorted
<1>3. \A g \in Flows : q.queues[g] = IF g = f THEN Tail(s) ELSE R[tr].queues[g]
  BY Zenon, <1>1
<1>4. /\ HasId(s, p.id)
      /\ \A i : HasId(Tail(s), i) <=> HasId(s, i) /\ i # p.id
      /\ \A i : HasId(Tail(s), i) => p.id < i
  BY Zenon, <1>2, HasIdTail
<1>5. \A i : \A g \in Flows :
        HasId(q.queues[g], i)
          <=> HasId(R[tr].queues[g], i) /\ ~ (i = p.id /\ g = f)
  BY Zenon, <1>3, <1>4
<1>6. \A i : HasId(q.queues[f], i) => p.id < i
  BY Zenon, <1>1, <1>3, <1>4
<1> QED
  BY ZenonT(30), <1>4, <1>5, <1>6 DEF LessQueued, Queued

-----------------------------------------------------------------------------
(***************************************************************************)
(* The steps.                                                              *)
(***************************************************************************)

\* A rule that must be in the active list, before and after a step.
Waits(tr) == rules[tr] # NoRule /\ tr \notin stranded /\ Backlogged(tr)

WaitsAfter(tr) ==
  /\ rules'[tr] # NoRule
  /\ tr \notin stranded'
  /\ rules'[tr].size > 0 \/ head_table'[tr] # NoPacket

\* What a step that changes the rule tr only owes to the scheduler.
LEMMA SchedStep ==
  ASSUME SchedInv, NEW tr \in TrafficRule,
         \A t \in TrafficRule : t # tr =>
           /\ rules'[t] = rules[t]
           /\ head_table'[t] = head_table[t]
           /\ t \in stranded' <=> t \in stranded
           /\ Contains(active_list, t) => Contains(active_list', t),
         WaitsAfter(tr) => Contains(active_list', tr),
         asleep' => asleep /\ (WaitsAfter(tr) => Waits(tr)),
         rules'[tr] # NoRule =>
           \E cost \in Costs : rules'[tr].deficit < cost + rules'[tr].quantum
  PROVE  SchedInv'
<1>1. ASSUME NEW t \in TrafficRule, WaitsAfter(t), t # tr PROVE Waits(t)
  BY Zenon, <1>1 DEF Waits, WaitsAfter, Backlogged
<1>2. ASSUME NEW t \in TrafficRule, WaitsAfter(t) PROVE Contains(active_list', t)
  <2>1. CASE t = tr
    BY Zenon, <1>2, <2>1
  <2>2. CASE t # tr
    BY Zenon, <1>1, <1>2, <2>2 DEF SchedInv, NoRuleForgotten, Known, Waits
  <2> QED
    BY Zenon, <2>1, <2>2
<1>3. NoRuleForgotten'
  BY Zenon, <1>2 DEF NoRuleForgotten, Known, Backlogged, WaitsAfter
<1>4. ASSUME NEW t \in TrafficRule, WaitsAfter(t), asleep' PROVE FALSE
  <2>1. Waits(t)
    <3>1. CASE t = tr
      BY Zenon, <1>4, <3>1
    <3>2. CASE t # tr
      BY Zenon, <1>1, <1>4, <3>2
    <3> QED
      BY Zenon, <3>1, <3>2
  <2> QED
    BY Zenon, <1>4, <2>1 DEF SchedInv, NoLostWakeup, Known, Waits
<1>5. NoLostWakeup'
  BY Zenon, <1>4 DEF NoLostWakeup, Known, Backlogged, WaitsAfter
<1>6. DeficitBounded'
  BY Zenon DEF SchedInv, DeficitBounded, Known
<1> QED
  BY Zenon, <1>3, <1>5, <1>6 DEF SchedInv

\* A step that leaves rules, head table and list alone keeps the scheduler's
\* invariant as long as it puts nobody to sleep.
LEMMA SchedSame ==
  ASSUME SchedInv, UNCHANGED <<rules, active_list, head_table, stranded>>,
         asleep' => asleep
  PROVE  SchedInv'
BY Zenon DEF SchedInv, NoRuleForgotten, NoLostWakeup, DeficitBounded, Known,
   Backlogged

\* While the agent is up, the whereabouts are those of its state.
LEMMA PlacesNow ==
  ASSUME agent = "up", PlaceInv
  PROVE  Placed(rules, head_table, sent, dropped, arrived, TRUE)
BY Zenon DEF PlaceInv, Placed, Accounted

LEMMA PlacesNext ==
  ASSUME agent' = "up", Placed(rules', head_table', sent', dropped', arrived', TRUE)
  PROVE  PlaceInv'
BY Zenon DEF PlaceInv, Placed, Accounted

LEMMA StateTypes ==
  ASSUME StateInv
  PROVE  /\ rules \in RuleTable
         /\ \A t \in TrafficRule : rules[t] # NoRule => QueueInv(rules[t])
         /\ head_table \in HeadTable
         /\ active_list \in Seq(TrafficRule)
         /\ sent \in Seq(SentPacket)
         /\ arrived \in Nat
BY DEF StateInv, TypeOK, RuleTable, HeadTable, SentPacket

\* No packet in a queue is younger than the last arrival.
LEMMA QueuedArrived ==
  ASSUME StateInv, PlaceInv, NEW tr \in TrafficRule, rules[tr] # NoRule,
         NEW f \in Flows, NEW k \in 1..Len(rules[tr].queues[f])
  PROVE  rules[tr].queues[f][k].id < arrived + 1
<1> DEFINE s == rules[tr].queues[f]
           i == s[k].id
<1>1. s \in Seq(Packet)
  BY Zenon, StateTypes DEF QueueInv, TrafficRuleQueue
<1>2. s[k] \in Packet
  BY Zenon, <1>1, LenFacts
<1>3. i \in Ids
  BY Zenon, <1>2 DEF Packet, Ids
<1>4. Queued(rules, i, tr, f)
  BY Zenon DEF Queued, HasId
<1>5. Seen(rules, head_table, sent, dropped, i)
  BY Zenon, <1>4 DEF Seen
<1>6. i <= arrived
  BY Zenon, <1>3, <1>5 DEF PlaceInv, Placed, Accounted
<1> QED
  BY SMTT(30), <1>3, <1>6, StateTypes DEF Ids

\* Counting a packet and resetting the deficit are independent.
LEMMA CountedAndReset ==
  ASSUME NEW e \in TrafficRuleQueue
  PROVE  [e EXCEPT !.deficit = 0, !.size = @ + 1]
           = [[e EXCEPT !.size = @ + 1] EXCEPT !.deficit = 0]
BY Zenon DEF TrafficRuleQueue

\* A packet arrives: a crash without a default rule, refused or queued.
LEMMA StoreStep ==
  ASSUME IInv, NEW ssid \in Ssids, NEW dscp \in Dscps, NEW f \in Flows,
         store(ssid, dscp, f)
  PROVE  IInv'
<1> DEFINE tr == RuleFor(ssid, dscp)
           p == [id |-> arrived + 1, flow |-> f]
<1>1. StateInv /\ SchedInv /\ PlaceInv /\ agent = "up" /\ arrived < MaxPackets
      /\ arrived' = arrived + 1
  BY Zenon DEF IInv, store
<1>2. tr \in TrafficRule
  BY QosAssumption DEF RuleFor, TrafficRule
<1>3. /\ rules \in RuleTable
      /\ \A t \in TrafficRule : rules[t] # NoRule => QueueInv(rules[t])
      /\ head_table \in HeadTable
      /\ active_list \in Seq(TrafficRule)
      /\ sent \in Seq(SentPacket)
      /\ arrived \in Nat
  BY Zenon, <1>1, StateTypes
<1>4. arrived + 1 \in Ids /\ arrived + 1 \in 0..MaxPackets
  BY <1>1, <1>3, QosAssumption DEF Ids
<1>5. p \in Packet /\ p.id = arrived + 1 /\ p.flow = f
  BY Zenon, <1>4 DEF Packet, Ids
<1> HIDE DEF tr, p
<1>6. Placed(rules, head_table, sent, dropped, arrived, TRUE)
  BY Zenon, <1>1, PlacesNow
<1>7. CASE rules[tr] = NoRule
  <2>1. /\ agent' = "segv"
        /\ UNCHANGED <<rules, active_list, head_table, sleepiness, asleep,
                       dropped, stranded, sent>>
    BY Zenon, <1>7 DEF store, Crash, tr
  <2>2. StateInv'
    BY Zenon, <1>1, <1>4, <2>1 DEF StateInv, TypeOK
  <2>3. SchedInv'
    BY Zenon, <1>1, <2>1, SchedSame
  <2>4. PlaceInv'
    <3>1. \A i \in Ids : i <= arrived => i <= arrived + 1
      BY <1>3 DEF Ids
    <3> QED
      BY Zenon, <1>1, <1>6, <2>1, <3>1 DEF PlaceInv, Placed, Accounted
  <2> QED
    BY <2>2, <2>3, <2>4 DEF IInv
<1>8. CASE rules[tr] # NoRule /\ IsFull(rules[tr], f)
  <2>1. /\ dropped' = dropped \cup {arrived + 1}
        /\ UNCHANGED <<rules, active_list, head_table, sleepiness, asleep,
                       agent, stranded, sent>>
    BY Zenon, <1>8 DEF store, tr
  <2>2. StateInv'
    BY Zenon, <1>1, <1>4, <2>1 DEF StateInv, TypeOK, Ids
  <2>3. SchedInv'
    BY Zenon, <1>1, <2>1, SchedSame
  <2>4. Placed(rules, head_table, sent, dropped \cup {arrived + 1}, arrived + 1, TRUE)
    BY Zenon, <1>3, <1>4, <1>6, ArrivalRefused
  <2>5. PlaceInv'
    BY Zenon, <1>1, <2>1, <2>4, PlacesNext
  <2> QED
    BY <2>2, <2>3, <2>5 DEF IInv
<1>9. CASE rules[tr] # NoRule /\ ~ IsFull(rules[tr], f)
  <2> DEFINE q == rules[tr]
             r == [enqueue(q, p) EXCEPT !.size = @ + 1]
             d == IF q.size = 0 THEN 0 ELSE q.deficit
             z == [r EXCEPT !.deficit = d]
  <2>1. /\ StoredIn(tr, p)
        /\ asleep' = FALSE
        /\ sleepiness' = 0
        /\ UNCHANGED <<head_table, agent, dropped, stranded, sent>>
    BY Zenon, <1>9 DEF store, Woken, tr, p
  <2>2. QueueInv(q) /\ q \in TrafficRuleQueue /\ q.size \in Nat /\ d \in Nat
    BY Zenon, <1>2, <1>3, <1>9 DEF QueueInv, TrafficRuleQueue
  <2>3. /\ enqueue(q, p) \in TrafficRuleQueue
        /\ QueueInv(r)
        /\ r.queues = [q.queues EXCEPT ![p.flow] = Append(@, p)]
        /\ r.size = q.size + 1
        /\ r.deficit = q.deficit
        /\ r.quantum = q.quantum
    <3>1. \A k \in 1..Len(q.queues[p.flow]) : q.queues[p.flow][k].id < p.id
      BY Zenon, <1>1, <1>2, <1>5, <1>9, QueuedArrived
    <3> QED
      BY Zenon, <1>5, <2>2, <3>1, EnqueueFacts
  <2> HIDE DEF r, d
  <2>4. /\ QueueInv(z)
        /\ z.queues = [q.queues EXCEPT ![p.flow] = Append(@, p)]
        /\ z.size = q.size + 1
        /\ z.deficit = d
        /\ z.quantum = q.quantum
    BY ZenonT(30), <2>2, <2>3, DeficitIsFree
  <2>5. rules' = [rules EXCEPT ![tr] = z]
    <3>1. r \in TrafficRuleQueue
      BY Zenon, <2>3 DEF QueueInv
    <3>2. CASE q.size = 0
      <4>1. [enqueue(q, p) EXCEPT !.deficit = 0, !.size = @ + 1] = z
        BY Zenon, <2>3, <3>2, CountedAndReset DEF r, d
      <4> QED
        BY <2>1, <3>2, <4>1 DEF StoredIn
    <3>3. CASE q.size # 0
      <4>1. z = r
        BY Zenon, <2>3, <3>1, <3>3 DEF TrafficRuleQueue, d
      <4> QED
        BY <2>1, <3>3, <4>1 DEF StoredIn, r
    <3> QED
      BY <3>2, <3>3
  <2> HIDE DEF z, q
  <2>6. /\ rules' \in RuleTable
        /\ z # NoRule
        /\ \A t \in TrafficRule : rules'[t] = IF t = tr THEN z ELSE rules[t]
        /\ \A t \in TrafficRule : rules'[t] # NoRule => QueueInv(rules'[t])
    <3>1. QueueInv(z)
      BY Zenon, <2>4
    <3> DEFINE R2 == [rules EXCEPT ![tr] = z]
    <3>2. /\ R2 \in RuleTable
          /\ z # NoRule
          /\ \A t \in TrafficRule : R2[t] = IF t = tr THEN z ELSE rules[t]
          /\ \A t \in TrafficRule : R2[t] # NoRule => QueueInv(R2[t])
      BY Zenon, <1>2, <1>3, <3>1, RuleUpdated
    <3>3. rules' = R2
      BY <2>5
    <3> HIDE DEF R2
    <3> QED
      BY Zenon, <3>2, <3>3
  <2>7. /\ active_list' \in Seq(TrafficRule)
        /\ \A t : Contains(active_list, t) => Contains(active_list', t)
        /\ q.size = 0 => Contains(active_list', tr)
    <3>1. CASE q.size = 0
      <4>1. active_list' = Append(active_list, tr)
        BY <2>1, <3>1 DEF StoredIn, q
      <4>2. active_list \in Seq(TrafficRule)
        BY Zenon, <1>3
      <4>3. Append(active_list, tr) \in Seq(TrafficRule)
        BY Zenon, <1>2, <4>2, AppendFacts
      <4>4. \A t : Contains(Append(active_list, tr), t)
                    <=> Contains(active_list, t) \/ t = tr
        BY <1>2, <4>2, ContainsAppend
      <4> QED
        BY <4>1, <4>3, <4>4
    <3>2. CASE q.size # 0
      BY <1>3, <2>1, <3>2 DEF StoredIn, q
    <3> QED
      BY Zenon, <3>1, <3>2
  <2>8. StateInv'
    <3>1. /\ sleepiness' \in 0..SLEEPINESS_TRIGGER
          /\ asleep' \in BOOLEAN
          /\ sleepiness' < SLEEPINESS_TRIGGER
      <4>1. 0 \in 0..SLEEPINESS_TRIGGER /\ 0 < SLEEPINESS_TRIGGER
        BY QosAssumption
      <4>2. sleepiness' = 0 /\ asleep' \in BOOLEAN
        BY Zenon, <2>1
      <4> QED
        BY <4>1, <4>2
    <3>2. TypeOK'
      <4>1. TypeOK
        BY <1>1 DEF StateInv
      <4>2. agent' = "up" /\ arrived' \in 0..MaxPackets
        BY Zenon, <1>1, <1>4, <2>1
      <4> QED
        BY Zenon, <2>1, <2>6, <2>7, <3>1, <4>1, <4>2 DEF TypeOK, RuleTable
    <3> QED
      BY Zenon, <2>6, <3>1, <3>2 DEF StateInv
  <2>9. SchedInv'
    <3>1. WaitsAfter(tr) => Contains(active_list', tr)
      <4>1. CASE q.size = 0
        BY <2>7, <4>1
      <4>2. CASE q.size # 0
        <5>1. q.size > 0
          BY <2>2, <4>2
        <5>2. tr \notin stranded => Contains(active_list, tr)
          BY Zenon, <1>1, <1>2, <1>9, <5>1 DEF SchedInv, NoRuleForgotten, Known,
             Backlogged, q
        <5> QED
          BY Zenon, <2>1, <2>7, <5>2 DEF WaitsAfter
      <4> QED
        BY <4>1, <4>2
    <3>2. \E cost \in Costs : z.deficit < cost + z.quantum
      <4>1. CASE q.size = 0
        <5>1. q.quantum \in Nat \ {0} /\ d = 0
          BY <2>2, <4>1 DEF TrafficRuleQueue, d
        <5>2. PICK cost \in Costs : cost \in Nat
          BY Zenon, QosAssumption
        <5> QED
          BY <2>4, <5>1, <5>2
      <4>2. CASE q.size # 0
        <5>1. d = q.deficit
          BY <4>2 DEF d
        <5> QED
          BY Zenon, <1>1, <1>2, <1>9, <2>4, <5>1 DEF SchedInv, DeficitBounded,
             Known, q
      <4> QED
        BY <4>1, <4>2
    <3> QED
      BY Zenon, <1>1, <1>2, <2>1, <2>6, <2>7, <3>1, <3>2, SchedStep
  <2>10. PlaceInv'
    <3>1. MoreQueued(rules, rules', arrived + 1, tr, f)
      <4>1. QueueInv(rules[tr]) /\ z.queues = [rules[tr].queues EXCEPT ![p.flow] = Append(@, p)]
        BY Zenon, <2>2, <2>4 DEF q
      <4>2. p \in Packet
        BY <1>5
      <4>3. MoreQueued(rules, rules', p.id, tr, p.flow)
        BY Zenon, <1>2, <1>9, <2>6, <4>1, <4>2, QueuesGrow
      <4> QED
        BY Zenon, <1>5, <4>3
    <3>2. Placed(rules', head_table, sent, dropped, arrived + 1, TRUE)
      BY Zenon, <1>2, <1>3, <1>4, <1>6, <3>1, ArrivalQueued
    <3> QED
      BY Zenon, <1>1, <2>1, <3>2, PlacesNext
  <2> QED
    BY <2>8, <2>9, <2>10 DEF IInv
<1> QED
  BY <1>7, <1>8, <1>9

\* An empty pull sleeps only when nobody waits.
LEMMA PullEmptyStep ==
  ASSUME IInv, pull_empty
  PROVE  IInv'
<1>1. /\ StateInv /\ SchedInv /\ PlaceInv
      /\ agent = "up" /\ ~asleep /\ active_list = <<>>
      /\ sleepiness' = sleepiness + 1
      /\ asleep' = (sleepiness' = SLEEPINESS_TRIGGER)
      /\ UNCHANGED <<rules, active_list, head_table, agent, arrived, dropped,
                     stranded, sent>>
  BY Zenon DEF IInv, pull_empty
<1>2. sleepiness \in Nat /\ sleepiness < SLEEPINESS_TRIGGER
  BY <1>1 DEF StateInv, TypeOK
<1>3. /\ sleepiness' \in 0..SLEEPINESS_TRIGGER
      /\ sleepiness' # SLEEPINESS_TRIGGER => sleepiness' < SLEEPINESS_TRIGGER
  BY <1>1, <1>2, QosAssumption
<1>4. asleep' \in BOOLEAN /\ (~asleep' => sleepiness' # SLEEPINESS_TRIGGER)
  BY Zenon, <1>1
<1>5. StateInv'
  <2>1. TypeOK'
    BY Zenon, <1>1, <1>3, <1>4 DEF StateInv, TypeOK
  <2> QED
    BY Zenon, <1>1, <1>3, <1>4, <2>1 DEF StateInv
<1>6. \A t : ~ Contains(active_list, t)
  BY <1>1, EmptyFacts DEF Contains
<1>7. SchedInv'
  <2>1. \A t \in Known \ stranded : ~ Backlogged(t)
    BY Zenon, <1>1, <1>6 DEF SchedInv, NoRuleForgotten
  <2>2. NoLostWakeup'
    BY Zenon, <1>1, <2>1 DEF NoLostWakeup, Known, Backlogged
  <2>3. NoRuleForgotten' /\ DeficitBounded'
    BY Zenon, <1>1 DEF SchedInv, NoRuleForgotten, DeficitBounded, Known, Backlogged
  <2> QED
    BY <2>2, <2>3 DEF SchedInv
<1>8. PlaceInv'
  BY Zenon, <1>1 DEF PlaceInv
<1> QED
  BY <1>5, <1>7, <1>8 DEF IInv

\* What the rule in front may offer: its held packet, nothing because its
\* queues are empty, or the oldest of a flow, which may be lost.
LEMMA OfferFacts ==
  ASSUME StateInv, NEW tr \in TrafficRule, rules[tr] # NoRule,
         NEW o \in Offers(tr)
  PROVE  LET q == rules[tr]
             p == o.taken
         IN
         /\ QueueInv(o.queue)
         /\ o.queue.deficit = q.deficit
         /\ o.queue.quantum = q.quantum
         /\ \/ /\ head_table[tr] # NoPacket
               /\ o.packet = head_table[tr]
               /\ o.queue = q
            \/ /\ head_table[tr] = NoPacket
               /\ p = NoPacket
               /\ o.packet = NoPacket
               /\ o.queue.queues = q.queues
               /\ o.queue.size = 0
            \/ /\ head_table[tr] = NoPacket
               /\ p \in Packet
               /\ o.packet \in {p, NoPacket}
               /\ q.queues[p.flow] # <<>>
               /\ p = Head(q.queues[p.flow])
               /\ o.queue.queues = [q.queues EXCEPT ![p.flow] = Tail(@)]
<1> DEFINE q == rules[tr]
<1>1. QueueInv(q)
  BY StateTypes
<1>2. CASE head_table[tr] # NoPacket
  <2>1. o = [packet |-> head_table[tr], taken |-> NoPacket, queue |-> q]
    BY Zenon, <1>2 DEF Offers
  <2> QED
    BY Zenon, <1>1, <1>2, <2>1
<1>3. CASE head_table[tr] = NoPacket
  <2>1. PICK d \in dequeue(q) :
          \/ o = [packet |-> d.packet, taken |-> d.packet, queue |-> d.queue]
          \/ o = [packet |-> NoPacket, taken |-> d.packet, queue |-> d.queue]
    BY Zenon, <1>3 DEF Offers
  <2>2. o.queue = d.queue /\ o.taken = d.packet /\ o.packet \in {d.packet, NoPacket}
    BY <2>1
  <2>3. /\ QueueInv(d.queue)
        /\ d.queue.deficit = q.deficit
        /\ d.queue.quantum = q.quantum
        /\ \/ /\ d.packet = NoPacket
              /\ q.size = 0
              /\ d.queue.queues = q.queues
              /\ d.queue.size = q.size
           \/ \E f \in Flows :
                /\ d.packet \in Packet
                /\ d.packet.flow = f
                /\ q.queues[f] \in Seq(Packet)
                /\ q.queues[f] # <<>>
                /\ d.packet = Head(q.queues[f])
                /\ d.queue.queues = [q.queues EXCEPT ![f] = Tail(@)]
                /\ d.queue.size = q.size - 1
    BY Zenon, <1>1, DequeueFacts
  <2>4. CASE d.packet = NoPacket /\ q.size = 0 /\ d.queue.queues = q.queues
               /\ d.queue.size = q.size
    BY Zenon, <1>3, <2>2, <2>3, <2>4
  <2>5. CASE \E f \in Flows :
                /\ d.packet \in Packet
                /\ d.packet.flow = f
                /\ q.queues[f] # <<>>
                /\ d.packet = Head(q.queues[f])
                /\ d.queue.queues = [q.queues EXCEPT ![f] = Tail(@)]
    BY ZenonT(30), <1>3, <2>2, <2>3, <2>5
  <2> QED
    BY Zenon, <2>3, <2>4, <2>5
<1> QED
  BY Zenon, <1>2, <1>3

\* The rule in front is served: idle, a packet sent or a packet held.
LEMMA ServeStep ==
  ASSUME IInv, pull_rule
  PROVE  IInv'
<1> DEFINE tr == Head(active_list)
           q == rules[tr]
<1>1. /\ StateInv /\ SchedInv /\ PlaceInv
      /\ agent = "up" /\ ~asleep /\ active_list # <<>> /\ q # NoRule
      /\ UNCHANGED <<arrived, sleepiness, asleep, agent>>
  BY Zenon DEF IInv, pull_rule
<1>2. /\ rules \in RuleTable
      /\ \A t \in TrafficRule : rules[t] # NoRule => QueueInv(rules[t])
      /\ head_table \in HeadTable
      /\ active_list \in Seq(TrafficRule)
      /\ sent \in Seq(SentPacket)
  BY Zenon, <1>1, StateTypes
<1>3. /\ tr \in TrafficRule
      /\ Tail(active_list) \in Seq(TrafficRule)
      /\ \A t : Contains(active_list, t) <=> t = tr \/ Contains(Tail(active_list), t)
  BY Zenon, <1>1, <1>2, TailFacts, ContainsTail
<1>4. PICK o \in Offers(tr), cost \in Costs :
        IF o.packet = NoPacket THEN Idle(tr, o)
        ELSE IF cost <= o.queue.deficit THEN Transmit(tr, o, cost)
        ELSE Hold(tr, o)
  BY Zenon DEF pull_rule
<1> DEFINE p == o.taken
           d == IF o.packet = NoPacket THEN 0
                ELSE IF cost <= o.queue.deficit THEN o.queue.deficit - cost
                ELSE o.queue.deficit + o.queue.quantum
           z == [o.queue EXCEPT !.deficit = d]
<1>5. /\ QueueInv(o.queue)
      /\ o.queue.deficit = q.deficit
      /\ o.queue.quantum = q.quantum
      /\ \/ /\ head_table[tr] # NoPacket
            /\ o.packet = head_table[tr]
            /\ o.queue = q
         \/ /\ head_table[tr] = NoPacket
            /\ p = NoPacket
            /\ o.packet = NoPacket
            /\ o.queue.queues = q.queues
            /\ o.queue.size = 0
         \/ /\ head_table[tr] = NoPacket
            /\ p \in Packet
            /\ o.packet \in {p, NoPacket}
            /\ q.queues[p.flow] # <<>>
            /\ p = Head(q.queues[p.flow])
            /\ o.queue.queues = [q.queues EXCEPT ![p.flow] = Tail(@)]
  BY Zenon, <1>1, <1>3, OfferFacts
<1>6. rules' = [rules EXCEPT ![tr] = z]
  BY <1>4 DEF Idle, Transmit, Hold
<1> HIDE DEF tr, q, p
<1>7. /\ o.queue.deficit \in Nat /\ o.queue.quantum \in Nat \ {0}
      /\ o.queue.size \in Nat /\ cost \in Nat
  BY Zenon, <1>5, QosAssumption DEF QueueInv, TrafficRuleQueue
<1>8. d \in Nat /\ \E c \in Costs : d < c + o.queue.quantum
  <2>1. CASE o.packet = NoPacket
    BY SMTT(30), <1>7, <2>1
  <2>2. CASE o.packet # NoPacket /\ cost <= o.queue.deficit
    <3>1. PICK c \in Costs : q.deficit < c + q.quantum
      BY Zenon, <1>1, <1>3 DEF SchedInv, DeficitBounded, Known, q, tr
    <3>2. c \in Nat
      BY SMTT(30), QosAssumption
    <3> QED
      BY <1>5, <1>7, <2>2, <3>1, <3>2
  <2>3. CASE o.packet # NoPacket /\ ~ (cost <= o.queue.deficit)
    BY <1>7, <2>3
  <2> QED
    BY ZenonT(30), <2>1, <2>2, <2>3
<1> HIDE DEF d
<1>9. /\ QueueInv(z)
      /\ z.queues = o.queue.queues
      /\ z.size = o.queue.size
      /\ z.deficit = d
      /\ z.quantum = o.queue.quantum
  BY <1>5, <1>8, DeficitIsFree
<1> HIDE DEF z
<1>10. /\ rules' \in RuleTable
       /\ z # NoRule
       /\ \A t \in TrafficRule : rules'[t] = IF t = tr THEN z ELSE rules[t]
       /\ \A t \in TrafficRule : rules'[t] # NoRule => QueueInv(rules'[t])
  <2> DEFINE R2 == [rules EXCEPT ![tr] = z]
  <2>1. /\ R2 \in RuleTable
        /\ z # NoRule
        /\ \A t \in TrafficRule : R2[t] = IF t = tr THEN z ELSE rules[t]
        /\ \A t \in TrafficRule : R2[t] # NoRule => QueueInv(R2[t])
    BY Zenon, <1>2, <1>3, <1>9, RuleUpdated
  <2>2. rules' = R2
    BY Zenon, <1>6
  <2> HIDE DEF R2
  <2> QED
    BY Zenon, <2>1, <2>2
<1>11. Placed(rules, head_table, sent, dropped, arrived, TRUE)
  BY Zenon, <1>1, PlacesNow
<1>12. q # NoRule /\ QueueInv(q) /\ TypeOK
  BY Zenon, <1>1, <1>2, <1>3 DEF q, tr, StateInv
<1>13. CASE o.packet = NoPacket
  <2> DEFINE lost == {p} \ {NoPacket}
  <2>1. /\ active_list' = Tail(active_list)
        /\ dropped' = dropped \cup {x.id : x \in lost}
        /\ stranded' = IF lost # {} /\ o.queue.size > 0 THEN stranded \cup {tr}
                                                         ELSE stranded
        /\ UNCHANGED <<head_table, sent>>
    BY <1>4, <1>13 DEF Idle, p, q
  <2>2. head_table[tr] = NoPacket
    BY Zenon, <1>5, <1>13
  <2>3. StateInv'
    <3>1. lost \subseteq Packet
      BY Zenon, <1>5, <2>2
    <3>2. {x.id : x \in lost} \subseteq 1..MaxPackets
      BY <3>1 DEF Packet
    <3>3. dropped' \subseteq 1..MaxPackets /\ stranded' \subseteq TrafficRule
      BY Zenon, <1>3, <1>12, <2>1, <3>2 DEF TypeOK
    <3>4. TypeOK'
      BY Zenon, <1>1, <1>3, <1>10, <1>12, <2>1, <3>3 DEF TypeOK, RuleTable
    <3> QED
      BY Zenon, <1>1, <1>10, <3>4 DEF StateInv
  <2>4. SchedInv'
    <3>1. ~ WaitsAfter(tr)
      <4>1. rules'[tr].size = o.queue.size
        BY Zenon, <1>3, <1>9, <1>10
      <4>2. CASE p = NoPacket
        <5>1. o.queue.size = 0
          BY Zenon, <1>5, <2>2, <4>2, MarkAssumption
        <5> QED
          BY <2>1, <2>2, <4>1, <5>1 DEF WaitsAfter
      <4>3. CASE p # NoPacket
        BY <2>1, <2>2, <4>1, <4>3 DEF WaitsAfter
      <4> QED
        BY <4>2, <4>3
    <3>2. \A t \in TrafficRule : t # tr =>
            /\ rules'[t] = rules[t]
            /\ head_table'[t] = head_table[t]
            /\ t \in stranded' <=> t \in stranded
            /\ Contains(active_list, t) => Contains(active_list', t)
      BY Zenon, <1>3, <1>10, <2>1
    <3> QED
      BY ZenonT(30), <1>1, <1>3, <1>8, <1>9, <1>10, <3>1, <3>2, SchedStep
  <2>5. PlaceInv'
    <3>1. CASE p = NoPacket
      <4>1. z.queues = rules[tr].queues
        BY Zenon, <1>5, <1>9, <2>2, <3>1, MarkAssumption DEF q
      <4>2. SameQueued(rules, rules')
        BY Zenon, <1>3, <1>10, <1>12, <4>1 DEF q, SameQueued, Queued
      <4>3. Placed(rules', head_table, sent, dropped, arrived, TRUE)
        BY Zenon, <1>2, <1>11, <4>2, SameWhereabouts
      <4>4. dropped' = dropped
        BY Zenon, <2>1, <3>1
      <4> QED
        BY Zenon, <1>1, <2>1, <4>3, <4>4, PlacesNext
    <3>2. CASE p # NoPacket
      <4>1. /\ p \in Packet
            /\ q.queues[p.flow] # <<>>
            /\ p = Head(q.queues[p.flow])
            /\ z.queues = [q.queues EXCEPT ![p.flow] = Tail(@)]
        BY Zenon, <1>5, <1>9, <2>2, <3>2
      <4>2. LessQueued(rules, rules', p, tr)
        BY Zenon, <1>3, <1>10, <1>12, <4>1, QueuesShrink DEF q
      <4>3. Placed(rules', head_table, sent, dropped \cup {p.id}, arrived, TRUE)
        BY Zenon, <1>2, <1>3, <1>11, <4>1, <4>2, TakenLost
      <4>4. dropped' = dropped \cup {p.id}
        BY Zenon, <2>1, <3>2
      <4> QED
        BY Zenon, <1>1, <2>1, <4>3, <4>4, PlacesNext
    <3> QED
      BY <3>1, <3>2
  <2> QED
    BY <2>3, <2>4, <2>5 DEF IInv
<1>14. o.packet # NoPacket => o.packet \in Packet
  BY Zenon, <1>2, <1>3, <1>5 DEF HeadTable
<1>15. CASE o.packet # NoPacket /\ cost <= o.queue.deficit
  <2> DEFINE e == [packet |-> o.packet, rule |-> tr]
  <2>1. /\ head_table' = [head_table EXCEPT ![tr] = NoPacket]
        /\ active_list' = IF o.queue.size > 0 THEN active_list ELSE Tail(active_list)
        /\ sent' = Append(sent, e)
        /\ UNCHANGED <<dropped, stranded>>
    BY <1>4, <1>15 DEF Transmit
  <2>2. StateInv'
    <3>1. e \in SentPacket
      BY Zenon, <1>3, <1>14, <1>15 DEF SentPacket
    <3>2. sent' \in Seq(SentPacket)
      BY Zenon, <1>2, <2>1, <3>1, AppendFacts
    <3>3. head_table' \in HeadTable /\ active_list' \in Seq(TrafficRule)
      BY Zenon, <1>2, <1>3, <2>1 DEF HeadTable
    <3>4. TypeOK'
      BY Zenon, <1>1, <1>10, <1>12, <2>1, <3>2, <3>3 DEF TypeOK, RuleTable,
         HeadTable, SentPacket
    <3> QED
      BY <1>1, <1>10, <3>4 DEF StateInv
  <2>3. \A t \in TrafficRule : head_table'[t] = IF t = tr THEN NoPacket ELSE head_table[t]
    BY Zenon, <1>2, <2>1 DEF HeadTable
  <2>4. SchedInv'
    <3>1. WaitsAfter(tr) => Contains(active_list', tr)
      <4>1. rules'[tr].size = o.queue.size /\ head_table'[tr] = NoPacket
        BY Zenon, <1>3, <1>9, <1>10, <2>3
      <4> QED
        BY Zenon, <1>3, <2>1, <4>1 DEF WaitsAfter
    <3>2. \A t \in TrafficRule : t # tr =>
            /\ rules'[t] = rules[t]
            /\ head_table'[t] = head_table[t]
            /\ t \in stranded' <=> t \in stranded
            /\ Contains(active_list, t) => Contains(active_list', t)
      BY Zenon, <1>3, <1>10, <2>1, <2>3
    <3> QED
      BY ZenonT(30), <1>1, <1>3, <1>8, <1>9, <1>10, <3>1, <3>2, SchedStep
  <2>5. PlaceInv'
    <3>1. CASE head_table[tr] # NoPacket
      <4>1. z.queues = rules[tr].queues /\ o.packet = head_table[tr]
        <5>1. o.queue = q /\ o.packet = head_table[tr]
          BY Zenon, <1>5, <3>1
        <5> QED
          BY Zenon, <1>9, <5>1 DEF q
      <4>2. SameQueued(rules, rules')
        BY Zenon, <1>3, <1>10, <1>12, <4>1 DEF q, SameQueued, Queued
      <4>3. Placed(rules', [head_table EXCEPT ![tr] = NoPacket],
                   Append(sent, [packet |-> head_table[tr], rule |-> tr]),
                   dropped, arrived, TRUE)
        BY Zenon, <1>2, <1>3, <1>11, <3>1, <4>2, HeldSent
      <4> QED
        BY Zenon, <1>1, <2>1, <4>1, <4>3, PlacesNext
    <3>2. CASE head_table[tr] = NoPacket
      <4>1. /\ p \in Packet
            /\ o.packet = p
            /\ q.queues[p.flow] # <<>>
            /\ p = Head(q.queues[p.flow])
            /\ z.queues = [q.queues EXCEPT ![p.flow] = Tail(@)]
        BY Zenon, <1>5, <1>9, <1>15, <3>2
      <4>2. LessQueued(rules, rules', p, tr)
        BY Zenon, <1>3, <1>10, <1>12, <4>1, QueuesShrink DEF q
      <4>3. Placed(rules', head_table, Append(sent, [packet |-> p, rule |-> tr]),
                   dropped, arrived, TRUE)
        BY Zenon, <1>2, <1>3, <1>11, <3>2, <4>1, <4>2, TakenSent
      <4>4. head_table' = head_table
        BY Zenon, <1>2, <1>3, <2>1, <3>2 DEF HeadTable
      <4> QED
        BY Zenon, <1>1, <2>1, <4>1, <4>3, <4>4, PlacesNext
    <3> QED
      BY <3>1, <3>2
  <2> QED
    BY <2>2, <2>4, <2>5 DEF IInv
<1>16. CASE o.packet # NoPacket /\ ~ (cost <= o.queue.deficit)
  <2>1. /\ head_table' = [head_table EXCEPT ![tr] = o.packet]
        /\ active_list' = Append(Tail(active_list), tr)
        /\ UNCHANGED <<dropped, stranded, sent>>
    BY <1>4, <1>16 DEF Hold
  <2>2. /\ active_list' \in Seq(TrafficRule)
        /\ \A t : Contains(active_list', t) <=> Contains(Tail(active_list), t) \/ t = tr
    BY Zenon, <1>3, <2>1, AppendFacts, ContainsAppend
  <2>3. StateInv'
    <3>1. head_table' \in HeadTable
      BY Zenon, <1>2, <1>3, <1>14, <1>16, <2>1 DEF HeadTable
    <3>2. TypeOK'
      BY ZenonT(30), <1>1, <1>10, <1>12, <2>1, <2>2, <3>1 DEF TypeOK, RuleTable, HeadTable
    <3> QED
      BY <1>1, <1>10, <3>2 DEF StateInv
  <2>4. SchedInv'
    <3>1. WaitsAfter(tr) => Contains(active_list', tr)
      BY <2>2
    <3>2. \A t \in TrafficRule : t # tr =>
            /\ rules'[t] = rules[t]
            /\ head_table'[t] = head_table[t]
            /\ t \in stranded' <=> t \in stranded
            /\ Contains(active_list, t) => Contains(active_list', t)
      BY Zenon, <1>2, <1>3, <1>10, <2>1, <2>2 DEF HeadTable
    <3> QED
      BY <1>1, <1>3, <1>8, <1>9, <1>10, <3>1, <3>2, SchedStep
  <2>5. PlaceInv'
    <3>1. CASE head_table[tr] # NoPacket
      <4>1. z.queues = rules[tr].queues /\ head_table' = head_table
        <5>1. o.queue = q /\ o.packet = head_table[tr]
          BY <1>5, <3>1
        <5>2. head_table' = head_table
          BY Zenon, <1>2, <1>3, <2>1, <5>1 DEF HeadTable
        <5> QED
          BY ZenonT(30), <1>9, <5>1, <5>2 DEF q
      <4>2. SameQueued(rules, rules')
        BY Zenon, <1>3, <1>10, <1>12, <4>1 DEF q, SameQueued, Queued
      <4>3. Placed(rules', head_table, sent, dropped, arrived, TRUE)
        BY Zenon, <1>2, <1>11, <4>2, SameWhereabouts
      <4> QED
        BY Zenon, <1>1, <2>1, <4>1, <4>3, PlacesNext
    <3>2. CASE head_table[tr] = NoPacket
      <4>1. /\ p \in Packet
            /\ o.packet = p
            /\ q.queues[p.flow] # <<>>
            /\ p = Head(q.queues[p.flow])
            /\ z.queues = [q.queues EXCEPT ![p.flow] = Tail(@)]
        BY Zenon, <1>5, <1>9, <1>16, <3>2
      <4>2. LessQueued(rules, rules', p, tr)
        BY Zenon, <1>3, <1>10, <1>12, <4>1, QueuesShrink DEF q
      <4>3. Placed(rules', [head_table EXCEPT ![tr] = p], sent, dropped, arrived, TRUE)
        BY Zenon, <1>2, <1>3, <1>11, <3>2, <4>1, <4>2, TakenHeld
      <4> QED
        BY Zenon, <1>1, <2>1, <4>1, <4>3, PlacesNext
    <3> QED
      BY <3>1, <3>2
  <2> QED
    BY <2>3, <2>4, <2>5 DEF IInv
<1> QED
  BY Zenon, <1>13, <1>15, <1>16

LEMMA PullStep ==
  ASSUME IInv, pull
  PROVE  IInv'
<1>1. CASE pull_empty
  BY <1>1, PullEmptyStep
<1>2. CASE pull_rule
  BY <1>2, ServeStep
<1>3. CASE pull_crash
  <2>1. /\ agent = "up" /\ agent' = "segv"
        /\ UNCHANGED <<rules, active_list, head_table, sleepiness, asleep,
                       arrived, dropped, stranded, sent>>
    BY Zenon, <1>3 DEF pull_crash, Crash
  <2>2. StateInv'
    BY Zenon, <2>1 DEF IInv, StateInv, TypeOK
  <2>3. SchedInv'
    BY Zenon, <2>1, SchedSame DEF IInv
  <2>4. PlaceInv'
    BY Zenon, <2>1 DEF IInv, PlaceInv, Placed, Accounted
  <2> QED
    BY <2>2, <2>3, <2>4 DEF IInv
<1> QED
  BY <1>1, <1>2, <1>3 DEF pull

\* A new rule has nothing queued and forgets what was held.
LEMMA SetRuleStep ==
  ASSUME IInv, NEW tr \in TrafficRule, NEW quantum \in Quanta,
         set_traffic_rule(tr, quantum)
  PROVE  IInv'
<1> DEFINE z == NewQueue(quantum)
           held == {head_table[tr]} \ {NoPacket}
<1>1. /\ StateInv /\ SchedInv /\ PlaceInv
      /\ agent = "up"
      /\ rules[tr] = NoRule
      /\ rules' = [rules EXCEPT ![tr] = z]
      /\ head_table' = [head_table EXCEPT ![tr] = NoPacket]
      /\ active_list' = Append(active_list, tr)
      /\ dropped' = dropped \cup {p.id : p \in held}
      /\ stranded' = stranded \ {tr}
      /\ UNCHANGED <<sleepiness, asleep, agent, arrived, sent>>
  BY Zenon DEF IInv, set_traffic_rule
<1>2. /\ rules \in RuleTable
      /\ \A t \in TrafficRule : rules[t] # NoRule => QueueInv(rules[t])
      /\ head_table \in HeadTable
      /\ active_list \in Seq(TrafficRule)
      /\ sent \in Seq(SentPacket)
      /\ TypeOK
  BY Zenon, <1>1, StateTypes DEF StateInv
<1>3. /\ QueueInv(z)
      /\ z.queues = [f \in Flows |-> <<>>]
      /\ z.size = 0
      /\ z.deficit = 0
  BY Zenon, NewQueueInv, QosAssumption
<1> HIDE DEF z
<1>4. /\ rules' \in RuleTable
      /\ z # NoRule
      /\ \A t \in TrafficRule : rules'[t] = IF t = tr THEN z ELSE rules[t]
      /\ \A t \in TrafficRule : rules'[t] # NoRule => QueueInv(rules'[t])
  <2> DEFINE R2 == [rules EXCEPT ![tr] = z]
  <2>1. /\ R2 \in RuleTable
        /\ z # NoRule
        /\ \A t \in TrafficRule : R2[t] = IF t = tr THEN z ELSE rules[t]
        /\ \A t \in TrafficRule : R2[t] # NoRule => QueueInv(R2[t])
    BY Zenon, <1>2, <1>3, RuleUpdated
  <2>2. rules' = R2
    BY Zenon, <1>1
  <2> HIDE DEF R2
  <2> QED
    BY Zenon, <2>1, <2>2
<1>5. /\ active_list' \in Seq(TrafficRule)
      /\ \A t : Contains(active_list', t) <=> Contains(active_list, t) \/ t = tr
  BY Zenon, <1>1, <1>2, AppendFacts, ContainsAppend
<1>6. /\ head_table' \in HeadTable
      /\ \A t \in TrafficRule : head_table'[t] = IF t = tr THEN NoPacket ELSE head_table[t]
  BY Zenon, <1>1, <1>2 DEF HeadTable
<1>7. StateInv'
  <2>1. held \subseteq Packet
    BY Zenon, <1>2 DEF HeadTable
  <2>2. {p.id : p \in held} \subseteq 1..MaxPackets
    BY Zenon, <2>1 DEF Packet
  <2>3. dropped' \subseteq 1..MaxPackets /\ stranded' \subseteq TrafficRule
    BY Zenon, <1>1, <1>2, <2>2 DEF TypeOK
  <2>4. TypeOK'
    BY Zenon, <1>1, <1>2, <1>4, <1>5, <1>6, <2>3 DEF TypeOK, RuleTable, HeadTable
  <2> QED
    BY Zenon, <1>1, <1>4, <2>4 DEF StateInv
<1>8. SchedInv'
  <2>1. ~ WaitsAfter(tr)
    BY <1>3, <1>4, <1>6 DEF WaitsAfter
  <2>2. \A t \in TrafficRule : t # tr =>
          /\ rules'[t] = rules[t]
          /\ head_table'[t] = head_table[t]
          /\ t \in stranded' <=> t \in stranded
          /\ Contains(active_list, t) => Contains(active_list', t)
    BY ZenonT(30), <1>1, <1>4, <1>5, <1>6
  <2>3. \E cost \in Costs : z.deficit < cost + z.quantum
    <3>1. z.quantum \in Nat \ {0}
      BY Zenon, <1>3 DEF QueueInv, TrafficRuleQueue
    <3>2. PICK cost \in Costs : cost \in Nat
      BY Zenon, QosAssumption
    <3> QED
      BY <1>3, <3>1, <3>2
  <2>4. asleep' => asleep
    BY Zenon, <1>1
  <2> QED
    BY ZenonT(30), <1>1, <1>4, <2>1, <2>2, <2>3, <2>4, SchedStep
<1>9. PlaceInv'
  <2>1. \A i, g : g \in Flows => ~ HasId(z.queues[g], i)
    BY <1>3, EmptyFacts DEF HasId
  <2>2. SameQueued(rules, rules')
    BY Zenon, <1>1, <1>4, <2>1 DEF SameQueued, Queued
  <2>3. Placed(rules', [head_table EXCEPT ![tr] = NoPacket], sent,
               dropped \cup {p.id : p \in {head_table[tr]} \ {NoPacket}},
               arrived, TRUE)
    BY Zenon, <1>1, <1>2, <2>2, PlacesNow, HeldForgotten
  <2> QED
    BY Zenon, <1>1, <2>3, PlacesNext
<1> QED
  BY <1>7, <1>8, <1>9 DEF IInv

\* A deleted rule takes its packets with it.
LEMMA DelRuleStep ==
  ASSUME IInv, NEW tr \in Deletable, del_traffic_rule(tr)
  PROVE  IInv'
<1> DEFINE lost == {p.id : p \in UNION {Range(rules[tr].queues[f]) : f \in Flows}}
<1>1. /\ StateInv /\ SchedInv /\ PlaceInv
      /\ agent = "up"
      /\ rules[tr] # NoRule
      /\ rules' = [rules EXCEPT ![tr] = NoRule]
      /\ dropped' = dropped \cup lost
      /\ UNCHANGED <<active_list, head_table, sleepiness, asleep, agent,
                     arrived, stranded, sent>>
  BY Zenon DEF IInv, del_traffic_rule
<1>2. /\ rules \in RuleTable
      /\ \A t \in TrafficRule : rules[t] # NoRule => QueueInv(rules[t])
      /\ head_table \in HeadTable
      /\ sent \in Seq(SentPacket)
      /\ TypeOK
  BY Zenon, <1>1, StateTypes DEF StateInv
<1>3. tr \in TrafficRule
  BY Zenon, QosAssumption
<1>4. /\ rules' \in RuleTable
      /\ \A t \in TrafficRule : rules'[t] = IF t = tr THEN NoRule ELSE rules[t]
  BY Zenon, <1>1, <1>2 DEF RuleTable
<1>5. \A f \in Flows : rules[tr].queues[f] \in Seq(Packet)
  BY Zenon, <1>1, <1>2, <1>3 DEF QueueInv, TrafficRuleQueue
<1>6. \A f \in Flows : Range(rules[tr].queues[f])
        = {rules[tr].queues[f][k] : k \in 1..Len(rules[tr].queues[f])}
  BY Zenon, <1>5, LenFacts DEF Range
<1>7. \A i : i \in lost <=> \E f \in Flows : Queued(rules, i, tr, f)
  <2>1. ASSUME NEW i \in lost PROVE \E f \in Flows : Queued(rules, i, tr, f)
    <3>1. PICK f \in Flows : \E p \in Range(rules[tr].queues[f]) : p.id = i
      BY Zenon
    <3>2. PICK p \in Range(rules[tr].queues[f]) : p.id = i
      BY Zenon, <3>1
    <3>3. PICK k \in 1..Len(rules[tr].queues[f]) : p = rules[tr].queues[f][k]
      BY Zenon, <1>6
    <3> QED
      BY Zenon, <1>1, <3>2, <3>3 DEF Queued, HasId
  <2>2. ASSUME NEW i, NEW f \in Flows, Queued(rules, i, tr, f) PROVE i \in lost
    <3>1. PICK k \in 1..Len(rules[tr].queues[f]) : rules[tr].queues[f][k].id = i
      BY Zenon, <2>2 DEF Queued, HasId
    <3>2. rules[tr].queues[f][k] \in Range(rules[tr].queues[f])
      BY Zenon, <1>6
    <3> QED
      BY Zenon, <3>1, <3>2
  <2> QED
    BY Zenon, <2>1, <2>2
<1>8. lost \subseteq 1..MaxPackets
  <2>1. \A f \in Flows : Range(rules[tr].queues[f]) \subseteq Packet
    BY <1>5, LenFacts DEF Range
  <2> QED
    BY <2>1 DEF Packet
<1> HIDE DEF lost
<1>9. StateInv'
  <2>1. TypeOK'
    BY Zenon, <1>1, <1>2, <1>4, <1>8 DEF TypeOK, RuleTable
  <2> QED
    BY Zenon, <1>1, <1>2, <1>4, <2>1 DEF StateInv
<1>10. SchedInv'
  <2>1. ~ WaitsAfter(tr) /\ ~ (rules'[tr] # NoRule)
    BY Zenon, <1>3, <1>4 DEF WaitsAfter
  <2>2. \A t \in TrafficRule : t # tr =>
          /\ rules'[t] = rules[t]
          /\ head_table'[t] = head_table[t]
          /\ t \in stranded' <=> t \in stranded
          /\ Contains(active_list, t) => Contains(active_list', t)
    BY Zenon, <1>1, <1>4
  <2>3. asleep' => asleep
    BY Zenon, <1>1
  <2> QED
    BY Zenon, <1>1, <1>3, <2>1, <2>2, <2>3, SchedStep
<1>11. PlaceInv'
  <2>1. RuleGone(rules, rules', dropped, dropped', tr)
    <3>1. \A i : \A t \in TrafficRule : \A g \in Flows :
            Queued(rules', i, t, g) <=> Queued(rules, i, t, g) /\ t # tr
      BY Zenon, <1>4 DEF Queued
    <3>2. \A i : i \in dropped' <=>
                   i \in dropped \/ \E g \in Flows : Queued(rules, i, tr, g)
      BY Zenon, <1>1, <1>7
    <3> QED
      BY Zenon, <3>1, <3>2 DEF RuleGone
  <2>3. Placed(rules, head_table, sent, dropped, arrived, TRUE)
    BY Zenon, <1>1, PlacesNow
  <2>4. Placed(rules', head_table, sent, dropped', arrived, TRUE)
    BY Zenon, <1>2, <1>3, <2>1, <2>3, RuleDropped
  <2> QED
    BY Zenon, <1>1, <2>4, PlacesNext
<1> QED
  BY <1>9, <1>10, <1>11 DEF IInv

-----------------------------------------------------------------------------
(***************************************************************************)
(* The theorems.                                                           *)
(***************************************************************************)

LEMMA InitInv == Init => IInv
<1> SUFFICES ASSUME Init PROVE IInv
  OBVIOUS
<1>1. /\ rules = [tr \in TrafficRule |-> NoRule]
      /\ head_table = [tr \in TrafficRule |-> NoPacket]
      /\ active_list = <<>> /\ sleepiness = 0 /\ asleep = FALSE /\ agent = "up"
      /\ arrived = 0 /\ dropped = {} /\ stranded = {} /\ sent = <<>>
  BY DEF Init
<1>2. StateInv
  <2>1. active_list \in Seq(TrafficRule) /\ sent \in Seq([packet: Packet, rule: TrafficRule])
    BY <1>1, EmptyFacts
  <2>2. sleepiness \in 0..SLEEPINESS_TRIGGER /\ sleepiness < SLEEPINESS_TRIGGER
        /\ arrived \in 0..MaxPackets
    BY <1>1, QosAssumption
  <2>3. TypeOK
    BY Zenon, <1>1, <2>1, <2>2 DEF TypeOK
  <2> QED
    BY <1>1, <2>2, <2>3 DEF StateInv
<1>3. SchedInv
  BY Zenon, <1>1 DEF SchedInv, NoRuleForgotten, NoLostWakeup, DeficitBounded, Known
<1>4. Len(sent) = 0
  BY <1>1, EmptyFacts
<1>5. \A i : ~ Seen(rules, head_table, sent, dropped, i)
  BY <1>1, <1>4 DEF Seen, Queued, Held, Left
<1>6. Accounted(rules, head_table, sent, dropped, arrived, agent = "up")
  BY <1>1, <1>5 DEF Accounted, Ids
<1>7. Once(rules, head_table, sent, dropped)
  BY SMTT(30), <1>4, <1>5 DEF Once, Seen
<1>8. Ordered(rules, head_table, sent)
  BY <1>1, <1>4 DEF Ordered, Queued
<1> QED
  BY Zenon, <1>2, <1>3, <1>6, <1>7, <1>8 DEF IInv, PlaceInv, Placed

LEMMA StepInv == IInv /\ [Next]_vars => IInv'
<1> SUFFICES ASSUME IInv, [Next]_vars PROVE IInv'
  OBVIOUS
<1>1. ASSUME NEW ssid \in Ssids, NEW dscp \in Dscps, NEW f \in Flows,
             store(ssid, dscp, f)
      PROVE  IInv'
  BY <1>1, StoreStep
<1>2. CASE pull
  BY <1>2, PullStep
<1>3. ASSUME NEW tr \in TrafficRule, NEW quantum \in Quanta,
             set_traffic_rule(tr, quantum)
      PROVE  IInv'
  BY <1>3, SetRuleStep
<1>4. ASSUME NEW tr \in Deletable, del_traffic_rule(tr) PROVE IInv'
  BY <1>4, DelRuleStep
<1>5. CASE UNCHANGED vars
  <2>1. StateInv'
    BY Zenon, <1>5 DEF IInv, StateInv, TypeOK, vars
  <2>2. SchedInv'
    BY Zenon, <1>5, SchedSame DEF IInv, vars
  <2>3. PlaceInv'
    BY Zenon, <1>5 DEF IInv, PlaceInv, vars
  <2> QED
    BY <2>1, <2>2, <2>3 DEF IInv
<1> QED
  BY Zenon, <1>1, <1>2, <1>3, <1>4, <1>5 DEF Next

\* Every state of the scheduler satisfies the inductive invariant.
THEOREM Invariance == Spec => []IInv
<1>1. Init => IInv
  BY InitInv
<1>2. IInv /\ [Next]_vars => IInv'
  BY StepInv
<1> QED
  BY <1>1, <1>2, PTL DEF Spec

\* A rule with a packet queued or held is in the active list, unless a failed
\* encapsulation took it out: store and pull never leave one behind.
THEOREM NoRuleLeftBehind == Spec => []NoRuleForgotten
<1>1. IInv => NoRuleForgotten
  BY DEF IInv, SchedInv
<1> QED
  BY <1>1, Invariance, PTL

\* The notifier is on while a packet waits that pull would find.
THEOREM WakeupNeverLost == Spec => []NoLostWakeup
<1>1. IInv => NoLostWakeup
  BY DEF IInv, SchedInv
<1> QED
  BY <1>1, Invariance, PTL

\* A rule's deficit is less than the dearest packet and one quantum.
THEOREM DeficitsStayBounded == Spec => []DeficitBounded
<1>1. IInv => DeficitBounded
  BY DEF IInv, SchedInv
<1> QED
  BY <1>1, Invariance, PTL

\* _size counts the packets of the aggregation queues and the inner list has
\* every queue with packets once: dequeue never misses a packet.
THEOREM InnerListsStayExact == Spec => []InnerListExact
<1>1. IInv => InnerListExact
  BY Zenon DEF IInv, StateInv, InnerListExact, Known, QueueInv, Listed
<1> QED
  BY <1>1, Invariance, PTL

\* Packets of one flow under one rule are sent in the order they arrived,
\* though one is held back while others arrive and the rule is deleted and
\* created again.
THEOREM FlowsStayInOrder == Spec => []FlowOrderKept
<1>1. ASSUME IInv PROVE FlowOrderKept
  <2>1. DOMAIN sent = 1..Len(sent)
    BY <1>1, StateTypes, LenFacts DEF IInv
  <2> QED
    BY Zenon, <1>1, <2>1 DEF IInv, PlaceInv, Placed, Ordered, FlowOrderKept
<1> QED
  BY <1>1, Invariance, PTL

\* The waiting places of a packet, as the invariant speaks of them.
LEMMA WaitingPlaces ==
  ASSUME StateInv, NEW i
  PROVE  \A w : w \in Waiting(i) <=>
            \/ \E tr \in TrafficRule, f \in Flows :
                 /\ rules[tr] # NoRule
                 /\ \E k \in 1..Len(rules[tr].queues[f]) :
                      rules[tr].queues[f][k].id = i /\ w = <<tr, f, k>>
            \/ \E tr \in TrafficRule :
                 Held(head_table, i, tr) /\ w = <<tr, head_table[tr].flow, 0>>
<1>1. \A w : w \in Waiting(i) <=> w \in Stored(i) \/ w \in HeldAt(i)
  BY DEF Waiting
<1>2. \A tr \in TrafficRule : rules[tr] # NoRule =>
        \A f \in Flows : DOMAIN rules[tr].queues[f] = 1..Len(rules[tr].queues[f])
  <2> SUFFICES ASSUME NEW tr \in TrafficRule, rules[tr] # NoRule, NEW f \in Flows
               PROVE  DOMAIN rules[tr].queues[f] = 1..Len(rules[tr].queues[f])
    BY Zenon
  <2>1. rules[tr].queues[f] \in Seq(Packet)
    BY Zenon DEF StateInv, QueueInv, TrafficRuleQueue
  <2> QED
    BY Zenon, <2>1, LenFacts
<1>3. \A tr \in TrafficRule, f \in Flows : rules[tr] # NoRule =>
        \A w : w \in StoredAt(tr, f, i) <=>
          \E k \in 1..Len(rules[tr].queues[f]) :
            rules[tr].queues[f][k].id = i /\ w = <<tr, f, k>>
  <2> SUFFICES ASSUME NEW tr \in TrafficRule, NEW f \in Flows, rules[tr] # NoRule
               PROVE  \A w : w \in StoredAt(tr, f, i) <=>
                        \E k \in 1..Len(rules[tr].queues[f]) :
                          rules[tr].queues[f][k].id = i /\ w = <<tr, f, k>>
    BY Zenon
  <2>1. DOMAIN rules[tr].queues[f] = 1..Len(rules[tr].queues[f])
    BY Zenon, <1>2
  <2> QED
    BY Zenon, <2>1 DEF StoredAt
<1>4. \A w : w \in HeldAt(i) <=>
        \E tr \in TrafficRule :
          Held(head_table, i, tr) /\ w = <<tr, head_table[tr].flow, 0>>
  BY Zenon DEF Held, HeldAt
<1>5. \A w : w \in Stored(i) <=>
        \E tr \in TrafficRule, f \in Flows : rules[tr] # NoRule /\ w \in StoredAt(tr, f, i)
  BY SMTT(30) DEF Known, Stored
<1>6. \A w : w \in Stored(i) <=>
        \E tr \in TrafficRule, f \in Flows :
          /\ rules[tr] # NoRule
          /\ \E k \in 1..Len(rules[tr].queues[f]) :
               rules[tr].queues[f][k].id = i /\ w = <<tr, f, k>>
  BY <1>3, <1>5
<1> QED
  BY Zenon, <1>1, <1>4, <1>6

\* What the invariant says of one packet, as a set of places.
LEMMA OnePlace ==
  ASSUME IInv, agent = "up", NEW i \in 1..arrived
  PROVE  \E w \in Whereabouts(i) : Whereabouts(i) = {w}
<1>1. /\ StateInv /\ TypeOK /\ i \in Ids /\ i <= arrived
      /\ Accounted(rules, head_table, sent, dropped, arrived, TRUE)
      /\ Once(rules, head_table, sent, dropped)
  <2>1. arrived \in 0..MaxPackets /\ MaxPackets \in Nat
    BY Zenon, QosAssumption DEF IInv, StateInv, TypeOK
  <2>2. i \in Ids /\ i <= arrived
    BY <2>1 DEF Ids
  <2> QED
    BY Zenon, <2>2 DEF IInv, StateInv, PlaceInv, Placed, Accounted
<1>2. Seen(rules, head_table, sent, dropped, i)
  BY Zenon, <1>1 DEF Accounted
<1>3. DOMAIN sent = 1..Len(sent)
  BY Zenon, <1>1, StateTypes, LenFacts
<1>4. SentAt(i) = {n \in 1..Len(sent) : sent[n].packet.id = i}
  BY Zenon, <1>3 DEF SentAt
<1>5. ~ Left(sent, i) => SentAt(i) = {}
  BY Zenon, <1>4 DEF Left
<1>6. Left(sent, i) => \E n : SentAt(i) = {n}
  <2> SUFFICES ASSUME NEW n \in 1..Len(sent), sent[n].packet.id = i
               PROVE  SentAt(i) = {n}
    BY Zenon DEF Left
  <2> QED
    BY Zenon, <1>1, <1>4 DEF Once
<1>7. (i \in dropped => dropped \cap {i} = {i}) /\ (i \notin dropped => dropped \cap {i} = {})
  OBVIOUS
<1>8. (/\ \A tr \in TrafficRule, f \in Flows : ~ Queued(rules, i, tr, f)
       /\ \A tr \in TrafficRule : ~ Held(head_table, i, tr))
      => Waiting(i) = {}
  <2> SUFFICES ASSUME \A tr \in TrafficRule, f \in Flows : ~ Queued(rules, i, tr, f),
                      \A tr \in TrafficRule : ~ Held(head_table, i, tr),
                      NEW w \in Waiting(i)
               PROVE  FALSE
    BY Zenon
  <2>1. ASSUME NEW tr \in TrafficRule, NEW f \in Flows, rules[tr] # NoRule,
               NEW k \in 1..Len(rules[tr].queues[f]), rules[tr].queues[f][k].id = i
        PROVE  FALSE
    BY Zenon, <2>1 DEF Queued, HasId
  <2> QED
    BY Zenon, <1>1, <2>1, WaitingPlaces
<1>9. ASSUME NEW tr \in TrafficRule, NEW f \in Flows, Queued(rules, i, tr, f)
      PROVE  \E w : Waiting(i) = {w}
  <2>1. PICK k \in 1..Len(rules[tr].queues[f]) : rules[tr].queues[f][k].id = i
    BY Zenon, <1>9 DEF Queued, HasId
  <2>2. <<tr, f, k>> \in Waiting(i)
    BY Zenon, <1>1, <1>9, <2>1, WaitingPlaces DEF Queued
  <2>3. ASSUME NEW j \in 1..Len(rules[tr].queues[f]), rules[tr].queues[f][j].id = i
        PROVE  j = k
    <3>1. Sorted(rules[tr]) /\ rules[tr].queues[f] \in Seq(Packet)
      BY Zenon, <1>1, <1>9 DEF StateInv, QueueInv, Queued, TrafficRuleQueue
    <3>2. j \in Nat /\ k \in Nat
      BY SMTT(30), <3>1, LenFacts
    <3>3. ~ (j < k) /\ ~ (k < j)
      BY <1>1, <2>1, <2>3, <3>1 DEF Sorted, Ids
    <3> QED
      BY <3>2, <3>3
  <2>4. ASSUME NEW w \in Waiting(i) PROVE w = <<tr, f, k>>
    <3>1. \A g \in TrafficRule : ~ Held(head_table, i, g)
      BY Zenon, <1>1, <1>9 DEF Once
    <3>2. PICK g \in TrafficRule, e \in Flows :
            /\ rules[g] # NoRule
            /\ \E j \in 1..Len(rules[g].queues[e]) :
                 rules[g].queues[e][j].id = i /\ w = <<g, e, j>>
      BY ZenonT(30), <1>1, <2>4, <3>1, WaitingPlaces
    <3>3. g = tr /\ e = f
      <4>1. Queued(rules, i, g, e)
        BY Zenon, <3>2 DEF Queued, HasId
      <4> QED
        BY Zenon, <1>1, <1>9, <4>1 DEF Once
    <3> QED
      BY Zenon, <2>3, <3>2, <3>3
  <2> QED
    BY Zenon, <2>2, <2>4
<1>10. ASSUME NEW tr \in TrafficRule, Held(head_table, i, tr)
       PROVE  \E w : Waiting(i) = {w}
  <2> DEFINE v == <<tr, head_table[tr].flow, 0>>
  <2>1. v \in Waiting(i)
    BY Zenon, <1>1, <1>10, WaitingPlaces
  <2>2. ASSUME NEW w \in Waiting(i) PROVE w = v
    <3>1. \A g \in TrafficRule, f \in Flows : ~ Queued(rules, i, g, f)
      BY Zenon, <1>1, <1>10 DEF Once
    <3>2. PICK g \in TrafficRule :
            Held(head_table, i, g) /\ w = <<g, head_table[g].flow, 0>>
      BY ZenonT(30), <1>1, <2>2, <3>1, WaitingPlaces DEF Queued, HasId
    <3>3. g = tr
      BY Zenon, <1>1, <1>10, <3>2 DEF Once
    <3> QED
      BY Zenon, <3>2, <3>3
  <2> HIDE DEF v
  <2> QED
    BY Zenon, <2>1, <2>2
<1>12. CASE \E tr \in TrafficRule, f \in Flows : Queued(rules, i, tr, f)
  <2>1. ~ Left(sent, i) /\ i \notin dropped
    BY Zenon, <1>1, <1>12 DEF Once
  <2>2. PICK w : Waiting(i) = {w}
    BY Zenon, <1>9, <1>12
  <2>3. Whereabouts(i) = {<<"waiting", w>>}
    BY <1>5, <1>7, <2>1, <2>2 DEF Whereabouts
  <2> QED
    BY <2>3
<1>13. CASE \E tr \in TrafficRule : Held(head_table, i, tr)
  <2>1. ~ Left(sent, i) /\ i \notin dropped
    BY Zenon, <1>1, <1>13 DEF Once
  <2>2. PICK w : Waiting(i) = {w}
    BY Zenon, <1>10, <1>13
  <2>3. Whereabouts(i) = {<<"waiting", w>>}
    BY <1>5, <1>7, <2>1, <2>2 DEF Whereabouts
  <2> QED
    BY <2>3
<1>14. CASE /\ \A tr \in TrafficRule, f \in Flows : ~ Queued(rules, i, tr, f)
            /\ \A tr \in TrafficRule : ~ Held(head_table, i, tr)
  <2>1. Waiting(i) = {}
    BY Zenon, <1>8, <1>14
  <2>2. CASE Left(sent, i)
    <3>1. i \notin dropped
      BY Zenon, <1>1, <2>2 DEF Once
    <3>2. PICK n : SentAt(i) = {n}
      BY Zenon, <1>6, <2>2
    <3>3. Whereabouts(i) = {<<"sent", n>>}
      BY <1>7, <2>1, <3>1, <3>2 DEF Whereabouts
    <3> QED
      BY <3>3
  <2>3. CASE ~ Left(sent, i)
    <3>1. i \in dropped
      BY Zenon, <1>2, <1>14, <2>3 DEF Seen
    <3>2. Whereabouts(i) = {<<"dropped", i>>}
      BY <1>5, <1>7, <2>1, <2>3, <3>1 DEF Whereabouts
    <3> QED
      BY <3>2
  <2> QED
    BY Zenon, <2>2, <2>3
<1> QED
  BY Zenon, <1>12, <1>13, <1>14

\* Every packet that arrived is in one place: queued once, held once, sent
\* once, or dropped, whatever store, pull and the controller's messages did.
THEOREM PacketsNeverLost == Spec => []PacketsConserved
<1>1. IInv => PacketsConserved
  BY OnePlace DEF PacketsConserved
<1> QED
  BY <1>1, Invariance, PTL
=============================================================================

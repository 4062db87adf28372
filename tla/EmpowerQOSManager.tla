-------------------------- MODULE EmpowerQOSManager --------------------------
(***************************************************************************)
(* The downlink scheduler of one interface: a deficit round robin over the *)
(* traffic rules (tenant, DSCP), each with a round robin over its          *)
(* aggregation queues, one per (receiver, transmitter) pair.               *)
(*                                                                         *)
(* Data: a packet is its arrival number and its address pair (flow); its   *)
(* air time is chosen anew at every estimate, because the rate may have    *)
(* changed since.  An aggregation queue is its sequence of packets (module *)
(* AggregationQueue shows that the ring buffer is one).  Queues are        *)
(* created on first use; an empty one and an absent one behave alike, so a *)
(* rule has one for every flow.  Statistics are left out.                  *)
(***************************************************************************)
EXTENDS Lists, Functions

CONSTANTS
  Ssids,               \* tenants
  Dscps,               \* DSCP classes, 0 among them
  Flows,               \* (ra, ta) pairs
  Quanta,              \* quanta a rule may be created with; 0 is the default
  DefaultQuantum,      \* the quantum of the configuration
  Costs,               \* air times estimate_usecs_wifi_packet may return
  Capacity,            \* capacity of an aggregation queue
  SLEEPINESS_TRIGGER,  \* empty pulls before the notifier sleeps
  EncapMayFail,        \* whether wifi_encap may run out of packet memory
  Deletable,           \* rules the controller may delete
  NoRule,              \* marks a rule without an entry in _rules
  NoPacket,            \* the null packet
  MaxPackets,          \* bound on arriving packets
  MaxActive            \* bound on the length of _active_list for set_traffic_rule

TrafficRule == Ssids \X Dscps

ASSUME QosAssumption ==
  /\ 0 \in Dscps
  /\ Quanta \subseteq Nat
  /\ DefaultQuantum \in Nat \ {0}
  /\ Costs \subseteq Nat /\ Costs # {}
  /\ Capacity \in Nat \ {0}
  /\ SLEEPINESS_TRIGGER \in Nat \ {0}
  /\ EncapMayFail \in BOOLEAN
  /\ Deletable \subseteq TrafficRule
  /\ MaxPackets \in Nat
  /\ MaxActive \in Nat

VARIABLES
  rules,        \* rules[tr]: the TrafficRuleQueue of tr, or NoRule
  active_list,  \* rules in service order
  head_table,   \* head_table[tr]: the packet taken out but not affordable yet
  sleepiness,   \* empty pulls in a row
  asleep,       \* whether the empty notifier is off
  agent,        \* "up" or "segv"
  arrived,      \* history: number of packets so far
  dropped,      \* history: packets refused by a full queue, lost with a rule
                \* or lost in encapsulation
  stranded,     \* history: rules that left the list after such a loss although
                \* packets remained
  sent          \* history: packets handed down, with their rule

vars == <<rules, active_list, head_table, sleepiness, asleep, agent, arrived,
          dropped, stranded, sent>>

Packet == [id: 1..MaxPackets, flow: Flows]

TrafficRuleQueue ==
  [queues: [Flows -> Seq(Packet)], flow_list: Seq(Flows), size: Nat,
   deficit: Nat, quantum: Nat \ {0}]

ASSUME MarkAssumption ==
  /\ NoPacket \notin Packet
  /\ NoRule \notin TrafficRuleQueue

-----------------------------------------------------------------------------
(***************************************************************************)
(* TrafficRuleQueue.                                                       *)
(***************************************************************************)

NewQueue(quantum) ==
  [queues |-> [f \in Flows |-> <<>>], flow_list |-> <<>>, size |-> 0,
   deficit |-> 0,
   quantum |-> IF quantum = 0 THEN DefaultQuantum ELSE quantum]

IsFull(q, f) == Len(q.queues[f]) = Capacity

\* A flow enters the inner list when it is not in it.
enqueue(q, p) ==
  [q EXCEPT !.queues[p.flow] = Append(@, p),
            !.flow_list = IF Contains(@, p.flow) THEN @
                                                  ELSE Append(@, p.flow)]

\* The first flow of the inner list with a packet.
FirstBacklogged(q) ==
  {k \in 1..Len(q.flow_list) :
     /\ q.queues[q.flow_list[k]] # <<>>
     /\ \A j \in 1..(k - 1) : q.queues[q.flow_list[j]] = <<>>}

\* Mutant: the flow served does not return to the inner list.
ServeDropsFlow(q, k) ==
  LET f == q.flow_list[k] IN
  [packet |-> Head(q.queues[f]),
   queue |-> [q EXCEPT !.queues[f] = Tail(@),
                       !.size = @ - 1,
                       !.flow_list = SubSeq(@, k + 1, Len(@))]]

\* The flows before it fall out of the inner list; it goes to the end.
Served(q, k) ==
  LET f == q.flow_list[k] IN
  [packet |-> Head(q.queues[f]),
   queue |-> [q EXCEPT !.queues[f] = Tail(@),
                       !.size = @ - 1,
                       !.flow_list = Append(SubSeq(@, k + 1, Len(@)), f)]]

\* What dequeue returns, and the queue it leaves.
dequeue(q) ==
  IF \A k \in 1..Len(q.flow_list) : q.queues[q.flow_list[k]] = <<>>
  THEN {[packet |-> NoPacket, queue |-> [q EXCEPT !.flow_list = <<>>]]}
  ELSE {Served(q, k) : k \in FirstBacklogged(q)}

-----------------------------------------------------------------------------
(***************************************************************************)
(* EmpowerQOSManager.                                                      *)
(***************************************************************************)

Init ==
  /\ rules = [tr \in TrafficRule |-> NoRule]
  /\ active_list = <<>>
  /\ head_table = [tr \in TrafficRule |-> NoPacket]
  /\ sleepiness = 0
  /\ asleep = FALSE
  /\ agent = "up"
  /\ arrived = 0
  /\ dropped = {}
  /\ stranded = {}
  /\ sent = <<>>

Crash ==
  /\ agent' = "segv"
  /\ UNCHANGED <<rules, active_list, head_table, sleepiness, asleep, dropped,
                 stranded, sent>>

\* A DSCP without a rule of its own uses the tenant's default rule.
RuleFor(ssid, dscp) ==
  IF rules[<<ssid, dscp>>] # NoRule THEN <<ssid, dscp>> ELSE <<ssid, 0>>

\* _size is still the one from before the packet: 0 is taken to mean that
\* the rule is not in the list.
StoredIn(tr, p) ==
  LET q == rules[tr] IN
  IF q.size = 0
  THEN /\ rules' = [rules EXCEPT
                      ![tr] = [enqueue(q, p) EXCEPT !.deficit = 0,
                                                    !.size = @ + 1]]
       /\ active_list' = Append(active_list, tr)
  ELSE /\ rules' = [rules EXCEPT ![tr] = [enqueue(q, p) EXCEPT !.size = @ + 1]]
       /\ UNCHANGED active_list

\* Mutant: only the counter is reset.
WokenNot ==
  /\ UNCHANGED asleep
  /\ sleepiness' = 0

Woken ==
  /\ asleep' = FALSE
  /\ sleepiness' = 0

\* A tenant without a default rule yields a null queue.
store(ssid, dscp, f) ==
  /\ agent = "up"
  /\ arrived < MaxPackets
  /\ arrived' = arrived + 1
  /\ LET tr == RuleFor(ssid, dscp)
         p == [id |-> arrived + 1, flow |-> f]
     IN  IF rules[tr] = NoRule
         THEN Crash
         ELSE IF IsFull(rules[tr], f)
         THEN /\ dropped' = dropped \cup {p.id}
              /\ UNCHANGED <<rules, active_list, head_table, sleepiness,
                             asleep, agent, stranded, sent>>
         ELSE /\ StoredIn(tr, p)
              /\ Woken
              /\ UNCHANGED <<head_table, agent, dropped, stranded, sent>>

pull_empty ==
  /\ agent = "up"
  /\ ~asleep
  /\ active_list = <<>>
  /\ sleepiness' = sleepiness + 1
  /\ asleep' = (sleepiness' = SLEEPINESS_TRIGGER)
  /\ UNCHANGED <<rules, active_list, head_table, agent, arrived, dropped,
                 stranded, sent>>

\* What the rule at the front offers: its head packet, or the one taken out of
\* its queues, lost when wifi_encap cannot make it writable.
Offers(tr) ==
  IF head_table[tr] # NoPacket
  THEN {[packet |-> head_table[tr], taken |-> NoPacket, queue |-> rules[tr]]}
  ELSE LET Offer(d, p) == [packet |-> p, taken |-> d.packet, queue |-> d.queue]
           D == dequeue(rules[tr])
       IN  {Offer(d, d.packet) : d \in D} \cup
             IF EncapMayFail THEN {Offer(d, NoPacket) : d \in D} ELSE {}

\* Nothing to send, or the packet taken out was lost: the deficit is forgotten
\* and the rule leaves the list.
Idle(tr, o) ==
  LET lost == {o.taken} \ {NoPacket} IN
  /\ rules' = [rules EXCEPT ![tr] = [o.queue EXCEPT !.deficit = 0]]
  /\ active_list' = Tail(active_list)
  /\ dropped' = dropped \cup {p.id : p \in lost}
  /\ stranded' = IF lost # {} /\ o.queue.size > 0 THEN stranded \cup {tr}
                                                  ELSE stranded
  /\ UNCHANGED <<head_table, sent>>

\* Mutant: the rule leaves the list after every packet.
TransmitLeaves(tr, o, cost) ==
  /\ rules' = [rules EXCEPT ![tr] = [o.queue EXCEPT !.deficit = @ - cost]]
  /\ head_table' = [head_table EXCEPT ![tr] = NoPacket]
  /\ active_list' = Tail(active_list)
  /\ sent' = Append(sent, [packet |-> o.packet, rule |-> tr])
  /\ UNCHANGED <<dropped, stranded>>

\* Mutant: the quantum is granted on every visit.
TransmitGrants(tr, o, cost) ==
  /\ rules' = [rules EXCEPT ![tr] = [o.queue EXCEPT
                                       !.deficit = @ + o.queue.quantum - cost]]
  /\ head_table' = [head_table EXCEPT ![tr] = NoPacket]
  /\ active_list' = IF o.queue.size > 0 THEN active_list ELSE Tail(active_list)
  /\ sent' = Append(sent, [packet |-> o.packet, rule |-> tr])
  /\ UNCHANGED <<dropped, stranded>>

\* Affordable: sent, and the rule stays in front while it has packets.
Transmit(tr, o, cost) ==
  /\ rules' = [rules EXCEPT ![tr] = [o.queue EXCEPT !.deficit = @ - cost]]
  /\ head_table' = [head_table EXCEPT ![tr] = NoPacket]
  /\ active_list' = IF o.queue.size > 0 THEN active_list ELSE Tail(active_list)
  /\ sent' = Append(sent, [packet |-> o.packet, rule |-> tr])
  /\ UNCHANGED <<dropped, stranded>>

\* Mutant: the packet is not kept.
HoldForgets(tr, o) ==
  /\ rules' = [rules EXCEPT ![tr] = [o.queue EXCEPT
                                       !.deficit = @ + o.queue.quantum]]
  /\ active_list' = Append(Tail(active_list), tr)
  /\ UNCHANGED <<head_table, dropped, stranded, sent>>

\* Mutant: the packet goes back to the end of its queue.
HoldRequeues(tr, o) ==
  /\ rules' = [rules EXCEPT ![tr] = [enqueue(o.queue, o.packet) EXCEPT
                                       !.size = @ + 1,
                                       !.deficit = @ + o.queue.quantum]]
  /\ active_list' = Append(Tail(active_list), tr)
  /\ UNCHANGED <<head_table, dropped, stranded, sent>>

\* Mutant: no quantum is granted.
HoldUnpaid(tr, o) ==
  /\ rules' = [rules EXCEPT ![tr] = o.queue]
  /\ head_table' = [head_table EXCEPT ![tr] = o.packet]
  /\ active_list' = Append(Tail(active_list), tr)
  /\ UNCHANGED <<dropped, stranded, sent>>

\* Not affordable yet: held, one quantum more, last in the list.
Hold(tr, o) ==
  /\ rules' = [rules EXCEPT ![tr] = [o.queue EXCEPT
                                       !.deficit = @ + o.queue.quantum]]
  /\ head_table' = [head_table EXCEPT ![tr] = o.packet]
  /\ active_list' = Append(Tail(active_list), tr)
  /\ UNCHANGED <<dropped, stranded, sent>>

\* The rule in front was deleted and is a null queue, or a packet taken out of
\* it does not get the room for its headers: wifi_encap kills a null packet.
pull_crash ==
  /\ agent = "up"
  /\ ~asleep
  /\ active_list # <<>>
  /\ LET tr == Head(active_list) IN
     rules[tr] # NoRule =>
       /\ EncapMayFail
       /\ head_table[tr] = NoPacket
       /\ \E d \in dequeue(rules[tr]) : d.packet # NoPacket
  /\ Crash
  /\ UNCHANGED arrived

pull_rule ==
  /\ agent = "up"
  /\ ~asleep
  /\ active_list # <<>>
  /\ rules[Head(active_list)] # NoRule
  /\ LET tr == Head(active_list) IN
     \E o \in Offers(tr), cost \in Costs :
       IF o.packet = NoPacket THEN Idle(tr, o)
       ELSE IF cost <= o.queue.deficit THEN Transmit(tr, o, cost)
       ELSE Hold(tr, o)
  /\ UNCHANGED <<sleepiness, asleep, agent, arrived>>

pull == pull_empty \/ pull_crash \/ pull_rule

\* An existing rule is kept as it is.  One created again after its deletion
\* forgets the packet that was held.
set_traffic_rule(tr, quantum) ==
  /\ agent = "up"
  /\ Len(active_list) < MaxActive
  /\ rules[tr] = NoRule
  /\ rules' = [rules EXCEPT ![tr] = NewQueue(quantum)]
  /\ head_table' = [head_table EXCEPT ![tr] = NoPacket]
  /\ active_list' = Append(active_list, tr)
  /\ dropped' = dropped \cup {p.id : p \in {head_table[tr]} \ {NoPacket}}
  /\ stranded' = stranded \ {tr}
  /\ UNCHANGED <<sleepiness, asleep, agent, arrived, sent>>

\* The queues go with their packets.  The rule stays in the active list.
del_traffic_rule(tr) ==
  /\ agent = "up"
  /\ rules[tr] # NoRule
  /\ rules' = [rules EXCEPT ![tr] = NoRule]
  /\ dropped' = dropped \cup
       {p.id : p \in UNION {Range(rules[tr].queues[f]) : f \in Flows}}
  /\ UNCHANGED <<active_list, head_table, sleepiness, asleep, agent, arrived,
                 stranded, sent>>

Next ==
  \/ \E ssid \in Ssids, dscp \in Dscps, f \in Flows : store(ssid, dscp, f)
  \/ pull
  \/ \E tr \in TrafficRule, quantum \in Quanta : set_traffic_rule(tr, quantum)
  \/ \E tr \in Deletable : del_traffic_rule(tr)

Spec == Init /\ [][Next]_vars

\* The driver keeps pulling as long as the notifier is on.
FairSpec == Spec /\ WF_vars(pull)

-----------------------------------------------------------------------------
(***************************************************************************)
(* Properties that hold.                                                   *)
(***************************************************************************)

\* The types of the scheduler's state.
TypeOK ==
  /\ rules \in [TrafficRule -> TrafficRuleQueue \cup {NoRule}]
  /\ active_list \in Seq(TrafficRule)
  /\ head_table \in [TrafficRule -> Packet \cup {NoPacket}]
  /\ sleepiness \in 0..SLEEPINESS_TRIGGER
  /\ asleep \in BOOLEAN
  /\ agent \in {"up", "segv"}
  /\ arrived \in 0..MaxPackets
  /\ dropped \subseteq 1..MaxPackets
  /\ stranded \subseteq TrafficRule
  /\ sent \in Seq([packet: Packet, rule: TrafficRule])

Known == {tr \in TrafficRule : rules[tr] # NoRule}

Backlogged(tr) == rules[tr].size > 0 \/ head_table[tr] # NoPacket

\* A rule with a packet waiting, in its queues or held back, is in the active
\* list: neither store, which looks at the size only, nor the paths of pull
\* ever leave it out, but for the one a failing wifi_encap takes.
NoRuleForgotten ==
  \A tr \in Known \ stranded : Backlogged(tr) => Contains(active_list, tr)

\* The places of the aggregation queues that hold a packet.
Occupied(q) == UNION {{f} \X DOMAIN q.queues[f] : f \in Flows}

\* _size counts the packets of the aggregation queues, and every one of them
\* that is not empty is in the inner list once.
InnerListExact ==
  \A tr \in Known :
    LET q == rules[tr] IN
    /\ ExistsBijection(1..q.size, Occupied(q))
    /\ IsInjective(q.flow_list)
    /\ \A f \in Flows : q.queues[f] # <<>> => Contains(q.flow_list, f)

\* Where packet i waits: in a queue, or at place 0 when it is held.
StoredAt(tr, f, i) ==
  {<<tr, f, k>> : k \in {n \in DOMAIN rules[tr].queues[f] :
                           rules[tr].queues[f][n].id = i}}
Stored(i) == UNION {StoredAt(tr, f, i) : tr \in Known, f \in Flows}
HeldAt(i) == {<<tr, head_table[tr].flow, 0>> :
                tr \in {t \in TrafficRule : /\ head_table[t] # NoPacket
                                           /\ head_table[t].id = i}}
Waiting(i) == Stored(i) \cup HeldAt(i)

SentAt(i) == {k \in DOMAIN sent : sent[k].packet.id = i}

\* All the places of packet i.
Whereabouts(i) ==
  ({"waiting"} \X Waiting(i)) \cup ({"sent"} \X SentAt(i))
    \cup ({"dropped"} \X (dropped \cap {i}))

\* Every packet that arrived is in exactly one place: refused, deleted with
\* its rule or lost in encapsulation; sent once; held; or in one queue.  None
\* disappears otherwise or is sent twice, though store, pull and the creation
\* and deletion of rules move it between queue, head table and driver.
PacketsConserved ==
  agent = "up" =>
    \A i \in 1..arrived : \E w \in Whereabouts(i) : Whereabouts(i) = {w}

\* Packets of one flow under one rule leave in the order they came, also
\* when one is held back while others arrive.
FlowOrderKept ==
  \A j, k \in DOMAIN sent :
    /\ j < k
    /\ sent[j].rule = sent[k].rule
    /\ sent[j].packet.flow = sent[k].packet.flow
    => sent[j].packet.id < sent[k].packet.id

\* A rule never saves up more than it needs: its deficit is less than the
\* dearest packet and one quantum together, however often it is in the list.
DeficitBounded ==
  \A tr \in Known :
    \E cost \in Costs : rules[tr].deficit < cost + rules[tr].quantum

\* The notifier is never off while a packet waits that pull would find: store
\* wakes it, and pull puts it to sleep only when no rule is active.
NoLostWakeup ==
  (\E tr \in Known \ stranded : Backlogged(tr)) => ~asleep

Delivered(i) ==
  \/ agent # "up"
  \/ i \in dropped
  \/ SentAt(i) # {}
  \/ \E w \in Waiting(i) : w[1] \in stranded

\* Every packet accepted is sent at last, whatever its air time, although a
\* store may reset the deficit of a rule whose packet is held, unless it is
\* dropped or its rule stranded.
PacketsDelivered == \A i \in 1..MaxPackets : (arrived >= i) ~> Delivered(i)

-----------------------------------------------------------------------------
(***************************************************************************)
(* A reading of the code's comments that does not hold.                    *)
(***************************************************************************)

\* store appends a rule only when it is not in the active list, so that a
\* rule is in it once and gets one quantum a round.
ActiveOnce == IsInjective(active_list)
=============================================================================

--------------------------- MODULE EmpowerRXStats ---------------------------
(***************************************************************************)
(* Receive statistics: the tables of stations and access points heard, the *)
(* RSSI triggers and the summary triggers the controller installs, each    *)
(* with its timer, and the channel quality report that closes a sampling   *)
(* window.                                                                 *)
(*                                                                         *)
(* Triggers are heap objects: the lists hold their numbers, and the        *)
(* objects outlive their place in a list.  A moving average is a heap      *)
(* object too, Freed once it was deleted.  Reading freed memory ends the   *)
(* agent ("segv") or yields any value of the right type.                   *)
(*                                                                         *)
(* Data: a captured frame is counted; standard deviations, packet totals   *)
(* and time stamps are left out.                                           *)
(***************************************************************************)
EXTENDS Lists, Functions

CONSTANTS
  Addrs,        \* transmitter addresses
  Ifaces,       \* interfaces
  Broadcast,    \* the broadcast address
  Rssis,        \* RSSI of a frame in dBm, an int8_t
  RssiKeys,     \* [eth, rel, val]: what an RSSI trigger watches
  SummaryKeys,  \* [iface, eth]: what a summary trigger captures
  Limits,       \* reports after which a summary trigger ends; 0: never
  Ids,          \* trigger ids of the controller
  SmaPeriod,    \* windows in a moving average
  MaxSilent,    \* _max_silent_window_count
  NULL,         \* no average yet, slot never written
  Freed,        \* a moving average that was deleted
  NoNeighbor,   \* an address without an entry
  MaxPackets,   \* bound on frames in a window
  MaxFrames,    \* bound on frames captured between two summaries
  MaxTriggers,  \* bound on trigger objects
  MaxSent,      \* bound on the reports of an endless summary trigger
  MaxWindows,   \* bound on channel quality reports
  MaxSessions   \* bound on controller sessions

A == INSTANCE SMA WITH Period <- SmaPeriod

\* empower_trigger_relation
Relations == {"EQ", "GT", "LT", "GE", "LE"}

ASSUME RxAssumption ==
  /\ Rssis \subseteq -128 .. 127
  /\ Limits \subseteq Nat
  /\ SmaPeriod \in Nat \ {0}
  /\ MaxSilent \in Nat
  /\ \A key \in RssiKeys : key.rel \in Relations

VARIABLES
  neighbors,        \* neighbors["stas"], neighbors["aps"]: by address
  rssi,             \* RSSI trigger objects, in order of creation
  rssi_triggers,    \* the list of those installed
  summary,          \* summary trigger objects, in order of creation
  summary_triggers, \* the list of those installed
  agent,            \* "up" or "segv"
  windows,          \* history: channel quality reports so far
  session           \* history: controller sessions so far

vars == <<neighbors, rssi, rssi_triggers, summary, summary_triggers, agent,
          windows, session>>

Tables == {"stas", "aps"}

Unsigned8(r) == r % 256

-----------------------------------------------------------------------------
(***************************************************************************)
(* DstInfo.                                                                *)
(***************************************************************************)

NewNeighbor(iface) ==
  [iface |-> iface, packets |-> 0, accum |-> 0, silent |-> 0, sma |-> A!New]

add_sample(n, r) ==
  [n EXCEPT !.packets = @ + 1, !.accum = @ + Unsigned8(r)]

\* A window with frames adds their mean to the moving average.
update(n) ==
  [n EXCEPT !.silent = IF n.packets = 0 THEN @ + 1 ELSE 0,
            !.sma = IF n.packets = 0 \/ @ = Freed THEN @
                    ELSE A!add(@, A!Truncated(n.accum, n.packets)),
            !.packets = 0,
            !.accum = 0]

matches(key, avg) ==
  CASE key.rel = "EQ" -> avg = key.val
    [] key.rel = "GT" -> avg > key.val
    [] key.rel = "LT" -> avg < key.val
    [] key.rel = "GE" -> avg >= key.val
    [] key.rel = "LE" -> avg <= key.val

\* What the test of a trigger may find: anything once the average was deleted.
Verdicts(key, n) ==
  IF n.sma = Freed THEN BOOLEAN ELSE {matches(key, A!avg(n.sma))}

-----------------------------------------------------------------------------
Init ==
  /\ neighbors = [t \in Tables |-> [a \in Addrs |-> NoNeighbor]]
  /\ rssi = <<>>
  /\ rssi_triggers = <<>>
  /\ summary = <<>>
  /\ summary_triggers = <<>>
  /\ agent = "up"
  /\ windows = 0
  /\ session = 0

Triggers == Len(rssi) + Len(summary)

Heard(t) == {a \in Addrs : neighbors[t][a] # NoNeighbor}

\* Whether the list of summary triggers holds a deleted object.
Dangling == \E k \in DOMAIN summary_triggers : summary[summary_triggers[k]].freed

\* Freed memory is used and the agent ends.
Crash ==
  /\ agent' = "segv"
  /\ UNCHANGED <<neighbors, rssi, rssi_triggers, summary, summary_triggers,
                 windows, session>>

-----------------------------------------------------------------------------
(***************************************************************************)
(* Frames, the periodic timer and channel quality reports.                 *)
(***************************************************************************)

update_neighbor(t, ta, iface, r) ==
  neighbors' = [neighbors EXCEPT ![t][ta] =
    add_sample(IF @ = NoNeighbor THEN NewNeighbor(iface) ELSE @, r)]

Captures(o, ta, iface) ==
  /\ Contains(summary_triggers, o)
  /\ ~summary[o].freed
  /\ summary[o].key.iface = iface
  /\ summary[o].key.eth \in {ta, Broadcast}

\* A frame of a station (t = "stas") or an access point was received.
simple_action(t, ta, iface, r) ==
  /\ agent = "up"
  /\ neighbors[t][ta] # NoNeighbor => neighbors[t][ta].packets < MaxPackets
  /\ \A o \in DOMAIN summary :
       Captures(o, ta, iface) => summary[o].frames < MaxFrames
  /\ \/ Dangling /\ Crash
     \/ /\ update_neighbor(t, ta, iface, r)
        /\ summary' = [o \in DOMAIN summary |->
             IF Captures(o, ta, iface)
             THEN [summary[o] EXCEPT !.frames = @ + 1] ELSE summary[o]]
        /\ UNCHANGED <<rssi, rssi_triggers, summary_triggers, agent, windows,
                       session>>

Stale(n) == n # NoNeighbor /\ n.silent > MaxSilent

\* Every period; the entry's destructor deletes its moving average.
run_timer ==
  /\ agent = "up"
  /\ \/ /\ \E t \in Tables : \E a \in Heard(t) :
             Stale(neighbors[t][a]) /\ neighbors[t][a].sma = Freed
        /\ Crash
     \/ /\ neighbors' = [t \in Tables |-> [a \in Addrs |->
             IF Stale(neighbors[t][a]) THEN NoNeighbor ELSE neighbors[t][a]]]
        /\ UNCHANGED <<rssi, rssi_triggers, summary, summary_triggers, agent,
                       windows, session>>

\* The report closes the window of every neighbour heard on the interface.
\* It is filled from a local vector of copies, whose destructors delete the
\* moving averages the table still refers to.
send_img_response(t, iface) ==
  LET reported == {a \in Heard(t) : neighbors[t][a].iface = iface} IN
  /\ agent = "up"
  /\ windows < MaxWindows
  /\ \/ /\ \E a \in reported : neighbors[t][a].sma = Freed
        /\ Crash
     \/ /\ neighbors' = [neighbors EXCEPT ![t] = [a \in Addrs |->
             IF a \in reported
             THEN [update(@[a]) EXCEPT !.sma = Freed] ELSE @[a]]]
        /\ windows' = windows + 1
        /\ UNCHANGED <<rssi, rssi_triggers, summary, summary_triggers, agent,
                       session>>

-----------------------------------------------------------------------------
(***************************************************************************)
(* RSSI triggers.  A trigger taken out of the list is never deleted.       *)
(***************************************************************************)

\* The same condition installed again is only made ready to report again.
add_rssi_trigger(key, id) ==
  LET same == {o \in Range(rssi_triggers) : rssi[o].key = key} IN
  /\ agent = "up"
  /\ IF same # {}
     THEN /\ rssi' = [o \in DOMAIN rssi |->
               IF o \in same THEN [rssi[o] EXCEPT !.dispatched = FALSE]
                             ELSE rssi[o]]
          /\ UNCHANGED rssi_triggers
     ELSE /\ Triggers < MaxTriggers
          /\ rssi' = Append(rssi, [id |-> id, key |-> key, dispatched |-> FALSE,
                                   armed |-> TRUE, session |-> session])
          /\ rssi_triggers' = Append(rssi_triggers, Len(rssi) + 1)
  /\ UNCHANGED <<neighbors, summary, summary_triggers, agent, windows, session>>

del_rssi_trigger(id) ==
  LET k == SelectInSeq(rssi_triggers, LAMBDA o : rssi[o].id = id) IN
  /\ agent = "up"
  /\ k # 0
  /\ rssi' = [rssi EXCEPT ![rssi_triggers[k]].armed = FALSE]
  /\ rssi_triggers' = RemoveAt(rssi_triggers, k)
  /\ UNCHANGED <<neighbors, summary, summary_triggers, agent, windows, session>>

\* Mutant: the timer is re-scheduled only after a report or a reset.
RssiCallbackOnce(o) ==
  LET n == neighbors["stas"][rssi[o].key.eth] IN
  /\ agent = "up"
  /\ rssi[o].armed
  /\ IF n = NoNeighbor
     THEN rssi' = [rssi EXCEPT ![o].armed = FALSE]
     ELSE \E m \in Verdicts(rssi[o].key, n) :
            rssi' = [rssi EXCEPT ![o].dispatched = m]
  /\ UNCHANGED <<neighbors, rssi_triggers, summary, summary_triggers, agent,
                 windows, session>>

\* The timer of trigger o fires: it reports when the condition becomes true
\* and is ready again once it was found false.  The timer is re-scheduled.
send_rssi_trigger_callback(o) ==
  LET n == neighbors["stas"][rssi[o].key.eth] IN
  /\ agent = "up"
  /\ rssi[o].armed
  /\ \/ n # NoNeighbor /\ n.sma = Freed /\ Crash
     \/ /\ IF n = NoNeighbor
           THEN UNCHANGED rssi
           ELSE \E m \in Verdicts(rssi[o].key, n) :
                  rssi' = [rssi EXCEPT ![o].dispatched = m]
        /\ UNCHANGED <<neighbors, rssi_triggers, summary, summary_triggers,
                       agent, windows, session>>

-----------------------------------------------------------------------------
(***************************************************************************)
(* Summary triggers.                                                       *)
(***************************************************************************)

\* A condition already captured is refused.  The comparison with a deleted
\* trigger may end the agent or find the two equal.
add_summary_trigger(key, id, limit) ==
  /\ agent = "up"
  /\ \/ Dangling /\ Crash
     \/ /\ Dangling \/ \E o \in Range(summary_triggers) : summary[o].key = key
        /\ UNCHANGED vars
     \/ /\ \A o \in Range(summary_triggers) :
             summary[o].freed \/ summary[o].key # key
        /\ Triggers < MaxTriggers
        /\ summary' = Append(summary,
             [id |-> id, key |-> key, limit |-> limit, sent |-> 0, frames |-> 0,
              armed |-> TRUE, freed |-> FALSE, session |-> session])
        /\ summary_triggers' = Append(summary_triggers, Len(summary) + 1)
        /\ UNCHANGED <<neighbors, rssi, rssi_triggers, agent, windows, session>>

\* Trigger objs[o] is deleted: its destructors drop the frames and clear the
\* timer.
Deleted(objs, o) ==
  [objs EXCEPT ![o].freed = TRUE, ![o].armed = FALSE, ![o].frames = 0]

\* The place of the first trigger with this id, 0 when there is none.
Found(objs, id) ==
  SelectInSeq(summary_triggers, LAMBDA o : objs[o].id = id)

\* What *qi denotes after the erase: the next trigger of the list, or the one
\* erased when it was the last, whose slot still holds the pointer.
AfterErase(k) ==
  summary_triggers[IF k < Len(summary_triggers) THEN k + 1 ELSE k]

\* Mutant: neither the trigger erased nor the one deleted loses its timer.
RemoveLeavesTimer(objs, k) ==
  IF k = 0 THEN summary' = objs /\ UNCHANGED summary_triggers
  ELSE /\ summary' = [objs EXCEPT ![AfterErase(k)].freed = TRUE,
                                  ![AfterErase(k)].frames = 0]
       /\ summary_triggers' = RemoveAt(summary_triggers, k)

\* del_summary_trigger on objs, the objects as its caller left them: the timer
\* of the trigger found is cleared, it leaves the list, and *qi is deleted.
EraseAndDelete(objs, k) ==
  IF k = 0 THEN summary' = objs /\ UNCHANGED summary_triggers
  ELSE /\ summary' = Deleted([objs EXCEPT ![summary_triggers[k]].armed = FALSE],
                             AfterErase(k))
       /\ summary_triggers' = RemoveAt(summary_triggers, k)

del_summary_trigger(id) ==
  /\ agent = "up"
  /\ \/ Dangling /\ Crash
     \/ /\ EraseAndDelete(summary, Found(summary, id))
        /\ UNCHANGED <<neighbors, rssi, rssi_triggers, agent, windows, session>>

\* The frames captured are sent and dropped, and the report is counted.
send_summary_trigger(o) == [summary EXCEPT ![o].frames = 0, ![o].sent = @ + 1]

\* Mutant: the limit is compared with the reports sent before this one.
SummaryCallbackLate(o) ==
  LET objs == send_summary_trigger(o)
      last == summary[o].limit > 0 /\ summary[o].sent >= summary[o].limit
  IN
  /\ agent = "up"
  /\ summary[o].armed
  /\ summary[o].limit = 0 => summary[o].sent < MaxSent
  /\ IF last THEN EraseAndDelete(objs, Found(objs, summary[o].id))
     ELSE summary' = objs /\ UNCHANGED summary_triggers
  /\ UNCHANGED <<neighbors, rssi, rssi_triggers, agent, windows, session>>

\* The timer of trigger o fires: the frames captured are sent.  The trigger
\* goes with its last report; else the timer is re-scheduled.
send_summary_trigger_callback(o) ==
  LET objs == send_summary_trigger(o)
      last == objs[o].limit > 0 /\ objs[o].sent >= objs[o].limit
  IN
  /\ agent = "up"
  /\ summary[o].armed
  /\ summary[o].limit = 0 => summary[o].sent < MaxSent
  /\ \/ last /\ Dangling /\ Crash
     \/ /\ IF last
           THEN EraseAndDelete([objs EXCEPT ![o].armed = FALSE],
                               Found(objs, summary[o].id))
           ELSE summary' = objs /\ UNCHANGED summary_triggers
        /\ UNCHANGED <<neighbors, rssi, rssi_triggers, agent, windows, session>>

-----------------------------------------------------------------------------
\* Mutant: the timers of the RSSI triggers keep running.
ClearLeavesRssiTimers ==
  /\ agent = "up"
  /\ session < MaxSessions
  /\ rssi_triggers' = <<>>
  /\ summary' = [o \in DOMAIN summary |->
       IF Contains(summary_triggers, o) THEN Deleted(summary, o)[o]
                                        ELSE summary[o]]
  /\ summary_triggers' = <<>>
  /\ session' = session + 1
  /\ UNCHANGED <<neighbors, rssi, agent, windows>>

\* The controller connection was set up anew (the reconnect handler).
clear_triggers ==
  /\ agent = "up"
  /\ session < MaxSessions
  /\ \/ Dangling /\ Crash
     \/ /\ rssi' = [o \in DOMAIN rssi |->
             IF Contains(rssi_triggers, o) THEN [rssi[o] EXCEPT !.armed = FALSE]
                                           ELSE rssi[o]]
        /\ rssi_triggers' = <<>>
        /\ summary' = [o \in DOMAIN summary |->
             IF Contains(summary_triggers, o) THEN Deleted(summary, o)[o]
                                              ELSE summary[o]]
        /\ summary_triggers' = <<>>
        /\ session' = session + 1
        /\ UNCHANGED <<neighbors, agent, windows>>

RssiTimers == \E o \in DOMAIN rssi : send_rssi_trigger_callback(o)

SummaryTimers == \E o \in DOMAIN summary : send_summary_trigger_callback(o)

Next ==
  \/ \E t \in Tables, ta \in Addrs, iface \in Ifaces, r \in Rssis :
       simple_action(t, ta, iface, r)
  \/ run_timer
  \/ \E t \in Tables, iface \in Ifaces : send_img_response(t, iface)
  \/ \E key \in RssiKeys, id \in Ids : add_rssi_trigger(key, id)
  \/ \E id \in Ids : del_rssi_trigger(id)
  \/ RssiTimers
  \/ \E key \in SummaryKeys, id \in Ids, limit \in Limits :
       add_summary_trigger(key, id, limit)
  \/ \E id \in Ids : del_summary_trigger(id)
  \/ SummaryTimers
  \/ clear_triggers

Spec == Init /\ [][Next]_vars

\* Click runs a scheduled timer: each armed trigger fires again and again.
FairSpec ==
  /\ Spec
  /\ WF_vars(run_timer)
  /\ \A o \in 1 .. MaxTriggers :
       /\ WF_vars(o \in DOMAIN rssi /\ send_rssi_trigger_callback(o))
       /\ WF_vars(o \in DOMAIN summary /\ send_summary_trigger_callback(o))

-----------------------------------------------------------------------------
Neighbor ==
  [iface: Ifaces, packets: 0 .. MaxPackets, accum: Nat, silent: Nat,
   sma: {Freed} \cup
        [window: [0 .. SmaPeriod - 1 -> {NULL} \cup 0 .. 255],
         head: {NULL} \cup 0 .. SmaPeriod - 1,
         tail: {NULL} \cup 0 .. SmaPeriod - 1, total: Nat]]

\* The tables hold neighbours, the lists numbers of objects, each once.
TypeOK ==
  /\ neighbors \in [Tables -> [Addrs -> {NoNeighbor} \cup Neighbor]]
  /\ rssi \in Seq([id: Ids, key: RssiKeys, dispatched: BOOLEAN, armed: BOOLEAN,
                   session: 0 .. MaxSessions])
  /\ summary \in Seq([id: Ids, key: SummaryKeys, limit: Limits, sent: Nat,
                      frames: 0 .. MaxFrames, armed: BOOLEAN, freed: BOOLEAN,
                      session: 0 .. MaxSessions])
  /\ Range(rssi_triggers) \subseteq DOMAIN rssi
  /\ Range(summary_triggers) \subseteq DOMAIN summary
  /\ IsInjective(rssi_triggers) /\ IsInjective(summary_triggers)
  /\ agent \in {"up", "segv"}

\* A running timer belongs to a trigger that is installed and was not deleted:
\* no callback runs on freed memory, and none reports for a trigger the
\* controller removed (del_rssi_trigger, del_summary_trigger, ~Trigger).
ArmedInstalled ==
  /\ \A o \in DOMAIN rssi : rssi[o].armed => Contains(rssi_triggers, o)
  /\ \A o \in DOMAIN summary :
       summary[o].armed => Contains(summary_triggers, o) /\ ~summary[o].freed

\* After a reconnect nothing is reported for the triggers of an earlier
\* session of the controller (clear_triggers).
OnlyCurrentSession ==
  /\ \A o \in DOMAIN rssi : rssi[o].armed => rssi[o].session = session
  /\ \A o \in DOMAIN summary : summary[o].armed => summary[o].session = session

\* A summary trigger with a limit never sends more reports than its limit
\* (send_summary_trigger_callback).
SummaryWithinLimit ==
  \A o \in DOMAIN summary : summary[o].limit > 0 => summary[o].sent <= summary[o].limit

\* While a station is in the table and its average satisfies the condition of
\* an installed trigger, the trigger reports it sooner or later
\* (send_rssi_trigger_callback re-schedules its timer).
MatchReported ==
  \A o \in 1 .. MaxTriggers :
    LET Due == /\ agent = "up"
               /\ o \in DOMAIN rssi
               /\ Contains(rssi_triggers, o)
               /\ LET n == neighbors["stas"][rssi[o].key.eth] IN
                  n # NoNeighbor /\ Verdicts(rssi[o].key, n) = {TRUE}
    IN Due ~> (~Due \/ rssi[o].dispatched)

\* "re-schedule the timer" (send_summary_trigger_callback): the timer of every
\* installed summary trigger is running, until its own limit is reached.
InstalledArmed ==
  \A o \in DOMAIN summary : Contains(summary_triggers, o) => summary[o].armed

\* "Returns the average of the last P elements added to this SMA" (class SMA):
\* the moving average of every neighbour in a table is allocated.
AveragesAllocated ==
  \A t \in Tables : \A a \in Heard(t) : neighbors[t][a].sma # Freed
=============================================================================

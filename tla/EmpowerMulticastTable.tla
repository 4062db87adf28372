------------------------ MODULE EmpowerMulticastTable ------------------------
(***************************************************************************)
(* The multicast groups and their receivers, kept from the IGMP messages   *)
(* of the stations (EmpowerIgmpMembership), and the requests that take a   *)
(* station out of them.                                                    *)
(*                                                                         *)
(* Data: an IGMP message is the sequence of its group records.  A record   *)
(* joins a group (IGMPv1 and v2 join, v3 exclude modes), leaves it (v2     *)
(* leave, v3 include modes), tells about sources, or is of a kind the code *)
(* does not know.  A message with a wrong checksum and a query change      *)
(* nothing and are left out.  A hosted LVAP is shared (its BSSID is that   *)
(* of a VAP) or unique.                                                    *)
(***************************************************************************)
EXTENDS Integers, Sequences, SequencesExt

CONSTANTS
  Stas,         \* stations
  Groups,       \* IP multicast groups
  RecordKinds,  \* kinds of records in messages
  MaxRecords    \* bound on the records of a message

ASSUME McastAssumption ==
  /\ RecordKinds \subseteq {"join", "leave", "sources", "unknown"}
  /\ MaxRecords \in Nat

VARIABLES
  multicastgroups,  \* entries [group, receivers], in order of creation
  allocated,        \* whether the vector of groups ever held one
  lvaps,            \* lvaps[sta]: "absent", "shared" or "unique"
  agent,            \* "up" or "segv"
  reported,         \* history: <<sta, group>> according to the reports sent
                    \* and the requests received
  cut               \* history: stations that sent a message with a record of
                    \* unknown kind and were not taken out of all groups since

vars == <<multicastgroups, allocated, lvaps, agent, reported, cut>>

Init ==
  /\ multicastgroups = <<>>
  /\ allocated = FALSE
  /\ lvaps = [s \in Stas |-> "absent"]
  /\ agent = "up"
  /\ reported = {}
  /\ cut = {}

Place(table, group) == SelectInSeq(table, LAMBDA e : e.group = group)

-----------------------------------------------------------------------------
(***************************************************************************)
(* Operations on the table.                                                *)
(***************************************************************************)

addgroup(table, group) ==
  IF Place(table, group) # 0 THEN table
  ELSE Append(table, [group |-> group, receivers |-> <<>>])

\* Mutant: a station that joins twice is listed twice.
JoinTwice(table, sta, group) ==
  LET i == Place(table, group) IN
  IF i = 0 THEN table
  ELSE [table EXCEPT ![i].receivers = Append(@, sta)]

joingroup(table, sta, group) ==
  LET i == Place(table, group) IN
  IF i = 0 THEN table
  ELSE [table EXCEPT ![i].receivers =
          IF Contains(@, sta) THEN @ ELSE Append(@, sta)]

\* Entry i without the station, and without the entry once it is empty.
WithoutReceiver(table, i, sta) ==
  LET rest == SelectSeq(table[i].receivers, LAMBDA s : s # sta) IN
  IF rest = <<>> THEN RemoveAt(table, i)
  ELSE [table EXCEPT ![i].receivers = rest]

IsReceiver(table, sta, group) ==
  LET i == Place(table, group) IN
  i # 0 /\ Contains(table[i].receivers, sta)

leavegroup(table, sta, group) ==
  IF IsReceiver(table, sta, group)
  THEN WithoutReceiver(table, Place(table, group), sta) ELSE table

\* Mutant: the entry after one that was removed is skipped.
LeaveAllSkips(table, sta) ==
  LET Drop[i \in 1 .. Len(table) + 1] ==
        IF i > Len(table) THEN <<>>
        ELSE LET rest == SelectSeq(table[i].receivers, LAMBDA s : s # sta) IN
             IF rest # <<>>
             THEN <<[table[i] EXCEPT !.receivers = rest]>> \o Drop[i + 1]
             ELSE IF i < Len(table) THEN <<table[i + 1]>> \o Drop[i + 2]
             ELSE <<>>
  IN Drop[1]

leaveallgroups(table, sta) ==
  LET Drop(e) == [e EXCEPT !.receivers = SelectSeq(@, LAMBDA s : s # sta)] IN
  SelectSeq([i \in DOMAIN table |-> Drop(table[i])],
            LAMBDA e : e.receivers # <<>>)

-----------------------------------------------------------------------------
(***************************************************************************)
(* IGMP messages.                                                          *)
(***************************************************************************)

Records ==
  [kind: RecordKinds \cap {"join", "leave"}, group: Groups]
  \cup [kind: RecordKinds \ {"join", "leave"}]

Messages == SeqOf(Records, MaxRecords)

\* One record of a message of sta on m, the state of the loop.  The leave of a
\* station that is not a receiver is logged through the end iterator, which is
\* null while the vector of groups was never allocated.
Apply(sta, m, r) ==
  CASE ~m.goes -> m
    [] m.goes /\ r.kind = "join" ->
         [m EXCEPT !.table = joingroup(addgroup(@, r.group), sta, r.group),
                   !.allocated = TRUE]
    [] m.goes /\ r.kind = "leave" ->
         [m EXCEPT !.table = leavegroup(@, sta, r.group),
                   !.segv = ~m.allocated,
                   !.goes = m.allocated]
    [] m.goes /\ r.kind = "sources" -> m
    [] m.goes /\ r.kind = "unknown" -> [m EXCEPT !.goes = FALSE]

\* One message to the controller for each record, in their order.
send_igmp_report(sta, records) ==
  LET Told(known, r) ==
        CASE r.kind = "join"  -> known \cup {<<sta, r.group>>}
          [] r.kind = "leave" -> known \ {<<sta, r.group>>}
          [] OTHER            -> known
  IN reported' = FoldLeft(Told, reported, records)

\* Every record takes effect in turn; the message is reported to the
\* controller when the last one was reached.
push(sta, records) ==
  LET start == [table |-> multicastgroups, allocated |-> allocated,
                goes |-> TRUE, segv |-> FALSE]
      end == FoldLeft(LAMBDA m, r : Apply(sta, m, r), start, records)
  IN
  /\ agent = "up"
  /\ lvaps[sta] # "absent"
  /\ multicastgroups' = end.table
  /\ allocated' = end.allocated
  /\ agent' = IF end.segv THEN "segv" ELSE "up"
  /\ IF end.goes
     THEN send_igmp_report(sta, records) /\ UNCHANGED cut
     ELSE cut' = cut \cup {sta} /\ UNCHANGED reported
  /\ UNCHANGED lvaps

-----------------------------------------------------------------------------
(***************************************************************************)
(* Requests of the controller, and LVAPs.                                  *)
(***************************************************************************)

AddLvap(sta, kind) ==
  /\ agent = "up"
  /\ lvaps[sta] = "absent"
  /\ lvaps' = [lvaps EXCEPT ![sta] = kind]
  /\ UNCHANGED <<multicastgroups, allocated, agent, reported, cut>>

\* The station leaves all groups, and the controller knows it does.
LeaveAll(sta) ==
  /\ multicastgroups' = leaveallgroups(multicastgroups, sta)
  /\ reported' = {p \in reported : p[1] # sta}
  /\ cut' = cut \ {sta}

\* A shared LVAP leaves its groups before it is removed.
handle_del_lvap(sta) ==
  /\ agent = "up"
  /\ lvaps[sta] # "absent"
  /\ IF lvaps[sta] = "shared" THEN LeaveAll(sta)
     ELSE UNCHANGED <<multicastgroups, reported, cut>>
  /\ lvaps' = [lvaps EXCEPT ![sta] = "absent"]
  /\ UNCHANGED <<allocated, agent>>

handle_del_mcast_receiver(sta) ==
  /\ agent = "up"
  /\ LeaveAll(sta)
  /\ UNCHANGED <<allocated, lvaps, agent>>

Next ==
  \E sta \in Stas :
    \/ \E records \in Messages : push(sta, records)
    \/ \E kind \in {"shared", "unique"} : AddLvap(sta, kind)
    \/ handle_del_lvap(sta)
    \/ handle_del_mcast_receiver(sta)

Spec == Init /\ [][Next]_vars

-----------------------------------------------------------------------------
\* A group has one entry, which lists each of its receivers once, and goes
\* with the last of them (addgroup, joingroup, leavegroup, leaveallgroups).
TableWellFormed ==
  /\ multicastgroups \in Seq([group: Groups, receivers: Seq(Stas)])
  /\ \A i, j \in DOMAIN multicastgroups :
       multicastgroups[i].group = multicastgroups[j].group => i = j
  /\ \A i \in DOMAIN multicastgroups :
       /\ multicastgroups[i].receivers # <<>>
       /\ IsInjective(multicastgroups[i].receivers)

Members ==
  {p \in Stas \X Groups : IsReceiver(multicastgroups, p[1], p[2])}

\* The groups a station receives in the table are those the controller knows
\* of from the IGMP reports of the agent and from its own requests, whatever
\* the other stations join and leave, unless a message of the station was cut
\* short (EmpowerIgmpMembership::push, send_igmp_report, leaveallgroups).
TableAsReported ==
  agent = "up" =>
    \A p \in Stas \X Groups : p[1] \notin cut => (p \in Members <=> p \in reported)
=============================================================================

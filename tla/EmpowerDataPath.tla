--------------------------- MODULE EmpowerDataPath ---------------------------
(***************************************************************************)
(* The data path of the access point on top of the tables it reads: frames *)
(* from the wired side enter EmpowerTee, which hands them to the           *)
(* EmpowerQOSManager of one or of every interface; data frames from the    *)
(* air enter EmpowerWifiDecap, which hands them to the wired side and, as  *)
(* samples/empower.click connects its second output, to EmpowerTee too.    *)
(* EmpowerWifiEncap, the element EmpowerQOSManager replaces in that        *)
(* configuration, is here as the frames it makes.                          *)
(*                                                                         *)
(* A data frame changes none of the tables, but a copy whose tenant has no *)
(* traffic rule ends the process: store uses the null queue it is given.   *)
(* What happens to a stored copy is the subject of EmpowerQOSManager.tla.  *)
(*                                                                         *)
(* Data: a frame is its destination and its DSCP class; the interfaces     *)
(* whose transmission policy for a group address is DMS are an input of    *)
(* the handlers, since nothing relates them to the tables.                 *)
(***************************************************************************)
EXTENDS EmpowerLVAPManager

CONSTANTS
  Group,   \* the broadcast and multicast addresses
  Slots    \* the places of the LVAP table, in the order an iterator visits them

ASSUME GroupAssumption == Group \notin Stas

ASSUME SlotAssumption == Slots \subseteq Nat

\* The address derived for one client is not that of a VAP, which all clients
\* share (EmpowerVAPState, EmpowerStationState): Shared tells them apart by it.
ASSUME BssidAssumption == \A s \in Stas : NetBssid[s] \notin VapBssids

VARIABLES
  strayed,   \* history: LVAPs moved, or updated for a block, away from the
             \* interface whose default rule their last add_lvap made
  dropped    \* history: (iface, ssid) whose default rule was deleted

dvars == <<lvaps, vaps, masks, rules, txp, ports, agent, requests, replies,
           strayed, dropped>>

Mcast == {"legacy", "dms", "ur"}

-----------------------------------------------------------------------------
(***************************************************************************)
(* Copies of a frame: receiver and transmitter address, the interface they *)
(* are sent on and the tenant whose queue they wait in.                    *)
(***************************************************************************)

\* The LVAPs of interface i that frames are sent to.
Served(i) ==
  {s \in Hosted : /\ lvaps[s].iface = i
                  /\ lvaps[s].set_mask
                  /\ lvaps[s].auth
                  /\ lvaps[s].assoc}

CopyFor(i, s, ra) ==
  [iface |-> i, ra |-> ra, ta |-> lvaps[s].lvap_bssid, ssid |-> lvaps[s].ssid]

\* Mutant: the LVAPs of a shared tenant are not skipped.
LegacyForAll(i) ==
  {CopyFor(i, s, s) : s \in Served(i)}
  \cup {[iface |-> i, ra |-> Group, ta |-> b, ssid |-> vaps[b].ssid] :
          b \in {c \in VapBssids : vaps[c] # NoVap /\ vaps[c].iface = i}}

\* One copy for each LVAP with a BSSID of its own and one for each VAP.
LegacyCopies(i) ==
  {CopyFor(i, s, s) : s \in {t \in Served(i) : ~Shared(t)}}
  \cup {[iface |-> i, ra |-> Group, ta |-> b, ssid |-> vaps[b].ssid] :
          b \in {c \in VapBssids : vaps[c] # NoVap /\ vaps[c].iface = i}}

\* EmpowerQOSManager::push on interface i.
eqm_push(i, dst, dms) ==
  IF dst # Group
  THEN {CopyFor(i, s, s) : s \in Served(i) \cap {dst}}
  ELSE IF i \in dms
       THEN {CopyFor(i, s, s) : s \in Served(i)}
       ELSE LegacyCopies(i)

\* The outputs EmpowerTee::push sends a frame to.
tee_outputs(dst) ==
  IF dst = Group
  THEN Ifaces
  ELSE {lvaps[s].iface : s \in Hosted \cap {dst}}

Copies(dst, dms) ==
  UNION {eqm_push(i, dst, dms) : i \in tee_outputs(dst)}

\* A rule for the DSCP class, or the default rule of the tenant.
HasQueue(c, dscp) ==
  \/ <<c.ssid, dscp>> \in rules[c.iface]
  \/ <<c.ssid, 0>> \in rules[c.iface]

\* How the LVAPs may lie in the hash table that _el->lvaps() iterates over.
Orders ==
  {pos \in [Stas -> Slots] : \A s, t \in Stas : pos[s] = pos[t] => s = t}

\* The frame that the loop over the LVAPs sends when it visits s.
Frame(i, s, ra) ==
  [iface |-> i, ra |-> ra, ta |-> lvaps[s].lvap_bssid, lvap |-> s]

\* The LVAPs that the loop does not find in sent, which holds the keys of the
\* LVAPs visited before.
FirstOf(i, key, pos) ==
  {s \in Served(i) :
     \A t \in Served(i) : pos[t] < pos[s] => key[t] # key[s]}

\* Mutant: a BSSID is not looked up in sent.
EncapForgetsSent(i, policy, pos) ==
  CASE policy = "dms"    -> {Frame(i, s, s) : s \in Served(i)}
    [] policy = "ur"     -> {}
    [] policy = "legacy" -> {Frame(i, s, Group) : s \in Served(i)}

\* EmpowerWifiEncap::push of a group frame, on interface i: under DMS sent
\* holds the stations done, under the legacy policy the BSSIDs done.
encap_group(i, policy, pos) ==
  LET sta   == [s \in Served(i) |-> s]
      bssid == [s \in Served(i) |-> lvaps[s].lvap_bssid]
  IN  CASE policy = "dms"    -> {Frame(i, s, s) : s \in FirstOf(i, sta, pos)}
        [] policy = "ur"     -> {}
        [] policy = "legacy" ->
             {Frame(i, s, Group) : s \in FirstOf(i, bssid, pos)}

-----------------------------------------------------------------------------
(***************************************************************************)
(* Data frames.                                                            *)
(***************************************************************************)

\* The interfaces whose policy for the address dst is DMS; a unicast frame is
\* sent without looking at it.
Policies(dst) == IF dst = Group THEN SUBSET Ifaces ELSE {{}}

\* Where a copy has no queue the process ends; otherwise all are stored.
tee_push(dst, dscp, dms) ==
  /\ agent = "up"
  /\ \E c \in Copies(dst, dms) : ~HasQueue(c, dscp)
  /\ Fault("segv")
  /\ UNCHANGED History

DecapAccepts(src, bssid, dst) ==
  /\ src \in Hosted
  /\ lvaps[src].lvap_bssid = bssid
  /\ lvaps[src].auth
  /\ lvaps[src].assoc
  /\ dst = Group => lvaps[src].set_mask

\* An accepted frame goes to the wired side and, a second time, to the tee.
decap_push(src, bssid, dst, dscp, dms) ==
  /\ DecapAccepts(src, bssid, dst)
  /\ tee_push(dst, dscp, dms)

-----------------------------------------------------------------------------
(***************************************************************************)
(* The specification: the handlers of EmpowerLVAPManager.tla and the data  *)
(* frames, with the histories kept beside them.                            *)
(***************************************************************************)

\* An add_lvap makes the default rule on the interface of its own block.
AddStrays(m) ==
  \/ /\ add_lvap_new(m) \/ add_lvap_update(m)
     /\ strayed' = IF lvaps'[m.sta].iface = element_to_iface(m.block)
                   THEN strayed \ {m.sta}
                   ELSE strayed \cup {m.sta}
  \/ /\ add_lvap_ignored(m) \/ add_lvap_during_csa(m)
     /\ UNCHANGED strayed

DelStrays(m) ==
  /\ handle_del_lvap(m)
  /\ strayed' = strayed \cap Hosted'

TimerStrays ==
  /\ run_timer
  /\ strayed' = (strayed \cup Ending) \ Leaving

OtherMessage ==
  \/ \E m \in VapMsgs : handle_add_vap(m)
  \/ \E b \in VapBssids : handle_del_vap(b)
  \/ \E m \in RuleMsgs : handle_set_traffic_rule(m)
  \/ \E m \in RuleMsgs : handle_del_traffic_rule(m)
  \/ \E m \in PortMsgs : handle_set_port(m)
  \/ \E m \in PortMsgs : handle_del_port(m)
  \/ \E s \in Stas : handle_auth_response(s)
  \/ \E s \in Stas : handle_assoc_response(s)
  \/ write_ports

Frames ==
  \/ \E s \in Stas, b \in Bssids, i \in Ifaces : auth_push(s, b, i)
  \/ \E s \in Stas, b \in Bssids : deauth_push(s, b)
  \/ \E s \in Stas, b \in Bssids : disassoc_push(s, b)
  \/ \E dst \in Stas \cup {Group}, dscp \in Dscps :
       \E dms \in Policies(dst) : tee_push(dst, dscp, dms)
  \/ \E s \in Stas, b \in Bssids, dst \in Stas \cup {Group}, dscp \in Dscps :
       \E dms \in Policies(dst) : decap_push(s, b, dst, dscp, dms)

DroppedAfter ==
  {d \in Ifaces \X Ssids : /\ <<d[2], 0>> \notin rules'[d[1]]
                           /\ d \in dropped \/ <<d[2], 0>> \in rules[d[1]]}

DataInit ==
  /\ Init
  /\ strayed = {}
  /\ dropped = {}

DataNext ==
  /\ \/ \E m \in AddMsgs : AddStrays(m)
     \/ \E m \in DelMsgs : DelStrays(m)
     \/ TimerStrays
     \/ OtherMessage /\ UNCHANGED strayed
     \/ Frames /\ UNCHANGED strayed
  /\ dropped' = DroppedAfter

DataSpec == DataInit /\ [][DataNext]_dvars

-----------------------------------------------------------------------------
(***************************************************************************)
(* Properties.                                                             *)
(***************************************************************************)

\* What station s takes for itself out of a set of frames.
HeardBy(s, frames) ==
  {c \in frames : /\ c.iface = lvaps[s].iface
                  /\ c.ta = lvaps[s].lvap_bssid
                  /\ c.ra \in {s, Group}}

AllServed == UNION {Served(i) : i \in Ifaces}

\* A group frame reaches every station it is sent to exactly once, whatever
\* the multicast policy of each interface and whichever BSSIDs the stations
\* share (EmpowerTee::push, EmpowerQOSManager::push): never twice, and not at
\* all only under a policy other than DMS when the VAP a shared LVAP belongs
\* to is not on its interface.
GroupReachesOnce ==
  \A dms \in SUBSET Ifaces, s \in AllServed :
    LET heard == HeardBy(s, Copies(Group, dms))
        i     == lvaps[s].iface
        b     == lvaps[s].lvap_bssid
    IN  /\ \A c, d \in heard : c = d
        /\ heard = {} =>
             /\ i \notin dms
             /\ Shared(s)
             /\ b \in VapBssids => vaps[b] = NoVap \/ vaps[b].iface # i

\* EmpowerWifiEncap reaches every station exactly once as well, in whichever
\* order it visits the LVAPs and however many of them share a BSSID: sent stops
\* the second frame of a BSSID and never the first.  Under UR, which its push
\* leaves to be implemented, nothing is sent.
EncapReachesOnce ==
  \A p \in Mcast, pos \in Orders, s \in AllServed :
    LET heard == HeardBy(s, encap_group(lvaps[s].iface, p, pos)) IN
    IF p = "ur" THEN heard = {} ELSE \E c \in heard : heard = {c}

\* Every copy the data path makes finds the default queue of its tenant, the
\* one store falls back to without a check, unless the controller deleted the
\* rule, or the LVAP was steered or updated away from the interface whose
\* rule its last add_lvap made, or it has no tenant.
CopiesQueued ==
  \A dst \in Stas \cup {Group} : \A dms \in Policies(dst) :
    \A c \in Copies(dst, dms) :
      \/ <<c.ssid, 0>> \in rules[c.iface]
      \/ <<c.iface, c.ssid>> \in dropped
      \/ c.ra \in strayed
      \/ c.ssid = ""
=============================================================================

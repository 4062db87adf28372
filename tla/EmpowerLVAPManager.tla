------------------------- MODULE EmpowerLVAPManager -------------------------
(***************************************************************************)
(* The LVAP and VAP tables of one EmPOWER access point (WTP) and every     *)
(* handler that changes them: the controller messages of                   *)
(* EmpowerLVAPManager, the beacon timer of EmpowerBeaconSource that runs   *)
(* the channel switch announcement (CSA) countdown, and the 802.11 frames  *)
(* handled by the authentication, deauthentication and disassociation      *)
(* responders.                                                             *)
(*                                                                         *)
(* Click runs these handlers on one router thread, so each is one action.  *)
(* A handler that returns without changing the tables is a stuttering step *)
(* and is left out.  Status messages, beacons and other frames are         *)
(* functions of the tables and are left out as well.                       *)
(*                                                                         *)
(* Data: a block is the triple (hwaddr, channel, band) of a resource       *)
(* element; an address is the set of its one bits; SSIDs are opaque.  The  *)
(* fields that no guard and no property reads are left out (encap, ssids,  *)
(* supported band, CSA mode; assoc_id is set and reset with ssid).         *)
(***************************************************************************)
EXTENDS Naturals, Sequences

CONSTANTS
  Stas,         \* stations
  Bits,         \* bit positions of an Ethernet address
  NetBssid,     \* NetBssid[s]: the address the controller derives for s
  VapBssids,    \* BSSIDs of the shared VAPs
  Ssids,        \* SSIDs (tenants); "" is the empty one
  Dscps,        \* DSCP classes of traffic rules, 0 among them
  Ifaces,       \* interface ids of this WTP
  NoIface,      \* the -1 of element_to_iface
  Blocks,       \* resource elements, hosted by this WTP or by another one
  NoBlock,      \* the default CSA target, whose channel is 0
  ChannelOf,    \* ChannelOf[b]: channel of block b
  HwAddr,       \* HwAddr[b]: hardware address of block b
  Element,      \* Element[i]: the block of interface i (_ifaces_to_elements)
  NoLvap,       \* marks a station without an entry in _lvaps
  NoVap,        \* marks a BSSID without an entry in _vaps
  AddMsgs,      \* the add_lvap messages a controller may send
  DelMsgs,      \* the del_lvap messages a controller may send
  VapMsgs,      \* the add_vap messages a controller may send
  RuleMsgs,     \* the traffic rules (block, ssid, dscp) it may set or delete
  PortMsgs,     \* the ports (block, sta) it may set or delete
  MaxRequests   \* bound on add_lvap and del_lvap messages

Addresses == SUBSET Bits

Bssids == {NetBssid[s] : s \in Stas} \cup VapBssids

SsidOrNone == Ssids \cup {""}

ASSUME AddressAssumption ==
  /\ NetBssid \in [Stas -> Addresses]
  /\ VapBssids \subseteq Addresses

ASSUME BlockAssumption ==
  /\ NoIface \notin Ifaces
  /\ NoBlock \notin Blocks
  /\ ChannelOf \in [Blocks -> Nat \ {0}]
  /\ HwAddr \in [Blocks -> Addresses]
  /\ Element \in [Ifaces -> Blocks]

VARIABLES
  lvaps,     \* lvaps[s]: the EmpowerStationState of s, or NoLvap
  vaps,      \* vaps[b]: the EmpowerVAPState of BSSID b, or NoVap
  masks,     \* masks[i]: one bits of the BSSID mask register of i
  rules,     \* rules[i]: keys (ssid, dscp) of the traffic rules of i
  txp,       \* txp[i]: stations with a transmission policy on i
  ports,     \* whether _ports is set: without it no message leaves
  agent,     \* "up", or how the process died
  requests,  \* history: the add_lvap and del_lvap messages, id = position
  replies    \* history: replies[id]: the responses carrying module id id

vars == <<lvaps, vaps, masks, rules, txp, ports, agent, requests,
          replies>>

Kinds == {"add", "del"}

Ids == 1..MaxRequests

Lvap == [lvap_bssid: Bssids, ssid: SsidOrNone, block: Blocks, iface: Ifaces,
         set_mask: BOOLEAN, auth: BOOLEAN, assoc: BOOLEAN,
         csa_active: BOOLEAN, count: Nat, target: Blocks \cup {NoBlock},
         add_id: Ids \cup {0}, del_id: Ids \cup {0}]

Vap == [ssid: SsidOrNone, iface: Ifaces]

AddLvapMsgs ==
  [sta: Stas, lvap_bssid: Bssids, ssid: SsidOrNone, block: Blocks,
   set_mask: BOOLEAN, auth: BOOLEAN, assoc: BOOLEAN, two_ssids: BOOLEAN]

DelLvapMsgs == [sta: Stas, target: Blocks \cup {NoBlock}, count: Nat]

ASSUME MessageAssumption ==
  /\ AddMsgs \subseteq AddLvapMsgs
  /\ DelMsgs \subseteq DelLvapMsgs
  /\ VapMsgs \subseteq [bssid: VapBssids, ssid: SsidOrNone, block: Blocks]
  /\ RuleMsgs \subseteq [block: Blocks, ssid: Ssids, dscp: Dscps]
  /\ PortMsgs \subseteq [block: Blocks, sta: Stas]
  /\ 0 \in Dscps
  /\ MaxRequests \in Nat

ASSUME MarkAssumption ==
  /\ NoLvap \notin Lvap
  /\ NoVap \notin Vap

Hosted == {s \in Stas : lvaps[s] # NoLvap}

-----------------------------------------------------------------------------
(***************************************************************************)
(* Helpers.                                                                *)
(***************************************************************************)

element_to_iface(b) ==
  IF \E i \in Ifaces : Element[i] = b
  THEN CHOOSE i \in Ifaces : Element[i] = b
  ELSE NoIface

Channel(b) == IF b = NoBlock THEN 0 ELSE ChannelOf[b]

\* Mutant: the VAPs are forgotten.
MaskedBssidsNoVaps(l, v, i) ==
  {NetBssid[s] : s \in {t \in Stas : /\ l[t] # NoLvap
                                     /\ l[t].iface = i
                                     /\ l[t].set_mask}}

\* BSSIDs that enter the mask of interface i: LVAPs with set_mask, and VAPs.
MaskedBssids(l, v, i) ==
  {NetBssid[s] : s \in {t \in Stas : /\ l[t] # NoLvap
                                     /\ l[t].iface = i
                                     /\ l[t].set_mask}}
  \cup {b \in VapBssids : v[b] # NoVap /\ v[b].iface = i}

\* Every mask bit starts at one and is cleared where some BSSID differs from
\* the hardware address of the interface.
compute_bssid_mask(l, v) ==
  [i \in Ifaces |->
     {k \in Bits : \A b \in MaskedBssids(l, v, i) :
                      (k \in b) <=> (k \in HwAddr[Element[i]])}]

\* set_traffic_rule keeps an existing rule.
WithDefaultRule(r, i, ssid) ==
  IF ssid = "" THEN r ELSE [r EXCEPT ![i] = @ \cup {<<ssid, 0>>}]

\* send_add_del_lvap_response; send_message drops it while _ports is empty.
Replied(id, kind) ==
  IF ports THEN [replies EXCEPT ![id] = Append(@, kind)] ELSE replies

Fault(how) ==
  /\ agent' = how
  /\ UNCHANGED <<lvaps, vaps, masks, rules, txp, ports>>

-----------------------------------------------------------------------------
(***************************************************************************)
(* What a handler does to one EmpowerStationState.                         *)
(***************************************************************************)

Created(m) ==
  [lvap_bssid |-> m.lvap_bssid, ssid |-> m.ssid, block |-> m.block,
   iface |-> element_to_iface(m.block), set_mask |-> m.set_mask,
   auth |-> m.auth, assoc |-> m.assoc,
   csa_active |-> FALSE, count |-> 0, target |-> NoBlock,
   add_id |-> 0, del_id |-> 0]

\* Mutant: the block of an existing LVAP is updated, its interface is not.
UpdatedWithBlock(r, m) ==
  [r EXCEPT !.lvap_bssid = m.lvap_bssid, !.ssid = m.ssid, !.block = m.block,
            !.set_mask = m.set_mask, !.auth = m.auth, !.assoc = m.assoc]

\* The block and the interface of an existing LVAP are not updated.
Updated(r, m) ==
  [r EXCEPT !.lvap_bssid = m.lvap_bssid, !.ssid = m.ssid,
            !.set_mask = m.set_mask, !.auth = m.auth, !.assoc = m.assoc]

CsaStarted(r, m, id) ==
  [r EXCEPT !.csa_active = TRUE, !.count = m.count, !.target = m.target,
            !.del_id = id]

\* Mutant: the saved module ids are not reset.
SteeredKeepsIds(r) ==
  [r EXCEPT !.block = r.target, !.iface = element_to_iface(r.target),
            !.csa_active = FALSE, !.count = 0, !.target = NoBlock]

Steered(r) ==
  [r EXCEPT !.block = r.target, !.iface = element_to_iface(r.target),
            !.csa_active = FALSE, !.count = 0, !.target = NoBlock,
            !.del_id = 0, !.add_id = 0]

Authenticated(r) ==
  [r EXCEPT !.auth = TRUE, !.assoc = FALSE, !.ssid = ""]

Deauthenticated(s, r) ==
  [r EXCEPT !.auth = FALSE, !.assoc = FALSE, !.ssid = "",
            !.lvap_bssid = NetBssid[s]]

Disassociated(r) ==
  [r EXCEPT !.assoc = FALSE, !.ssid = ""]

-----------------------------------------------------------------------------
(***************************************************************************)
(* Controller messages that add and remove LVAPs.  Every message carries   *)
(* a module id of its own: its position in requests.                       *)
(***************************************************************************)

Receive(kind, s) ==
  /\ agent = "up"
  /\ Len(requests) < MaxRequests
  /\ requests' = Append(requests, [kind |-> kind, sta |-> s])

NewId == Len(requests) + 1

\* Fewer than two SSID entries, or a block this WTP does not host: ignored.
add_lvap_ignored(m) ==
  /\ Receive("add", m.sta)
  /\ ~m.two_ssids \/ element_to_iface(m.block) = NoIface
  /\ UNCHANGED <<lvaps, vaps, masks, rules, txp, ports, agent, replies>>

AddAccepted(m) ==
  /\ Receive("add", m.sta)
  /\ m.two_ssids
  /\ element_to_iface(m.block) # NoIface

add_lvap_new(m) ==
  /\ AddAccepted(m)
  /\ lvaps[m.sta] = NoLvap
  /\ lvaps' = [lvaps EXCEPT ![m.sta] = Created(m)]
  /\ masks' = compute_bssid_mask(lvaps', vaps)
  /\ replies' = Replied(NewId, "add")
  /\ rules' = WithDefaultRule(rules, element_to_iface(m.block), m.ssid)
  /\ UNCHANGED <<vaps, txp, ports, agent>>

\* During a CSA both the stored target and the block of the message must be
\* the same block of this WTP, or an assertion ends the process.
add_lvap_during_csa(m) ==
  /\ AddAccepted(m)
  /\ lvaps[m.sta] # NoLvap
  /\ lvaps[m.sta].csa_active
  /\ IF element_to_iface(lvaps[m.sta].target) = element_to_iface(m.block)
     THEN /\ lvaps' = [lvaps EXCEPT ![m.sta] = [@ EXCEPT !.add_id = NewId]]
          /\ UNCHANGED <<vaps, masks, rules, txp, ports, agent>>
     ELSE Fault("assert")
  /\ UNCHANGED replies

\* Mutant: only a new LVAP gets the default rule of its tenant.
UpdateWithoutRule(m) ==
  /\ AddAccepted(m)
  /\ lvaps[m.sta] # NoLvap
  /\ ~lvaps[m.sta].csa_active
  /\ lvaps' = [lvaps EXCEPT ![m.sta] = Updated(@, m)]
  /\ replies' = Replied(NewId, "add")
  /\ UNCHANGED <<vaps, masks, rules, txp, ports, agent>>

\* The mask is not recomputed although set_mask may change.
add_lvap_update(m) ==
  /\ AddAccepted(m)
  /\ lvaps[m.sta] # NoLvap
  /\ ~lvaps[m.sta].csa_active
  /\ lvaps' = [lvaps EXCEPT ![m.sta] = Updated(@, m)]
  /\ replies' = Replied(NewId, "add")
  /\ rules' = WithDefaultRule(rules, element_to_iface(m.block), m.ssid)
  /\ UNCHANGED <<vaps, masks, txp, ports, agent>>

handle_add_lvap(m) ==
  \/ add_lvap_ignored(m)
  \/ add_lvap_new(m)
  \/ add_lvap_during_csa(m)
  \/ add_lvap_update(m)

\* Mutant: the policy is forgotten on every interface.
RemoveForgetsEverywhere(s) ==
  /\ txp' = [i \in Ifaces |-> txp[i] \ {s}]
  /\ lvaps' = [lvaps EXCEPT ![s] = NoLvap]
  /\ masks' = compute_bssid_mask(lvaps', vaps)

\* Forget the transmission policy, erase the entry, recompute the masks.
remove_lvap(s) ==
  /\ txp' = [txp EXCEPT ![lvaps[s].iface] = @ \ {s}]
  /\ lvaps' = [lvaps EXCEPT ![s] = NoLvap]
  /\ masks' = compute_bssid_mask(lvaps', vaps)

Shared(s) == lvaps[s].lvap_bssid # NetBssid[s]

\* The target differs from the current channel and is provided at all.
NeedsCsa(m) ==
  /\ ~Shared(m.sta)
  /\ lvaps[m.sta].set_mask
  /\ Channel(m.target) \notin {0, Channel(lvaps[m.sta].block)}

del_lvap_ignored(m) ==
  /\ Receive("del", m.sta)
  /\ lvaps[m.sta] = NoLvap
  /\ UNCHANGED <<lvaps, vaps, masks, rules, txp, ports, agent, replies>>

del_lvap_now(m) ==
  /\ Receive("del", m.sta)
  /\ lvaps[m.sta] # NoLvap
  /\ ~NeedsCsa(m)
  /\ remove_lvap(m.sta)
  /\ replies' = Replied(NewId, "del")
  /\ UNCHANGED <<vaps, rules, ports, agent>>

\* Mutant: the response is sent at once as well.
DelCsaReplies(m) ==
  /\ Receive("del", m.sta)
  /\ lvaps[m.sta] # NoLvap
  /\ NeedsCsa(m)
  /\ lvaps' = [lvaps EXCEPT ![m.sta] = CsaStarted(@, m, NewId)]
  /\ replies' = Replied(NewId, "del")
  /\ UNCHANGED <<vaps, masks, rules, txp, ports, agent>>

\* The response is sent when the countdown ends.
del_lvap_csa(m) ==
  /\ Receive("del", m.sta)
  /\ lvaps[m.sta] # NoLvap
  /\ NeedsCsa(m)
  /\ lvaps' = [lvaps EXCEPT ![m.sta] = CsaStarted(@, m, NewId)]
  /\ UNCHANGED <<vaps, masks, rules, txp, ports, agent, replies>>

handle_del_lvap(m) ==
  \/ del_lvap_ignored(m)
  \/ del_lvap_now(m)
  \/ del_lvap_csa(m)

-----------------------------------------------------------------------------
(***************************************************************************)
(* The beacon timer.  run_timer visits every LVAP in one go.  An LVAP      *)
(* whose countdown ends is removed when its target is another WTP's block, *)
(* and moved to the target block (band steering) when it is one of ours.   *)
(***************************************************************************)

Ending == {s \in Hosted : lvaps[s].csa_active /\ lvaps[s].count = 0}

\* Mutant: the target is not checked for -1.
LeavingUnchecked == {}

Leaving == {s \in Ending : element_to_iface(lvaps[s].target) = NoIface}

\* Mutant: the countdown ends one beacon early.
BeaconEndsEarly(s) ==
  IF s \notin Hosted \/ ~lvaps[s].csa_active
  THEN lvaps[s]
  ELSE IF lvaps[s].count > 1
       THEN [lvaps[s] EXCEPT !.count = @ - 1]
       ELSE IF s \in Leaving THEN NoLvap ELSE Steered(lvaps[s])

\* Mutant: the count is announced but not decremented.
BeaconKeepsCount(s) ==
  IF s \notin Hosted \/ ~lvaps[s].csa_active \/ lvaps[s].count > 0
  THEN lvaps[s]
  ELSE IF s \in Leaving THEN NoLvap ELSE Steered(lvaps[s])

send_lvap_csa_beacon(s) ==
  IF s \notin Hosted \/ ~lvaps[s].csa_active
  THEN lvaps[s]
  ELSE IF lvaps[s].count > 0
       THEN [lvaps[s] EXCEPT !.count = @ - 1]
       ELSE IF s \in Leaving THEN NoLvap ELSE Steered(lvaps[s])

AfterBeacon == [s \in Stas |-> send_lvap_csa_beacon(s)]

\* Mutant: only the del_lvap is answered.
CsaRepliesDelOnly(id) ==
  IF \E s \in Ending : lvaps[s].del_id = id THEN <<"del">> ELSE <<>>

\* Responses that the end of a countdown sends for request id.  Id 0 (no
\* add_lvap arrived during the countdown) is sent too but answers no request.
CsaReplies(id) ==
  (IF \E s \in Ending : lvaps[s].del_id = id THEN <<"del">> ELSE <<>>)
  \o
  (IF \E s \in Ending \ Leaving : lvaps[s].add_id = id THEN <<"add">>
                                                         ELSE <<>>)

\* The order of the visit is the hash table's.  remove_lvap recomputes the
\* masks, so the last removal decides them: the LVAPs visited by then are as
\* after the timer, the others still as before it.  Steering recomputes none.
MasksAfter(visited) ==
  IF Leaving = {}
  THEN masks
  ELSE compute_bssid_mask(
         [s \in Stas |-> IF s \in visited THEN AfterBeacon[s] ELSE lvaps[s]],
         vaps)

run_timer ==
  /\ agent = "up"
  /\ lvaps' = AfterBeacon
  /\ \E visited \in SUBSET Stas :
       Leaving \subseteq visited /\ masks' = MasksAfter(visited)
  /\ txp' = [i \in Ifaces |-> txp[i] \ {s \in Leaving : lvaps[s].iface = i}]
  /\ replies' = IF ports
                THEN [id \in Ids |-> replies[id] \o CsaReplies(id)]
                ELSE replies
  /\ UNCHANGED <<vaps, rules, ports, agent, requests>>

-----------------------------------------------------------------------------
(***************************************************************************)
(* The other controller messages.                                          *)
(***************************************************************************)

History == <<requests, replies>>

\* Mutant: the masks are not recomputed.
AddVapKeepsMasks(m) ==
  /\ agent = "up"
  /\ element_to_iface(m.block) # NoIface
  /\ vaps[m.bssid] = NoVap
  /\ LET i == element_to_iface(m.block) IN
       /\ vaps' = [vaps EXCEPT ![m.bssid] = [ssid |-> m.ssid, iface |-> i]]
       /\ rules' = WithDefaultRule(rules, i, m.ssid)
  /\ UNCHANGED <<lvaps, masks, txp, ports, agent, History>>

\* A known BSSID or a block of another WTP: ignored.
handle_add_vap(m) ==
  /\ agent = "up"
  /\ element_to_iface(m.block) # NoIface
  /\ vaps[m.bssid] = NoVap
  /\ LET i == element_to_iface(m.block) IN
       /\ vaps' = [vaps EXCEPT ![m.bssid] = [ssid |-> m.ssid, iface |-> i]]
       /\ masks' = compute_bssid_mask(lvaps, vaps')
       /\ rules' = WithDefaultRule(rules, i, m.ssid)
  /\ UNCHANGED <<lvaps, txp, ports, agent, History>>

handle_del_vap(b) ==
  /\ agent = "up"
  /\ vaps[b] # NoVap
  /\ vaps' = [vaps EXCEPT ![b] = NoVap]
  /\ masks' = compute_bssid_mask(lvaps, vaps')
  /\ UNCHANGED <<lvaps, rules, txp, ports, agent, History>>

\* The index of a foreign block is -1, outside _eqms: Vector asserts.
handle_set_traffic_rule(m) ==
  /\ agent = "up"
  /\ IF element_to_iface(m.block) = NoIface
     THEN Fault("assert")
     ELSE /\ rules' = [rules EXCEPT ![element_to_iface(m.block)] =
                                       @ \cup {<<m.ssid, m.dscp>>}]
          /\ UNCHANGED <<lvaps, vaps, masks, txp, ports, agent>>
  /\ UNCHANGED History

handle_del_traffic_rule(m) ==
  /\ agent = "up"
  /\ IF element_to_iface(m.block) = NoIface
     THEN Fault("assert")
     ELSE /\ rules' = [rules EXCEPT ![element_to_iface(m.block)] =
                                       @ \ {<<m.ssid, m.dscp>>}]
          /\ UNCHANGED <<lvaps, vaps, masks, txp, ports, agent>>
  /\ UNCHANGED History

handle_set_port(m) ==
  /\ agent = "up"
  /\ element_to_iface(m.block) # NoIface
  /\ txp' = [txp EXCEPT ![element_to_iface(m.block)] = @ \cup {m.sta}]
  /\ UNCHANGED <<lvaps, vaps, masks, rules, ports, agent, History>>

handle_del_port(m) ==
  /\ agent = "up"
  /\ element_to_iface(m.block) # NoIface
  /\ txp' = [txp EXCEPT ![element_to_iface(m.block)] = @ \ {m.sta}]
  /\ UNCHANGED <<lvaps, vaps, masks, rules, ports, agent, History>>

\* Neither handler checks that the LVAP is still there.
handle_auth_response(s) ==
  /\ agent = "up"
  /\ IF s \in Hosted
     THEN /\ lvaps' = [lvaps EXCEPT ![s] = Authenticated(@)]
          /\ UNCHANGED <<vaps, masks, rules, txp, ports, agent>>
     ELSE Fault("segv")
  /\ UNCHANGED History

handle_assoc_response(s) ==
  /\ agent = "up"
  /\ IF s \in Hosted
     THEN /\ lvaps' = [lvaps EXCEPT ![s] = [@ EXCEPT !.assoc = TRUE]]
          /\ UNCHANGED <<vaps, masks, rules, txp, ports, agent>>
     ELSE Fault("segv")
  /\ UNCHANGED History

\* The ports handler of the control socket; it refuses a second call.
write_ports ==
  /\ agent = "up"
  /\ ~ports
  /\ ports' = TRUE
  /\ UNCHANGED <<lvaps, vaps, masks, rules, txp, agent, History>>

-----------------------------------------------------------------------------
(***************************************************************************)
(* 802.11 management frames from station s for BSSID b.                    *)
(***************************************************************************)

FrameAccepted(s, b) ==
  /\ agent = "up"
  /\ s \in Hosted
  /\ ~lvaps[s].csa_active
  /\ lvaps[s].set_mask
  /\ lvaps[s].lvap_bssid = b

\* An authentication for another BSSID goes to the controller instead.
auth_push(s, b, i) ==
  /\ FrameAccepted(s, b)
  /\ lvaps[s].iface = i
  /\ lvaps' = [lvaps EXCEPT ![s] = Authenticated(@)]
  /\ UNCHANGED <<vaps, masks, rules, txp, ports, agent, History>>

deauth_push(s, b) ==
  /\ FrameAccepted(s, b)
  /\ lvaps' = [lvaps EXCEPT ![s] = Deauthenticated(s, @)]
  /\ UNCHANGED <<vaps, masks, rules, txp, ports, agent, History>>

disassoc_push(s, b) ==
  /\ FrameAccepted(s, b)
  /\ lvaps' = [lvaps EXCEPT ![s] = Disassociated(@)]
  /\ UNCHANGED <<vaps, masks, rules, txp, ports, agent, History>>

-----------------------------------------------------------------------------
(***************************************************************************)
(* The specification.                                                      *)
(***************************************************************************)

\* initialize computes the masks of the empty tables: one in every bit.
Init ==
  /\ lvaps = [s \in Stas |-> NoLvap]
  /\ vaps = [b \in VapBssids |-> NoVap]
  /\ masks = compute_bssid_mask(lvaps, vaps)
  /\ rules = [i \in Ifaces |-> {}]
  /\ txp = [i \in Ifaces |-> {}]
  /\ ports = FALSE
  /\ agent = "up"
  /\ requests = <<>>
  /\ replies = [id \in Ids |-> <<>>]

Next ==
  \/ \E m \in AddMsgs : handle_add_lvap(m)
  \/ \E m \in DelMsgs : handle_del_lvap(m)
  \/ run_timer
  \/ \E m \in VapMsgs : handle_add_vap(m)
  \/ \E b \in VapBssids : handle_del_vap(b)
  \/ \E m \in RuleMsgs : handle_set_traffic_rule(m)
  \/ \E m \in RuleMsgs : handle_del_traffic_rule(m)
  \/ \E m \in PortMsgs : handle_set_port(m)
  \/ \E m \in PortMsgs : handle_del_port(m)
  \/ \E s \in Stas : handle_auth_response(s)
  \/ \E s \in Stas : handle_assoc_response(s)
  \/ write_ports
  \/ \E s \in Stas, b \in Bssids, i \in Ifaces : auth_push(s, b, i)
  \/ \E s \in Stas, b \in Bssids : deauth_push(s, b)
  \/ \E s \in Stas, b \in Bssids : disassoc_push(s, b)

Spec == Init /\ [][Next]_vars

\* The beacon timer re-arms itself every period.
FairSpec == Spec /\ WF_vars(run_timer)

-----------------------------------------------------------------------------
(***************************************************************************)
(* Properties that hold.                                                   *)
(***************************************************************************)

\* The types of the tables, of the registers and of the history.
TypeOK ==
  /\ lvaps \in [Stas -> Lvap \cup {NoLvap}]
  /\ vaps \in [VapBssids -> Vap \cup {NoVap}]
  /\ masks \in [Ifaces -> SUBSET Bits]
  /\ rules \in [Ifaces -> SUBSET (Ssids \X Dscps)]
  /\ txp \in [Ifaces -> SUBSET Stas]
  /\ ports \in BOOLEAN
  /\ agent \in {"up", "assert", "segv"}
  /\ requests \in Seq([kind: Kinds, sta: Stas])
  /\ Len(requests) <= MaxRequests
  /\ replies \in [Ids -> Seq(Kinds)]

\* A channel switch is only ever under way for an LVAP with its own BSSID
\* and the mask set, towards another channel, with a del_lvap to answer; an
\* LVAP without one keeps none of the CSA fields (handle_del_lvap starts it,
\* every other handler and frame leaves these facts alone).
CsaConsistent(s, r) ==
  IF r.csa_active
  THEN /\ r.lvap_bssid = NetBssid[s]
       /\ r.set_mask
       /\ Channel(r.target) \notin {0, Channel(r.block)}
       /\ r.del_id # 0
  ELSE /\ r.target = NoBlock
       /\ r.count = 0
       /\ r.add_id = 0
       /\ r.del_id = 0

CsaInv == \A s \in Hosted : CsaConsistent(s, lvaps[s])

\* The interface an LVAP sends on is the one of its block: add_lvap never
\* updates one without the other, and steering moves both.
IfaceMatchesBlock ==
  \A s \in Hosted : Element[lvaps[s].iface] = lvaps[s].block

\* Every add_lvap and del_lvap is answered at most once and by a response of
\* its own kind, whether it is answered at once by its handler or, with the
\* id kept in the LVAP, by the beacon timer at the end of the countdown.
AnsweredOnce ==
  \A id \in Ids :
    replies[id] # <<>> =>
      /\ id \in 1..Len(requests)
      /\ replies[id] = <<requests[id].kind>>

\* The ids an LVAP keeps for the end of a countdown are those of unanswered
\* requests for that very station, one of each kind (handle_add_lvap and
\* handle_del_lvap store them, send_lvap_csa_beacon uses and resets them).
Open(id, kind, s, rq, rp) ==
  \/ id = 0
  \/ /\ id \in 1..Len(rq)
     /\ rq[id] = [kind |-> kind, sta |-> s]
     /\ rp[id] = <<>>

KeptIdsOpen ==
  \A s \in Hosted : /\ Open(lvaps[s].add_id, "add", s, requests, replies)
                    /\ Open(lvaps[s].del_id, "del", s, requests, replies)

\* An interface acknowledges frames for every VAP it hosts, whatever LVAPs
\* came, moved and left meanwhile: the mask has a zero wherever the BSSID
\* differs from the hardware address (compute_bssid_mask and its callers).
Acks(i, bssid) ==
  \A k \in masks[i] : (k \in bssid) <=> (k \in HwAddr[Element[i]])

VapsAcked ==
  \A b \in VapBssids : vaps[b] # NoVap => Acks(vaps[b].iface, b)

\* An LVAP changes its interface only when its countdown is over, to the
\* target of the last del_lvap; until then the announced switch stands: no
\* message or frame changes where it is, its BSSID or its mask flag.
SwitchOnlyAfterCountdown ==
  [][\A s \in Hosted \cap Hosted' :
       /\ lvaps'[s].iface # lvaps[s].iface =>
            /\ lvaps[s].csa_active
            /\ lvaps[s].count = 0
            /\ lvaps'[s].iface = element_to_iface(lvaps[s].target)
       /\ lvaps[s].csa_active /\ lvaps'[s].csa_active =>
            /\ lvaps'[s].block = lvaps[s].block
            /\ lvaps'[s].lvap_bssid = lvaps[s].lvap_bssid
            /\ lvaps'[s].set_mask = lvaps[s].set_mask]_vars

\* The policy of a station disappears from an interface only with the LVAP it
\* has there, or by a del_port, which touches nothing else: another LVAP's
\* countdown or removal never takes it away (remove_lvap, run_timer).
PolicyOutlivesOthers ==
  [][\A i \in Ifaces, s \in Stas :
       s \in txp[i] \ txp'[i] =>
         \/ s \in Hosted /\ lvaps[s].iface = i /\ lvaps'[s] = NoLvap
         \/ lvaps' = lvaps]_vars

\* Every countdown ends (the beacon timer decrements it and then removes or
\* moves the LVAP), unless the process dies.
CsaTerminates ==
  \A s \in Stas :
    (s \in Hosted /\ lvaps[s].csa_active)
      ~> (s \notin Hosted \/ ~lvaps[s].csa_active \/ agent # "up")

\* A request whose id an LVAP keeps is answered by the end of the countdown,
\* unless a later del_lvap or request of its kind for the same station
\* overtakes it, or the process dies.
KeptId(id) == \E s \in Hosted : id \in {lvaps[s].add_id, lvaps[s].del_id}

Overtaken(id) ==
  \E j \in (id + 1)..Len(requests) :
    /\ requests[j].sta = requests[id].sta
    /\ requests[j].kind \in {"del", requests[id].kind}

KeptIdAnswered ==
  \A id \in Ids :
    (ports /\ KeptId(id))
      ~> (replies[id] # <<>> \/ Overtaken(id) \/ agent # "up")

-----------------------------------------------------------------------------
(***************************************************************************)
(* What comments in the code say and the code does not do.                 *)
(***************************************************************************)

\* The comment on EmpowerStationState: frames addressed to the net_bssid of
\* an LVAP must be acked by this WTP, that is by the interface it is on.
LvapsAcked ==
  \A s \in Hosted : lvaps[s].set_mask => Acks(lvaps[s].iface, NetBssid[s])
=============================================================================

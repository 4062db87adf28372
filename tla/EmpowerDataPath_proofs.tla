----------------------- MODULE EmpowerDataPath_proofs -----------------------
(***************************************************************************)
(* Proofs about the tables of EmpowerLVAPManager and about the data path   *)
(* that reads them, for any number of stations, VAPs, blocks, interfaces   *)
(* and messages: the state of a channel switch is consistent, a request is *)
(* answered once, a group frame reaches a station once, and a copy finds   *)
(* its queue.                                                              *)
(***************************************************************************)
EXTENDS EmpowerDataPath, WellFoundedInduction, TLAPS

-----------------------------------------------------------------------------
(***************************************************************************)
(* Facts about the helpers and about what a handler does to one LVAP.      *)
(***************************************************************************)

\* element_to_iface returns an interface of this WTP or -1, and an interface
\* it returns is the one of the block it was asked for.
LEMMA IfaceOfBlock ==
  ASSUME NEW b
  PROVE  /\ element_to_iface(b) \in Ifaces \cup {NoIface}
         /\ element_to_iface(b) # NoIface => Element[element_to_iface(b)] = b
<1>1. CASE \E i \in Ifaces : Element[i] = b
  <2> DEFINE j == CHOOSE i \in Ifaces : Element[i] = b
  <2>1. j \in Ifaces /\ Element[j] = b
    BY <1>1
  <2>2. element_to_iface(b) = j
    BY <1>1 DEF element_to_iface
  <2> QED
    BY <2>1, <2>2
<1>2. CASE ~ \E i \in Ifaces : Element[i] = b
  BY <1>2 DEF element_to_iface
<1> QED
  BY <1>1, <1>2

\* A mask is a set of bit positions, whatever the tables are.
LEMMA MaskType ==
  ASSUME NEW l, NEW v
  PROVE  compute_bssid_mask(l, v) \in [Ifaces -> SUBSET Bits]
BY DEF compute_bssid_mask

\* Adding the default rule of a tenant keeps the type of the rules.
LEMMA RuleType ==
  ASSUME NEW r \in [Ifaces -> SUBSET (Ssids \X Dscps)],
         NEW i \in Ifaces, NEW ssid \in SsidOrNone
  PROVE  WithDefaultRule(r, i, ssid) \in [Ifaces -> SUBSET (Ssids \X Dscps)]
<1>1. CASE ssid = ""
  BY Zenon, <1>1 DEF WithDefaultRule
<1>2. CASE ssid # ""
  <2>1. <<ssid, 0>> \in Ssids \X Dscps
    BY Zenon, <1>2, MessageAssumption DEF SsidOrNone
  <2>2. r[i] \cup {<<ssid, 0>>} \in SUBSET (Ssids \X Dscps)
    BY <2>1
  <2> QED
    BY Zenon, <1>2, <2>2 DEF WithDefaultRule
<1> QED
  BY Zenon, <1>1, <1>2

\* A response appends one kind to the history of its id.
LEMMA ReplyType ==
  ASSUME replies \in [Ids -> Seq(Kinds)], NEW id \in Ids, NEW k \in Kinds
  PROVE  Replied(id, k) \in [Ids -> Seq(Kinds)]
<1>1. Append(replies[id], k) \in Seq(Kinds)
  OBVIOUS
<1> QED
  BY <1>1 DEF Replied

\* A new LVAP is well formed, has no switch under way and no id to answer,
\* and is on the interface of its block.
LEMMA CreatedFacts ==
  ASSUME NEW m \in AddLvapMsgs, element_to_iface(m.block) # NoIface
  PROVE  /\ Created(m) \in Lvap
         /\ CsaConsistent(m.sta, Created(m))
         /\ Element[Created(m).iface] = Created(m).block
         /\ Created(m).add_id = 0
         /\ Created(m).del_id = 0
<1>1. element_to_iface(m.block) \in Ifaces
      /\ Element[element_to_iface(m.block)] = m.block
  BY IfaceOfBlock
<1>2. Created(m) \in Lvap
  BY <1>1 DEF Created, Lvap, AddLvapMsgs
<1> QED
  BY <1>1, <1>2 DEF Created, CsaConsistent

\* An update keeps the CSA fields, the block and the interface.
LEMMA UpdatedFacts ==
  ASSUME NEW r \in Lvap, NEW m \in AddLvapMsgs
  PROVE  /\ Updated(r, m) \in Lvap
         /\ ~r.csa_active /\ CsaConsistent(m.sta, r)
              => CsaConsistent(m.sta, Updated(r, m))
         /\ Updated(r, m).iface = r.iface
         /\ Updated(r, m).block = r.block
         /\ Updated(r, m).add_id = r.add_id
         /\ Updated(r, m).del_id = r.del_id
BY Zenon DEF Updated, Lvap, AddLvapMsgs, CsaConsistent

\* A del_lvap that needs a switch starts it with its own id to answer.
LEMMA CsaStartedFacts ==
  ASSUME NEW r \in Lvap, NEW m \in DelLvapMsgs, NEW id \in Ids,
         r.lvap_bssid = NetBssid[m.sta], r.set_mask,
         Channel(m.target) \notin {0, Channel(r.block)}
  PROVE  /\ CsaStarted(r, m, id) \in Lvap
         /\ CsaConsistent(m.sta, CsaStarted(r, m, id))
         /\ CsaStarted(r, m, id).iface = r.iface
         /\ CsaStarted(r, m, id).block = r.block
         /\ CsaStarted(r, m, id).add_id = r.add_id
         /\ CsaStarted(r, m, id).del_id = id
<1>1. id # 0
  BY MessageAssumption DEF Ids
<1> QED
  BY Zenon, <1>1 DEF CsaStarted, Lvap, DelLvapMsgs, CsaConsistent

\* An add_lvap during a switch only leaves its id.
LEMMA AddSavedFacts ==
  ASSUME NEW s, NEW r \in Lvap, NEW id \in Ids, r.csa_active
  PROVE  LET q == [r EXCEPT !.add_id = id] IN
         /\ q \in Lvap
         /\ CsaConsistent(s, r) => CsaConsistent(s, q)
         /\ q.iface = r.iface
         /\ q.block = r.block
         /\ q.add_id = id
         /\ q.del_id = r.del_id
BY DEF Lvap, CsaConsistent

\* A beacon that announces the switch only decrements the count.
LEMMA AnnouncedFacts ==
  ASSUME NEW s, NEW r \in Lvap, r.csa_active, r.count > 0
  PROVE  LET q == [r EXCEPT !.count = @ - 1] IN
         /\ q \in Lvap
         /\ CsaConsistent(s, r) => CsaConsistent(s, q)
         /\ q.iface = r.iface
         /\ q.block = r.block
         /\ q.add_id = r.add_id
         /\ q.del_id = r.del_id
BY DEF Lvap, CsaConsistent

\* Steering moves block and interface together and clears the CSA fields.
LEMMA SteeredFacts ==
  ASSUME NEW s, NEW r \in Lvap, element_to_iface(r.target) # NoIface
  PROVE  /\ Steered(r) \in Lvap
         /\ CsaConsistent(s, Steered(r))
         /\ Element[Steered(r).iface] = Steered(r).block
         /\ Steered(r).add_id = 0
         /\ Steered(r).del_id = 0
<1>1. /\ element_to_iface(r.target) \in Ifaces
      /\ Element[element_to_iface(r.target)] = r.target
  BY IfaceOfBlock
<1>2. r.target \in Blocks
  BY <1>1, BlockAssumption
<1>3. Steered(r) \in Lvap
  BY Zenon, <1>1, <1>2 DEF Steered, Lvap
<1> QED
  BY <1>1, <1>3 DEF Steered, Lvap, CsaConsistent

\* What a frame or a response of the controller does to an LVAP keeps its
\* CSA fields, its block and its interface.
SameCsa(q, r) ==
  /\ q.iface = r.iface
  /\ q.block = r.block
  /\ q.add_id = r.add_id
  /\ q.del_id = r.del_id

LEMMA FrameFacts ==
  ASSUME NEW s \in Stas, NEW r \in Lvap
  PROVE  /\ Authenticated(r) \in Lvap
         /\ SameCsa(Authenticated(r), r)
         /\ CsaConsistent(s, r) => CsaConsistent(s, Authenticated(r))
         /\ [r EXCEPT !.assoc = TRUE] \in Lvap
         /\ SameCsa([r EXCEPT !.assoc = TRUE], r)
         /\ CsaConsistent(s, r) => CsaConsistent(s, [r EXCEPT !.assoc = TRUE])
         /\ Deauthenticated(s, r) \in Lvap
         /\ SameCsa(Deauthenticated(s, r), r)
         /\ CsaConsistent(s, r) => CsaConsistent(s, Deauthenticated(s, r))
         /\ Disassociated(r) \in Lvap
         /\ SameCsa(Disassociated(r), r)
         /\ CsaConsistent(s, r) => CsaConsistent(s, Disassociated(r))
<1> USE DEF Lvap, CsaConsistent, SameCsa, SsidOrNone
<1>1. /\ Authenticated(r) \in Lvap
      /\ SameCsa(Authenticated(r), r)
      /\ CsaConsistent(s, r) => CsaConsistent(s, Authenticated(r))
  BY Zenon DEF Authenticated
<1>2. /\ [r EXCEPT !.assoc = TRUE] \in Lvap
      /\ SameCsa([r EXCEPT !.assoc = TRUE], r)
      /\ CsaConsistent(s, r) => CsaConsistent(s, [r EXCEPT !.assoc = TRUE])
  BY Zenon
<1>3. /\ Deauthenticated(s, r) \in Lvap
      /\ SameCsa(Deauthenticated(s, r), r)
      /\ CsaConsistent(s, r) => CsaConsistent(s, Deauthenticated(s, r))
  BY ZenonT(30) DEF Deauthenticated, Bssids
<1>4. /\ Disassociated(r) \in Lvap
      /\ SameCsa(Disassociated(r), r)
      /\ CsaConsistent(s, r) => CsaConsistent(s, Disassociated(r))
  BY Zenon DEF Disassociated
<1> QED
  BY Zenon, <1>1, <1>2, <1>3, <1>4

-----------------------------------------------------------------------------
(***************************************************************************)
(* The inductive invariant, in four parts: the LVAP table, the history,    *)
(* the ids kept in the table, and the types of the rest.  AnsweredOnce     *)
(* alone is not inductive: the beacon timer answers the ids it finds in    *)
(* the LVAPs, so the invariant has to say whose ids those are              *)
(* (KeptIdsOpen).                                                          *)
(***************************************************************************)

LvapTable == [Stas -> Lvap \cup {NoLvap}]

\* The conjuncts of TypeOK and of the other table invariants about lvaps.
LvapInv ==
  /\ lvaps \in LvapTable
  /\ CsaInv
  /\ IfaceMatchesBlock

\* Writing one consistent LVAP keeps the table consistent.
LEMMA WriteLvap ==
  ASSUME LvapInv, NEW s \in Stas, NEW q \in Lvap,
         lvaps' = [lvaps EXCEPT ![s] = q],
         CsaConsistent(s, q), Element[q.iface] = q.block
  PROVE  LvapInv'
<1>1. lvaps' \in LvapTable
  BY DEF LvapInv, LvapTable
<1>2. \A t \in Stas : lvaps'[t] = IF t = s THEN q ELSE lvaps[t]
  BY DEF LvapInv, LvapTable
<1>3. CsaInv'
  <2> SUFFICES ASSUME NEW t \in Stas, lvaps'[t] # NoLvap
               PROVE  CsaConsistent(t, lvaps'[t])
    BY Zenon DEF CsaInv, Hosted, CsaConsistent, Channel
  <2> QED
    BY <1>2 DEF LvapInv, CsaInv, Hosted
<1>4. IfaceMatchesBlock'
  BY <1>2 DEF LvapInv, IfaceMatchesBlock, Hosted
<1> QED
  BY <1>1, <1>3, <1>4 DEF LvapInv

\* So does erasing one.
LEMMA EraseLvap ==
  ASSUME LvapInv, NEW s \in Stas,
         lvaps' = [lvaps EXCEPT ![s] = NoLvap]
  PROVE  LvapInv'
<1>1. lvaps' \in LvapTable
  BY DEF LvapInv, LvapTable
<1>2. \A t \in Stas : lvaps'[t] = IF t = s THEN NoLvap ELSE lvaps[t]
  BY DEF LvapInv, LvapTable
<1>3. CsaInv'
  <2> SUFFICES ASSUME NEW t \in Stas, lvaps'[t] # NoLvap
               PROVE  CsaConsistent(t, lvaps'[t])
    BY Zenon DEF CsaInv, Hosted, CsaConsistent, Channel
  <2> QED
    BY <1>2 DEF LvapInv, CsaInv, Hosted
<1>4. IfaceMatchesBlock'
  BY <1>2 DEF LvapInv, IfaceMatchesBlock, Hosted
<1> QED
  BY <1>1, <1>3, <1>4 DEF LvapInv

\* And leaving the table alone.
LEMMA SameLvaps ==
  ASSUME LvapInv, lvaps' = lvaps
  PROVE  LvapInv'
BY DEF LvapInv, CsaInv, IfaceMatchesBlock, Hosted, CsaConsistent

-----------------------------------------------------------------------------
(***************************************************************************)
(* The history: what a request and its answer do to the ids.               *)
(***************************************************************************)

HistoryOK ==
  /\ requests \in Seq([kind: Kinds, sta: Stas])
  /\ Len(requests) <= MaxRequests
  /\ replies \in [Ids -> Seq(Kinds)]
  /\ AnsweredOnce

\* A request that is answered at once, or not now, keeps every kept id open,
\* and its own id is open as long as it is not answered.
LEMMA ReceiveKeepsHistory ==
  ASSUME HistoryOK, NEW kind \in Kinds, NEW s \in Stas, Receive(kind, s),
         replies' = replies \/ replies' = Replied(NewId, kind)
  PROVE  /\ HistoryOK'
         /\ NewId \in Ids
         /\ replies' = replies => Open(NewId, kind, s, requests', replies')
         /\ \A t \in Stas, k \in Kinds, id \in Nat :
              Open(id, k, t, requests, replies) =>
                Open(id, k, t, requests', replies')
<1> DEFINE n == Len(requests) + 1
           e == [kind |-> kind, sta |-> s]
<1>1. /\ n \in Ids
      /\ n = NewId
      /\ n \notin 1..Len(requests)
  BY MessageAssumption DEF HistoryOK, Receive, Ids, NewId
<1>2. /\ requests' = Append(requests, e)
      /\ e \in [kind: Kinds, sta: Stas]
  BY DEF Receive
<1>3. /\ requests' \in Seq([kind: Kinds, sta: Stas])
      /\ Len(requests') = n
      /\ requests'[n] = e
      /\ \A id \in 1..Len(requests) : requests'[id] = requests[id]
      /\ n <= MaxRequests
  BY <1>1, <1>2, MessageAssumption DEF HistoryOK, Ids
<1>4. replies[n] = <<>>
  BY <1>1 DEF HistoryOK, AnsweredOnce
<1>5. /\ replies' \in [Ids -> Seq(Kinds)]
      /\ \A id \in Ids : id # n => replies'[id] = replies[id]
      /\ replies'[n] \in {<<>>, <<kind>>}
      /\ replies' = replies => replies'[n] = <<>>
  <2>1. CASE replies' = replies
    BY <2>1, <1>4 DEF HistoryOK
  <2>2. CASE replies' = Replied(NewId, kind)
    <3>1. Append(replies[n], kind) = <<kind>>
      BY <1>4
    <3>2. replies' \in [Ids -> Seq(Kinds)]
      BY <2>2, <1>1, ReplyType DEF HistoryOK
    <3> QED
      BY Zenon, <2>2, <1>1, <1>4, <3>1, <3>2 DEF HistoryOK, Replied
  <2> QED
    BY <2>1, <2>2
<1>6. AnsweredOnce'
  <2> SUFFICES ASSUME NEW id \in Ids, replies'[id] # <<>>
               PROVE  /\ id \in 1..Len(requests')
                      /\ replies'[id] = <<requests'[id].kind>>
    BY DEF AnsweredOnce
  <2>1. CASE id = n
    BY <2>1, <1>3, <1>5 DEF Ids
  <2>2. CASE id # n
    <3>1. replies'[id] = replies[id]
      BY <2>2, <1>5
    <3>2. /\ id \in 1..Len(requests)
          /\ replies[id] = <<requests[id].kind>>
      BY <3>1 DEF HistoryOK, AnsweredOnce
    <3>3. requests'[id] = requests[id]
      BY <3>2, <1>3
    <3>4. id \in 1..Len(requests')
      <4>1. Len(requests) \in Nat
        BY DEF HistoryOK
      <4> QED
        BY <4>1, <3>2, <1>3
    <3> QED
      BY <3>1, <3>2, <3>3, <3>4
  <2> QED
    BY <2>1, <2>2
<1>7. ASSUME NEW t \in Stas, NEW k \in Kinds, NEW id \in Nat,
             Open(id, k, t, requests, replies)
      PROVE  Open(id, k, t, requests', replies')
  <2>1. CASE id = 0
    BY <2>1 DEF Open
  <2>2. CASE id # 0
    <3>1. /\ id \in 1..Len(requests)
          /\ requests[id] = [kind |-> k, sta |-> t]
          /\ replies[id] = <<>>
      BY <2>2, <1>7 DEF Open
    <3>2. id \in Ids /\ id # n /\ id \in 1..Len(requests')
      BY <3>1, <1>1, <1>3, MessageAssumption DEF Ids, HistoryOK
    <3> QED
      BY Zenon, <3>1, <3>2, <1>3, <1>5 DEF Open
  <2> QED
    BY <2>1, <2>2
<1>8. replies' = replies => Open(NewId, kind, s, requests', replies')
  BY <1>1, <1>3, <1>5 DEF Open, Ids
<1> QED
  BY <1>1, <1>3, <1>5, <1>6, <1>7, <1>8 DEF HistoryOK

-----------------------------------------------------------------------------
(***************************************************************************)
(* Every step keeps the invariant.                                         *)
(***************************************************************************)

RestOK ==
  /\ vaps \in [VapBssids -> Vap \cup {NoVap}]
  /\ masks \in [Ifaces -> SUBSET Bits]
  /\ rules \in [Ifaces -> SUBSET (Ssids \X Dscps)]
  /\ txp \in [Ifaces -> SUBSET Stas]
  /\ ports \in BOOLEAN
  /\ agent \in {"up", "assert", "segv"}

IInv == LvapInv /\ RestOK /\ HistoryOK /\ KeptIdsOpen

\* A step that receives no request and gives none of its responses keeps the
\* ids open if it neither adds an LVAP nor changes a kept id.
LEMMA QuietStepKeepsIds ==
  ASSUME IInv, UNCHANGED <<requests, replies>>,
         \A t \in Stas : lvaps'[t] # NoLvap =>
           /\ lvaps[t] # NoLvap
           /\ lvaps'[t].add_id = lvaps[t].add_id
           /\ lvaps'[t].del_id = lvaps[t].del_id
  PROVE  HistoryOK' /\ KeptIdsOpen'
<1>1. HistoryOK'
  BY DEF IInv, HistoryOK, AnsweredOnce
<1>2. KeptIdsOpen'
  BY DEF IInv, KeptIdsOpen, Hosted
<1> QED
  BY <1>1, <1>2

\* In a step that receives request (kind, s), the ids stay open if those in
\* the table are old ones, 0, or the new one when it is not answered yet.
LEMMA RequestStepKeepsIds ==
  ASSUME IInv, NEW kind \in Kinds, NEW s \in Stas, Receive(kind, s),
         replies' = replies \/ replies' = Replied(NewId, kind),
         \A t \in Stas : lvaps'[t] # NoLvap =>
           /\ \/ lvaps'[t].add_id = 0
              \/ lvaps[t] # NoLvap /\ lvaps'[t].add_id = lvaps[t].add_id
              \/ t = s /\ kind = "add" /\ replies' = replies
                 /\ lvaps'[t].add_id = NewId
           /\ \/ lvaps'[t].del_id = 0
              \/ lvaps[t] # NoLvap /\ lvaps'[t].del_id = lvaps[t].del_id
              \/ t = s /\ kind = "del" /\ replies' = replies
                 /\ lvaps'[t].del_id = NewId
  PROVE  HistoryOK' /\ KeptIdsOpen'
<1>1. /\ HistoryOK'
      /\ replies' = replies => Open(NewId, kind, s, requests', replies')
      /\ \A t \in Stas, k \in Kinds, id \in Nat :
           Open(id, k, t, requests, replies) =>
             Open(id, k, t, requests', replies')
  BY ReceiveKeepsHistory DEF IInv
<1>2. \A t \in Stas : lvaps[t] # NoLvap =>
        /\ lvaps[t].add_id \in Nat
        /\ lvaps[t].del_id \in Nat
        /\ Open(lvaps[t].add_id, "add", t, requests, replies)
        /\ Open(lvaps[t].del_id, "del", t, requests, replies)
  BY DEF IInv, LvapInv, LvapTable, Lvap, Ids, KeptIdsOpen, Hosted
<1>3. \A t \in Stas, k \in Kinds : Open(0, k, t, requests', replies')
  BY DEF Open
<1>4. ASSUME NEW t \in Stas, lvaps'[t] # NoLvap
      PROVE  /\ Open(lvaps'[t].add_id, "add", t, requests', replies')
             /\ Open(lvaps'[t].del_id, "del", t, requests', replies')
  <2>1. Open(lvaps'[t].add_id, "add", t, requests', replies')
    BY <1>1, <1>2, <1>3, <1>4 DEF Kinds
  <2>2. Open(lvaps'[t].del_id, "del", t, requests', replies')
    BY Zenon, <1>1, <1>2, <1>3, <1>4 DEF Kinds
  <2> QED
    BY <2>1, <2>2
<1>5. KeptIdsOpen'
  BY Zenon, <1>4 DEF KeptIdsOpen, Hosted
<1> QED
  BY <1>1, <1>5

\* handle_add_lvap keeps the invariant on each of its four paths.
LEMMA AddLvapKeepsInv ==
  ASSUME IInv, NEW m \in AddMsgs, handle_add_lvap(m)
  PROVE  IInv'
<1>1. m \in AddLvapMsgs /\ m.sta \in Stas /\ "add" \in Kinds
  BY MessageAssumption DEF AddLvapMsgs, Kinds
<1>2. CASE add_lvap_ignored(m)
  <2>1. HistoryOK' /\ KeptIdsOpen'
    BY <1>1, <1>2, RequestStepKeepsIds DEF add_lvap_ignored
  <2>2. LvapInv' /\ RestOK'
    BY <1>2, SameLvaps DEF add_lvap_ignored, IInv, RestOK
  <2> QED
    BY <2>1, <2>2 DEF IInv
<1>3. CASE add_lvap_new(m)
  <2> DEFINE i == element_to_iface(m.block)
  <2>1. /\ i \in Ifaces
        /\ Created(m) \in Lvap
        /\ CsaConsistent(m.sta, Created(m))
        /\ Element[Created(m).iface] = Created(m).block
        /\ Created(m).add_id = 0
        /\ Created(m).del_id = 0
    BY Zenon, <1>1, <1>3, CreatedFacts, IfaceOfBlock DEF add_lvap_new, AddAccepted
  <2>2. /\ lvaps' = [lvaps EXCEPT ![m.sta] = Created(m)]
        /\ \A t \in Stas :
             lvaps'[t] = IF t = m.sta THEN Created(m) ELSE lvaps[t]
    BY <1>1, <1>3 DEF add_lvap_new, IInv, LvapInv, LvapTable
  <2>3. LvapInv'
    BY ZenonT(30), <1>1, <2>1, <2>2, WriteLvap DEF IInv
  <2>4. HistoryOK' /\ KeptIdsOpen'
    BY <1>1, <1>3, <2>1, <2>2, RequestStepKeepsIds
    DEF add_lvap_new, AddAccepted
  <2>5. RestOK'
    <3>1. masks' \in [Ifaces -> SUBSET Bits]
      BY <1>3, MaskType DEF add_lvap_new
    <3>2. rules' \in [Ifaces -> SUBSET (Ssids \X Dscps)]
      BY Zenon, <1>1, <1>3, <2>1, RuleType
      DEF add_lvap_new, IInv, RestOK, AddLvapMsgs
    <3> QED
      BY Zenon, <1>3, <3>1, <3>2 DEF add_lvap_new, IInv, RestOK
  <2> QED
    BY <2>3, <2>4, <2>5 DEF IInv
<1>4. CASE add_lvap_during_csa(m)
  <2> DEFINE r == lvaps[m.sta]
             q == [r EXCEPT !.add_id = NewId]
  <2>1. r \in Lvap /\ r.csa_active /\ CsaConsistent(m.sta, r)
        /\ Element[r.iface] = r.block
    BY <1>1, <1>4 DEF add_lvap_during_csa, IInv, LvapInv, LvapTable, CsaInv,
                      IfaceMatchesBlock, Hosted
  <2>2. CASE element_to_iface(r.target) = element_to_iface(m.block)
    <3>1. NewId \in Ids
      BY <1>1, <1>4, ReceiveKeepsHistory
      DEF add_lvap_during_csa, AddAccepted, IInv
    <3>2. /\ q \in Lvap
          /\ CsaConsistent(m.sta, q)
          /\ q.iface = r.iface
          /\ q.block = r.block
          /\ q.add_id = NewId
          /\ q.del_id = r.del_id
      BY <2>1, <3>1, AddSavedFacts
    <3>3. lvaps' = [lvaps EXCEPT ![m.sta] = q]
      BY <1>4, <2>2 DEF add_lvap_during_csa
    <3>4. \A t \in Stas : lvaps'[t] = IF t = m.sta THEN q ELSE lvaps[t]
      BY <1>1, <3>3 DEF IInv, LvapInv, LvapTable
    <3>5. LvapInv'
      BY Zenon, <1>1, <2>1, <3>2, <3>3, WriteLvap DEF IInv
    <3>6. HistoryOK' /\ KeptIdsOpen'
      <4> HIDE DEF q
      <4>1. Receive("add", m.sta) /\ replies' = replies /\ r # NoLvap
        BY <1>4 DEF add_lvap_during_csa, AddAccepted
      <4>2. \A t \in Stas : lvaps'[t] # NoLvap =>
              /\ lvaps[t] # NoLvap
              /\ \/ lvaps'[t].add_id = lvaps[t].add_id
                 \/ t = m.sta /\ lvaps'[t].add_id = NewId
              /\ lvaps'[t].del_id = lvaps[t].del_id
        BY Zenon, <3>2, <3>4, <4>1
      <4> QED
        BY Zenon, <1>1, <4>1, <4>2, RequestStepKeepsIds
    <3>7. RestOK'
      BY <1>4, <2>2 DEF add_lvap_during_csa, IInv, RestOK
    <3> QED
      BY <3>5, <3>6, <3>7 DEF IInv
  <2>3. CASE element_to_iface(r.target) # element_to_iface(m.block)
    <3>1. HistoryOK' /\ KeptIdsOpen'
      BY <1>1, <1>4, <2>3, RequestStepKeepsIds
      DEF add_lvap_during_csa, AddAccepted, Fault
    <3>2. LvapInv' /\ RestOK'
      BY <1>4, <2>3, SameLvaps DEF add_lvap_during_csa, Fault, IInv, RestOK
    <3> QED
      BY <3>1, <3>2 DEF IInv
  <2> QED
    BY <2>2, <2>3
<1>5. CASE add_lvap_update(m)
  <2> DEFINE r == lvaps[m.sta]
             q == Updated(r, m)
  <2>1. r \in Lvap /\ ~r.csa_active /\ CsaConsistent(m.sta, r)
        /\ Element[r.iface] = r.block
    BY Zenon, <1>1, <1>5 DEF add_lvap_update, IInv, LvapInv, LvapTable, CsaInv,
                      IfaceMatchesBlock, Hosted
  <2>2. /\ q \in Lvap
        /\ CsaConsistent(m.sta, q)
        /\ q.iface = r.iface
        /\ q.block = r.block
        /\ q.add_id = r.add_id
        /\ q.del_id = r.del_id
    BY Zenon, <1>1, <2>1, UpdatedFacts
  <2>3. /\ lvaps' = [lvaps EXCEPT ![m.sta] = q]
        /\ \A t \in Stas : lvaps'[t] = IF t = m.sta THEN q ELSE lvaps[t]
    BY <1>1, <1>5 DEF add_lvap_update, IInv, LvapInv, LvapTable
  <2>4. LvapInv'
    BY Zenon, <1>1, <2>1, <2>2, <2>3, WriteLvap DEF IInv
  <2>5. HistoryOK' /\ KeptIdsOpen'
    BY ZenonT(30), <1>1, <1>5, <2>2, <2>3, RequestStepKeepsIds
    DEF add_lvap_update, AddAccepted
  <2>6. RestOK'
    <3>1. element_to_iface(m.block) \in Ifaces
      BY Zenon, <1>5, IfaceOfBlock DEF add_lvap_update, AddAccepted
    <3>2. rules' \in [Ifaces -> SUBSET (Ssids \X Dscps)]
      BY Zenon, <1>1, <1>5, <3>1, RuleType
      DEF add_lvap_update, IInv, RestOK, AddLvapMsgs
    <3> QED
      BY <1>5, <3>2 DEF add_lvap_update, IInv, RestOK
  <2> QED
    BY <2>4, <2>5, <2>6 DEF IInv
<1> QED
  BY <1>2, <1>3, <1>4, <1>5 DEF handle_add_lvap

\* handle_del_lvap keeps the invariant: unknown LVAP, removal at once, or the
\* start of a channel switch.
LEMMA DelLvapKeepsInv ==
  ASSUME IInv, NEW m \in DelMsgs, handle_del_lvap(m)
  PROVE  IInv'
<1>1. m \in DelLvapMsgs /\ m.sta \in Stas /\ "del" \in Kinds
  BY MessageAssumption DEF DelLvapMsgs, Kinds
<1>2. CASE del_lvap_ignored(m)
  <2>1. HistoryOK' /\ KeptIdsOpen'
    BY <1>1, <1>2, RequestStepKeepsIds DEF del_lvap_ignored
  <2>2. LvapInv' /\ RestOK'
    BY Zenon, <1>2, SameLvaps DEF del_lvap_ignored, IInv, RestOK
  <2> QED
    BY <2>1, <2>2 DEF IInv
<1>3. CASE del_lvap_now(m)
  <2>1. /\ lvaps' = [lvaps EXCEPT ![m.sta] = NoLvap]
        /\ \A t \in Stas :
             lvaps'[t] = IF t = m.sta THEN NoLvap ELSE lvaps[t]
    BY Zenon, <1>1, <1>3 DEF del_lvap_now, remove_lvap, IInv, LvapInv, LvapTable
  <2>2. LvapInv'
    BY Zenon, <1>1, <2>1, EraseLvap DEF IInv
  <2>3. HistoryOK' /\ KeptIdsOpen'
    BY Zenon, <1>1, <1>3, <2>1, RequestStepKeepsIds DEF del_lvap_now
  <2>4. RestOK'
    <3>1. masks' \in [Ifaces -> SUBSET Bits]
      BY Zenon, <1>3, MaskType DEF del_lvap_now, remove_lvap
    <3>2. txp' \in [Ifaces -> SUBSET Stas]
      BY Zenon, <1>3 DEF del_lvap_now, remove_lvap, IInv, RestOK
    <3> QED
      BY Zenon, <1>3, <3>1, <3>2 DEF del_lvap_now, remove_lvap, IInv, RestOK
  <2> QED
    BY <2>2, <2>3, <2>4 DEF IInv
<1>4. CASE del_lvap_csa(m)
  <2> DEFINE r == lvaps[m.sta]
             q == CsaStarted(r, m, NewId)
  <2>1. /\ r \in Lvap
        /\ r # NoLvap
        /\ Element[r.iface] = r.block
        /\ r.lvap_bssid = NetBssid[m.sta]
        /\ r.set_mask
        /\ Channel(m.target) \notin {0, Channel(r.block)}
    BY Zenon, <1>1, <1>4 DEF del_lvap_csa, NeedsCsa, Shared, IInv, LvapInv,
                      LvapTable, IfaceMatchesBlock, Hosted
  <2>2. NewId \in Ids
    BY <1>1, <1>4, ReceiveKeepsHistory DEF del_lvap_csa, IInv
  <2>3. /\ q \in Lvap
        /\ CsaConsistent(m.sta, q)
        /\ q.iface = r.iface
        /\ q.block = r.block
        /\ q.add_id = r.add_id
        /\ q.del_id = NewId
    BY Zenon, <1>1, <2>1, <2>2, CsaStartedFacts
  <2>4. /\ lvaps' = [lvaps EXCEPT ![m.sta] = q]
        /\ \A t \in Stas : lvaps'[t] = IF t = m.sta THEN q ELSE lvaps[t]
    BY <1>1, <1>4 DEF del_lvap_csa, IInv, LvapInv, LvapTable
  <2>5. LvapInv'
    BY Zenon, <1>1, <2>1, <2>3, <2>4, WriteLvap DEF IInv
  <2>6. HistoryOK' /\ KeptIdsOpen'
    <3> HIDE DEF q
    <3>1. Receive("del", m.sta) /\ replies' = replies
      BY <1>4 DEF del_lvap_csa
    <3>2. \A t \in Stas : lvaps'[t] # NoLvap =>
            /\ lvaps[t] # NoLvap
            /\ lvaps'[t].add_id = lvaps[t].add_id
            /\ \/ lvaps'[t].del_id = lvaps[t].del_id
               \/ t = m.sta /\ lvaps'[t].del_id = NewId
      BY Zenon, <2>1, <2>3, <2>4
    <3> QED
      BY <1>1, <3>1, <3>2, RequestStepKeepsIds
  <2>7. RestOK'
    BY <1>4 DEF del_lvap_csa, IInv, RestOK
  <2> QED
    BY <2>5, <2>6, <2>7 DEF IInv
<1> QED
  BY <1>2, <1>3, <1>4 DEF handle_del_lvap

\* The beacon timer keeps the invariant.  An id it answers is open, and its
\* request names the station of the LVAP that keeps it: no other LVAP keeps
\* the same id, and none keeps it as an id of the other kind.
LEMMA TimerKeepsInv ==
  ASSUME IInv, run_timer
  PROVE  IInv'
<1>1. lvaps \in LvapTable
  BY DEF IInv, LvapInv
<1>2. ASSUME NEW s \in Stas
      PROVE  /\ lvaps'[s] = send_lvap_csa_beacon(s)
             /\ lvaps'[s] \in Lvap \cup {NoLvap}
             /\ lvaps'[s] # NoLvap =>
                  /\ lvaps[s] # NoLvap
                  /\ CsaConsistent(s, lvaps'[s])
                  /\ Element[lvaps'[s].iface] = lvaps'[s].block
                  /\ \/ /\ s \notin Ending
                        /\ lvaps'[s].add_id = lvaps[s].add_id
                        /\ lvaps'[s].del_id = lvaps[s].del_id
                     \/ /\ lvaps'[s].add_id = 0
                        /\ lvaps'[s].del_id = 0
  <2> DEFINE r == lvaps[s]
  <2>1. lvaps'[s] = send_lvap_csa_beacon(s)
    BY DEF run_timer, AfterBeacon
  <2>2. CASE s \notin Hosted
    BY <2>1, <2>2 DEF send_lvap_csa_beacon, Hosted
  <2>3. CASE s \in Hosted
    <3>1. /\ r \in Lvap
          /\ r # NoLvap
          /\ CsaConsistent(s, r)
          /\ Element[r.iface] = r.block
          /\ r.count \in Nat
      BY <1>1, <2>3 DEF LvapTable, Hosted, IInv, LvapInv, CsaInv,
                        IfaceMatchesBlock, Lvap
    <3>2. CASE ~r.csa_active
      BY <2>1, <2>3, <3>1, <3>2 DEF send_lvap_csa_beacon, Ending
    <3>3. CASE r.csa_active /\ r.count > 0
      <4> DEFINE q == [r EXCEPT !.count = @ - 1]
      <4>1. lvaps'[s] = q
        BY <2>1, <2>3, <3>3 DEF send_lvap_csa_beacon
      <4>2. /\ q \in Lvap
            /\ CsaConsistent(s, q)
            /\ q.iface = r.iface
            /\ q.block = r.block
            /\ q.add_id = r.add_id
            /\ q.del_id = r.del_id
        BY <3>1, <3>3, AnnouncedFacts
      <4>3. s \notin Ending
        BY <3>3 DEF Ending
      <4> HIDE DEF q
      <4> QED
        BY Zenon, <2>1, <3>1, <4>1, <4>2, <4>3
    <3>4. CASE r.csa_active /\ ~(r.count > 0)
      <4>1. s \in Ending
        BY <2>3, <3>1, <3>4 DEF Ending
      <4>2. CASE s \in Leaving
        BY <2>1, <2>3, <3>4, <4>2 DEF send_lvap_csa_beacon
      <4>3. CASE s \notin Leaving
        <5>1. lvaps'[s] = Steered(r)
          BY <2>1, <2>3, <3>4, <4>3 DEF send_lvap_csa_beacon
        <5>2. element_to_iface(r.target) # NoIface
          BY <4>1, <4>3 DEF Leaving
        <5>3. /\ Steered(r) \in Lvap
              /\ CsaConsistent(s, Steered(r))
              /\ Element[Steered(r).iface] = Steered(r).block
              /\ Steered(r).add_id = 0
              /\ Steered(r).del_id = 0
          BY Zenon, <3>1, <5>2, SteeredFacts
        <5> QED
          BY Zenon, <2>1, <3>1, <5>1, <5>3
      <4> QED
        BY Zenon, <4>2, <4>3
    <3> QED
      BY Zenon, <3>2, <3>3, <3>4
  <2> QED
    BY Zenon, <2>2, <2>3
<1>3. LvapInv'
  <2>1. lvaps' = [s \in Stas |-> send_lvap_csa_beacon(s)]
    BY DEF run_timer, AfterBeacon
  <2>2. lvaps' \in LvapTable
    BY Zenon, <1>2, <2>1 DEF LvapTable
  <2>3. CsaInv'
    <3> SUFFICES ASSUME NEW t \in Stas, lvaps'[t] # NoLvap
                 PROVE  CsaConsistent(t, lvaps'[t])
      BY Zenon DEF CsaInv, Hosted, CsaConsistent, Channel
    <3> QED
      BY <1>2
  <2>4. IfaceMatchesBlock'
    BY <1>2 DEF IfaceMatchesBlock, Hosted
  <2> QED
    BY <2>2, <2>3, <2>4 DEF LvapInv
<1>4. ASSUME NEW s \in Ending
      PROVE  /\ s \in Stas
             /\ lvaps[s].add_id \in Ids =>
                  /\ lvaps[s].add_id \in 1..Len(requests)
                  /\ requests[lvaps[s].add_id] = [kind |-> "add", sta |-> s]
                  /\ replies[lvaps[s].add_id] = <<>>
             /\ lvaps[s].del_id \in Ids =>
                  /\ lvaps[s].del_id \in 1..Len(requests)
                  /\ requests[lvaps[s].del_id] = [kind |-> "del", sta |-> s]
                  /\ replies[lvaps[s].del_id] = <<>>
  BY MessageAssumption DEF Ending, Hosted, IInv, KeptIdsOpen, Open, Ids
<1>5. ASSUME NEW id \in Ids
      PROVE  \/ replies'[id] = replies[id]
             \/ /\ id \in 1..Len(requests)
                /\ requests[id].sta \in Ending
                /\ replies'[id] = <<requests[id].kind>>
                /\ requests[id].kind \in Kinds
  <2> DEFINE D == \E s \in Ending : lvaps[s].del_id = id
             A == \E s \in Ending \ Leaving : lvaps[s].add_id = id
  <2>1. replies'[id] = IF ports THEN replies[id] \o CsaReplies(id)
                                ELSE replies[id]
    BY Zenon DEF run_timer
  <2>2. replies[id] \in Seq(Kinds)
    BY DEF IInv, HistoryOK
  <2>3. CASE ~ports
    BY <2>1, <2>3
  <2>4. CASE ports /\ D
    <3>1. PICK s \in Ending : lvaps[s].del_id = id
      BY <2>4
    <3>2. /\ id \in 1..Len(requests)
          /\ requests[id] = [kind |-> "del", sta |-> s]
          /\ replies[id] = <<>>
      BY Zenon, <1>4, <3>1
    <3>3. ~A
      <4> SUFFICES ASSUME NEW t \in Ending, lvaps[t].add_id = id
                   PROVE  FALSE
        OBVIOUS
      <4>1. requests[id] = [kind |-> "add", sta |-> t]
        BY Zenon, <1>4
      <4> QED
        BY <3>2, <4>1
    <3>4. CsaReplies(id) = <<"del">> \o <<>>
      BY <2>4, <3>3 DEF CsaReplies
    <3>5. replies'[id] = <<"del">>
      BY <2>1, <2>4, <3>2, <3>4
    <3> QED
      BY <3>2, <3>5 DEF Kinds
  <2>5. CASE ports /\ ~D /\ A
    <3>1. PICK s \in Ending \ Leaving : lvaps[s].add_id = id
      BY <2>5
    <3>2. /\ id \in 1..Len(requests)
          /\ requests[id] = [kind |-> "add", sta |-> s]
          /\ replies[id] = <<>>
      BY Zenon, <1>4, <3>1
    <3>3. CsaReplies(id) = <<>> \o <<"add">>
      BY <2>5 DEF CsaReplies
    <3>4. replies'[id] = <<"add">>
      BY <2>1, <2>5, <3>2, <3>3
    <3> QED
      BY <3>2, <3>4 DEF Kinds
  <2>6. CASE ports /\ ~D /\ ~A
    <3>1. CsaReplies(id) = <<>> \o <<>>
      BY <2>6 DEF CsaReplies
    <3> QED
      BY <2>1, <2>2, <2>6, <3>1
  <2> QED
    BY Zenon, <2>3, <2>4, <2>5, <2>6
<1>6. HistoryOK'
  <2>1. requests' = requests
    BY DEF run_timer
  <2>2. ASSUME NEW id \in Ids
        PROVE  replies'[id] \in Seq(Kinds)
    <3>1. \A k \in Kinds : <<k>> \in Seq(Kinds)
      OBVIOUS
    <3>2. replies[id] \in Seq(Kinds)
      BY DEF IInv, HistoryOK
    <3> QED
      BY Zenon, <1>5, <3>1, <3>2
  <2>3. replies' \in [Ids -> Seq(Kinds)]
    <3>1. replies' = [id \in Ids |-> replies'[id]]
      BY Zenon DEF run_timer, IInv, HistoryOK
    <3> QED
      BY <2>2, <3>1
  <2>4. AnsweredOnce'
    BY <1>5, <2>1 DEF AnsweredOnce, IInv, HistoryOK
  <2> QED
    BY <2>1, <2>3, <2>4 DEF IInv, HistoryOK
<1>7. KeptIdsOpen'
  <2>1. requests' = requests
    BY DEF run_timer
  <2>2. ASSUME NEW t \in Stas, NEW k \in Kinds, NEW id \in Ids \cup {0},
               t \notin Ending, Open(id, k, t, requests, replies)
        PROVE  Open(id, k, t, requests', replies')
    <3>1. CASE id = 0
      BY <3>1 DEF Open
    <3>2. CASE id # 0
      <4>1. id \in Ids /\ requests[id].sta = t
        BY <2>2, <3>2 DEF Open
      <4>2. replies'[id] = replies[id]
        BY <1>5, <2>2, <4>1
      <4> QED
        BY <2>1, <2>2, <4>2 DEF Open
    <3> QED
      BY <3>1, <3>2
  <2>3. ASSUME NEW t \in Stas, lvaps'[t] # NoLvap
        PROVE  /\ Open(lvaps'[t].add_id, "add", t, requests', replies')
               /\ Open(lvaps'[t].del_id, "del", t, requests', replies')
    <3>1. CASE lvaps'[t].add_id = 0 /\ lvaps'[t].del_id = 0
      BY <3>1 DEF Open
    <3>2. CASE /\ t \notin Ending
               /\ lvaps'[t].add_id = lvaps[t].add_id
               /\ lvaps'[t].del_id = lvaps[t].del_id
      <4>1. /\ lvaps[t].add_id \in Ids \cup {0}
            /\ lvaps[t].del_id \in Ids \cup {0}
            /\ Open(lvaps[t].add_id, "add", t, requests, replies)
            /\ Open(lvaps[t].del_id, "del", t, requests, replies)
        BY Zenon, <1>1, <1>2, <2>3 DEF IInv, KeptIdsOpen, Hosted, LvapTable, Lvap
      <4> QED
        BY Zenon, <2>2, <3>2, <4>1 DEF Kinds
    <3> QED
      BY Zenon, <1>2, <2>3, <3>1, <3>2
  <2> QED
    BY <2>3 DEF KeptIdsOpen, Hosted
<1>8. RestOK'
  <2>1. masks' \in [Ifaces -> SUBSET Bits]
    BY MaskType DEF run_timer, MasksAfter, IInv, RestOK
  <2>2. txp' \in [Ifaces -> SUBSET Stas]
    BY DEF run_timer, IInv, RestOK
  <2> QED
    BY Zenon, <2>1, <2>2 DEF run_timer, IInv, RestOK
<1> QED
  BY <1>3, <1>6, <1>7, <1>8 DEF IInv

\* Steps that leave the LVAP table and the history alone.
LEMMA OtherTablesKeepInv ==
  ASSUME IInv, UNCHANGED <<lvaps, requests, replies>>, RestOK'
  PROVE  IInv'
<1>1. LvapInv'
  BY SameLvaps DEF IInv
<1>2. HistoryOK' /\ KeptIdsOpen'
  BY QuietStepKeepsIds
<1> QED
  BY <1>1, <1>2 DEF IInv

\* The vap, traffic rule, port and ports handlers keep the invariant.
LEMMA MessagesKeepInv ==
  ASSUME IInv,
         \/ \E m \in VapMsgs : handle_add_vap(m)
         \/ \E b \in VapBssids : handle_del_vap(b)
         \/ \E m \in RuleMsgs : handle_set_traffic_rule(m)
         \/ \E m \in RuleMsgs : handle_del_traffic_rule(m)
         \/ \E m \in PortMsgs : handle_set_port(m)
         \/ \E m \in PortMsgs : handle_del_port(m)
         \/ write_ports
  PROVE  IInv'
<1>1. ASSUME NEW m \in VapMsgs, handle_add_vap(m)
      PROVE  IInv'
  <2> DEFINE i == element_to_iface(m.block)
  <2>1. /\ m.ssid \in SsidOrNone
        /\ m.bssid \in VapBssids
        /\ i \in Ifaces
    BY Zenon, <1>1, MessageAssumption, IfaceOfBlock DEF handle_add_vap
  <2>2. vaps' \in [VapBssids -> Vap \cup {NoVap}]
    <3>1. [ssid |-> m.ssid, iface |-> i] \in Vap
      BY <2>1 DEF Vap
    <3> QED
      BY Zenon, <1>1, <2>1, <3>1 DEF handle_add_vap, IInv, RestOK
  <2>3. masks' \in [Ifaces -> SUBSET Bits]
    BY Zenon, <1>1, MaskType DEF handle_add_vap
  <2>4. rules' \in [Ifaces -> SUBSET (Ssids \X Dscps)]
    BY Zenon, <1>1, <2>1, RuleType DEF handle_add_vap, IInv, RestOK
  <2>5. RestOK'
    BY Zenon, <1>1, <2>2, <2>3, <2>4 DEF handle_add_vap, IInv, RestOK
  <2> QED
    BY Zenon, <1>1, <2>5, OtherTablesKeepInv DEF handle_add_vap, History
<1>2. ASSUME NEW b \in VapBssids, handle_del_vap(b)
      PROVE  IInv'
  <2>1. masks' \in [Ifaces -> SUBSET Bits]
    BY <1>2, MaskType DEF handle_del_vap
  <2>2. RestOK'
    BY Zenon, <1>2, <2>1 DEF handle_del_vap, IInv, RestOK
  <2> QED
    BY <1>2, <2>2, OtherTablesKeepInv DEF handle_del_vap, History
<1>3. ASSUME NEW m \in RuleMsgs,
             handle_set_traffic_rule(m) \/ handle_del_traffic_rule(m)
      PROVE  IInv'
  <2>1. /\ <<m.ssid, m.dscp>> \in Ssids \X Dscps
        /\ element_to_iface(m.block) \in Ifaces \cup {NoIface}
    BY Zenon, MessageAssumption, IfaceOfBlock
  <2>2. rules' \in [Ifaces -> SUBSET (Ssids \X Dscps)]
    BY <1>3, <2>1
    DEF handle_set_traffic_rule, handle_del_traffic_rule, Fault, IInv, RestOK
  <2>3. RestOK'
    BY Zenon, <1>3, <2>2
    DEF handle_set_traffic_rule, handle_del_traffic_rule, Fault, IInv, RestOK
  <2> QED
    BY Zenon, <1>3, <2>3, OtherTablesKeepInv
    DEF handle_set_traffic_rule, handle_del_traffic_rule, Fault, History
<1>4. ASSUME NEW m \in PortMsgs, handle_set_port(m) \/ handle_del_port(m)
      PROVE  IInv'
  <2>1. m.sta \in Stas
    BY Zenon, MessageAssumption
  <2>2. txp' \in [Ifaces -> SUBSET Stas]
    BY ZenonT(30), <1>4, <2>1 DEF handle_set_port, handle_del_port, IInv, RestOK
  <2>3. RestOK'
    BY Zenon, <1>4, <2>2 DEF handle_set_port, handle_del_port, IInv, RestOK
  <2> QED
    BY Zenon, <1>4, <2>3, OtherTablesKeepInv
    DEF handle_set_port, handle_del_port, History
<1>5. ASSUME write_ports
      PROVE  IInv'
  BY Zenon, <1>5, OtherTablesKeepInv DEF write_ports, IInv, RestOK, History
<1> QED
  BY <1>1, <1>2, <1>3, <1>4, <1>5

\* A step that rewrites one hosted LVAP and keeps its ids, its block and its
\* interface keeps the invariant.
LEMMA RewriteKeepsInv ==
  ASSUME IInv, NEW s \in Hosted, NEW q \in Lvap,
         lvaps' = [lvaps EXCEPT ![s] = q],
         SameCsa(q, lvaps[s]),
         CsaConsistent(s, lvaps[s]) => CsaConsistent(s, q),
         UNCHANGED <<vaps, masks, rules, txp, ports, agent, History>>
  PROVE  IInv'
<1>1. /\ s \in Stas
      /\ lvaps[s] # NoLvap
      /\ CsaConsistent(s, lvaps[s])
      /\ Element[lvaps[s].iface] = lvaps[s].block
  BY Zenon DEF Hosted, IInv, LvapInv, CsaInv, IfaceMatchesBlock
<1>2. \A t \in Stas : lvaps'[t] = IF t = s THEN q ELSE lvaps[t]
  BY DEF IInv, LvapInv, LvapTable
<1>3. LvapInv'
  BY Zenon, <1>1, WriteLvap DEF IInv, SameCsa
<1>4. HistoryOK' /\ KeptIdsOpen'
  BY Zenon, <1>1, <1>2, QuietStepKeepsIds DEF SameCsa, History
<1>5. RestOK'
  BY DEF IInv, RestOK
<1> QED
  BY <1>3, <1>4, <1>5 DEF IInv

\* The authentication and association responses keep the invariant, found
\* LVAP or not.
LEMMA ResponsesKeepInv ==
  ASSUME IInv, NEW s \in Stas,
         handle_auth_response(s) \/ handle_assoc_response(s)
  PROVE  IInv'
<1>1. CASE s \notin Hosted
  <2>1. RestOK' /\ UNCHANGED <<lvaps, requests, replies>>
    BY <1>1 DEF handle_auth_response, handle_assoc_response, Fault, IInv,
                RestOK, History
  <2> QED
    BY <2>1, OtherTablesKeepInv
<1>2. CASE s \in Hosted
  <2>1. lvaps[s] \in Lvap
    BY <1>2 DEF Hosted, IInv, LvapInv, LvapTable
  <2>2. CASE handle_auth_response(s)
    BY Zenon, <1>2, <2>1, <2>2, FrameFacts, RewriteKeepsInv
    DEF handle_auth_response
  <2>3. CASE handle_assoc_response(s)
    BY Zenon, <1>2, <2>1, <2>3, FrameFacts, RewriteKeepsInv
    DEF handle_assoc_response
  <2> QED
    BY <2>2, <2>3
<1> QED
  BY <1>1, <1>2

\* The management frames keep the invariant.
LEMMA FramesKeepInv ==
  ASSUME IInv, NEW s \in Stas, NEW b \in Bssids, NEW i \in Ifaces,
         auth_push(s, b, i) \/ deauth_push(s, b) \/ disassoc_push(s, b)
  PROVE  IInv'
<1>1. s \in Hosted
  BY Zenon DEF auth_push, deauth_push, disassoc_push, FrameAccepted
<1>2. lvaps[s] \in Lvap
  BY <1>1 DEF Hosted, IInv, LvapInv, LvapTable
<1>3. CASE auth_push(s, b, i)
  BY Zenon, <1>1, <1>2, <1>3, FrameFacts, RewriteKeepsInv DEF auth_push
<1>4. CASE deauth_push(s, b)
  BY Zenon, <1>1, <1>2, <1>4, FrameFacts, RewriteKeepsInv DEF deauth_push
<1>5. CASE disassoc_push(s, b)
  BY Zenon, <1>1, <1>2, <1>5, FrameFacts, RewriteKeepsInv DEF disassoc_push
<1> QED
  BY <1>3, <1>4, <1>5

-----------------------------------------------------------------------------
(***************************************************************************)
(* The theorems.                                                           *)
(***************************************************************************)

\* The empty tables and the empty history satisfy the invariant.
LEMMA InitEstablishesInv == Init => IInv
<1> SUFFICES ASSUME Init PROVE IInv
  OBVIOUS
<1>1. LvapInv
  BY Zenon DEF Init, LvapInv, LvapTable, CsaInv, IfaceMatchesBlock, Hosted
<1>2. RestOK
  BY Zenon, MaskType DEF Init, RestOK
<1>3. HistoryOK
  BY MessageAssumption DEF Init, HistoryOK, AnsweredOnce, Ids
<1>4. KeptIdsOpen
  BY Zenon DEF Init, KeptIdsOpen, Hosted
<1> QED
  BY <1>1, <1>2, <1>3, <1>4 DEF IInv

\* Every step of the access point keeps the invariant.
LEMMA StepKeepsInv == IInv /\ [Next]_vars => IInv'
<1> SUFFICES ASSUME IInv, [Next]_vars PROVE IInv'
  OBVIOUS
<1>1. CASE UNCHANGED vars
  BY Zenon, <1>1, OtherTablesKeepInv DEF vars, IInv, RestOK
<1>2. ASSUME NEW m \in AddMsgs, handle_add_lvap(m) PROVE IInv'
  BY <1>2, AddLvapKeepsInv
<1>3. ASSUME NEW m \in DelMsgs, handle_del_lvap(m) PROVE IInv'
  BY <1>3, DelLvapKeepsInv
<1>4. CASE run_timer
  BY <1>4, TimerKeepsInv
<1>5. ASSUME NEW s \in Stas,
             handle_auth_response(s) \/ handle_assoc_response(s)
      PROVE  IInv'
  BY <1>5, ResponsesKeepInv
<1>6. ASSUME NEW s \in Stas, NEW b \in Bssids, NEW i \in Ifaces,
             auth_push(s, b, i)
      PROVE  IInv'
  BY <1>6, FramesKeepInv
<1>7. ASSUME NEW s \in Stas, NEW b \in Bssids,
             deauth_push(s, b) \/ disassoc_push(s, b)
      PROVE  IInv'
  <2>1. s \in Hosted
    BY Zenon, <1>7 DEF deauth_push, disassoc_push, FrameAccepted
  <2>2. lvaps[s].iface \in Ifaces
    BY Zenon, <2>1 DEF Hosted, IInv, LvapInv, LvapTable, Lvap
  <2> QED
    BY <1>7, <2>2, FramesKeepInv
<1>8. CASE \/ \E m \in VapMsgs : handle_add_vap(m)
           \/ \E b \in VapBssids : handle_del_vap(b)
           \/ \E m \in RuleMsgs : handle_set_traffic_rule(m)
           \/ \E m \in RuleMsgs : handle_del_traffic_rule(m)
           \/ \E m \in PortMsgs : handle_set_port(m)
           \/ \E m \in PortMsgs : handle_del_port(m)
           \/ write_ports
  BY <1>8, MessagesKeepInv
<1> QED
  BY Zenon, <1>1, <1>2, <1>3, <1>4, <1>5, <1>6, <1>7, <1>8 DEF Next

\* The invariant holds in every reachable state.
THEOREM Invariance == Spec => []IInv
BY InitEstablishesInv, StepKeepsInv, PTL DEF Spec

\* The tables and the history keep their types, whatever the handlers do.
THEOREM TypeCorrect == Spec => []TypeOK
<1>1. IInv => TypeOK
  BY Zenon DEF IInv, LvapInv, LvapTable, RestOK, HistoryOK, TypeOK
<1> QED
  BY <1>1, Invariance, PTL

\* handle_add_lvap, handle_del_lvap and the beacon timer together answer
\* every request at most once, by a response of its own kind, and the ids
\* they leave in the LVAPs are those of open requests.
THEOREM RequestsAnsweredOnce == Spec => [](AnsweredOnce /\ KeptIdsOpen)
<1>1. IInv => AnsweredOnce /\ KeptIdsOpen
  BY DEF IInv, HistoryOK
<1> QED
  BY <1>1, Invariance, PTL

\* A channel switch is under way only for an LVAP with its own BSSID and the
\* mask set, towards another channel, and leaves nothing behind when it ends.
THEOREM SwitchStateConsistent == Spec => []CsaInv
<1>1. IInv => CsaInv
  BY DEF IInv, LvapInv
<1> QED
  BY <1>1, Invariance, PTL

\* An LVAP is on the interface of its block, whether add_lvap put it there,
\* a later add_lvap updated it or the end of a countdown steered it.
THEOREM IfaceFollowsBlock == Spec => []IfaceMatchesBlock
<1>1. IInv => IfaceMatchesBlock
  BY DEF IInv, LvapInv
<1> QED
  BY <1>1, Invariance, PTL

-----------------------------------------------------------------------------
(***************************************************************************)
(* The masks and the VAPs.                                                 *)
(***************************************************************************)

\* A mask that was computed from a VAP table acknowledges each of its VAPs.
LEMMA MaskCoversVaps ==
  ASSUME NEW l, NEW v, NEW b \in VapBssids,
         v[b] # NoVap, v[b].iface \in Ifaces
  PROVE  \A k \in compute_bssid_mask(l, v)[v[b].iface] :
           (k \in b) <=> (k \in HwAddr[Element[v[b].iface]])
<1>1. b \in MaskedBssids(l, v, v[b].iface)
  BY Zenon DEF MaskedBssids
<1> QED
  BY Zenon, <1>1 DEF compute_bssid_mask

\* A step that changes the masks or the VAPs computes the masks from the new
\* VAPs.
LEMMA MasksFollowVaps ==
  ASSUME IInv, [Next]_vars
  PROVE  \/ UNCHANGED <<masks, vaps>>
         \/ \E l : masks' = compute_bssid_mask(l, vaps')
<1>1. CASE UNCHANGED vars
  BY <1>1 DEF vars
<1>2. ASSUME NEW m \in AddMsgs, handle_add_lvap(m)
      PROVE  UNCHANGED <<masks, vaps>> \/
             \E l : masks' = compute_bssid_mask(l, vaps')
  <2>1. CASE add_lvap_new(m)
    BY <2>1 DEF add_lvap_new
  <2> QED
    BY <1>2, <2>1 DEF handle_add_lvap, add_lvap_ignored, add_lvap_during_csa,
                      add_lvap_update, Fault
<1>3. ASSUME NEW m \in DelMsgs, handle_del_lvap(m)
      PROVE  UNCHANGED <<masks, vaps>> \/
             \E l : masks' = compute_bssid_mask(l, vaps')
  <2>1. CASE del_lvap_now(m)
    BY Zenon, <2>1 DEF del_lvap_now, remove_lvap
  <2> QED
    BY Zenon, <1>3, <2>1 DEF handle_del_lvap, del_lvap_ignored, del_lvap_csa
<1>4. CASE run_timer
  <2>1. PICK visited : masks' = MasksAfter(visited)
    BY Zenon, <1>4 DEF run_timer
  <2>2. vaps' = vaps
    BY Zenon, <1>4 DEF run_timer
  <2> QED
    BY <2>1, <2>2 DEF MasksAfter
<1>5. ASSUME NEW m \in VapMsgs, handle_add_vap(m)
      PROVE  \E l : masks' = compute_bssid_mask(l, vaps')
  BY Zenon, <1>5 DEF handle_add_vap
<1>6. ASSUME NEW b \in VapBssids, handle_del_vap(b)
      PROVE  \E l : masks' = compute_bssid_mask(l, vaps')
  BY <1>6 DEF handle_del_vap
<1>7. ASSUME NEW m \in RuleMsgs,
             handle_set_traffic_rule(m) \/ handle_del_traffic_rule(m)
      PROVE  UNCHANGED <<masks, vaps>>
  BY Zenon, <1>7 DEF handle_set_traffic_rule, handle_del_traffic_rule, Fault
<1>8. ASSUME NEW m \in PortMsgs, handle_set_port(m) \/ handle_del_port(m)
      PROVE  UNCHANGED <<masks, vaps>>
  BY Zenon, <1>8 DEF handle_set_port, handle_del_port
<1>9. ASSUME NEW s \in Stas,
             \/ handle_auth_response(s)
             \/ handle_assoc_response(s)
             \/ \E b \in Bssids, i \in Ifaces : auth_push(s, b, i)
             \/ \E b \in Bssids : deauth_push(s, b) \/ disassoc_push(s, b)
      PROVE  UNCHANGED <<masks, vaps>>
  BY <1>9 DEF handle_auth_response, handle_assoc_response, auth_push,
              deauth_push, disassoc_push, Fault
<1>10. CASE write_ports
  BY <1>10 DEF write_ports
<1> QED
  BY Zenon, <1>1, <1>2, <1>3, <1>4, <1>5, <1>6, <1>7, <1>8, <1>9, <1>10 DEF Next

\* Every interface acknowledges frames for the VAPs it hosts: no removal,
\* steering or countdown of an LVAP ever takes a VAP out of a mask.
THEOREM VapsAlwaysAcked == Spec => []VapsAcked
<1>1. Init => VapsAcked
  BY DEF Init, VapsAcked
<1>2. IInv /\ IInv' /\ VapsAcked /\ [Next]_vars => VapsAcked'
  <2> SUFFICES ASSUME IInv, IInv', VapsAcked, [Next]_vars,
                      NEW b \in VapBssids, vaps'[b] # NoVap
               PROVE  \A k \in masks'[vaps'[b].iface] :
                        (k \in b) <=> (k \in HwAddr[Element[vaps'[b].iface]])
    BY Zenon DEF VapsAcked, Acks
  <2>1. vaps'[b].iface \in Ifaces
    BY Zenon DEF IInv, RestOK, Vap
  <2>2. CASE UNCHANGED <<masks, vaps>>
    BY Zenon, <2>2 DEF VapsAcked, Acks
  <2>3. CASE \E l : masks' = compute_bssid_mask(l, vaps')
    BY Zenon, <2>1, <2>3, MaskCoversVaps
  <2> QED
    BY Zenon, <2>2, <2>3, MasksFollowVaps
<1> QED
  BY <1>1, <1>2, Invariance, PTL DEF Spec

-----------------------------------------------------------------------------
(***************************************************************************)
(* What a step may do to an LVAP that stays.                               *)
(***************************************************************************)

\* r is an LVAP before a step and q the same LVAP after it.
SwitchRespected(r, q) ==
  /\ q.iface # r.iface =>
       /\ r.csa_active
       /\ r.count = 0
       /\ q.iface = element_to_iface(r.target)
  /\ r.csa_active /\ q.csa_active =>
       /\ q.block = r.block
       /\ q.lvap_bssid = r.lvap_bssid
       /\ q.set_mask = r.set_mask

\* What each handler writes into an LVAP respects a switch under way.
LEMMA WritesRespectSwitch ==
  ASSUME NEW s \in Stas, NEW r \in Lvap
  PROVE  /\ SwitchRespected(r, r)
         /\ ~r.csa_active =>
              \A m \in AddLvapMsgs : SwitchRespected(r, Updated(r, m))
         /\ \A id \in Ids : SwitchRespected(r, [r EXCEPT !.add_id = id])
         /\ \A m \in DelLvapMsgs, id \in Ids :
              SwitchRespected(r, CsaStarted(r, m, id))
         /\ SwitchRespected(r, [r EXCEPT !.count = @ - 1])
         /\ r.csa_active /\ r.count = 0 => SwitchRespected(r, Steered(r))
         /\ SwitchRespected(r, Authenticated(r))
         /\ SwitchRespected(r, [r EXCEPT !.assoc = TRUE])
         /\ ~r.csa_active => SwitchRespected(r, Deauthenticated(s, r))
         /\ SwitchRespected(r, Disassociated(r))
<1> USE DEF SwitchRespected, Lvap
<1>1. SwitchRespected(r, r)
  OBVIOUS
<1>2. ASSUME ~r.csa_active, NEW m \in AddLvapMsgs
      PROVE  SwitchRespected(r, Updated(r, m))
  BY <1>2 DEF Updated
<1>3. ASSUME NEW id \in Ids
      PROVE  SwitchRespected(r, [r EXCEPT !.add_id = id])
  OBVIOUS
<1>4. ASSUME NEW m \in DelLvapMsgs, NEW id \in Ids
      PROVE  SwitchRespected(r, CsaStarted(r, m, id))
  BY DEF CsaStarted
<1>5. SwitchRespected(r, [r EXCEPT !.count = @ - 1])
  OBVIOUS
<1>6. r.csa_active /\ r.count = 0 => SwitchRespected(r, Steered(r))
  BY DEF Steered
<1>7. /\ SwitchRespected(r, Authenticated(r))
      /\ SwitchRespected(r, [r EXCEPT !.assoc = TRUE])
      /\ ~r.csa_active => SwitchRespected(r, Deauthenticated(s, r))
      /\ SwitchRespected(r, Disassociated(r))
  BY DEF Authenticated, Deauthenticated, Disassociated
<1> QED
  BY <1>1, <1>2, <1>3, <1>4, <1>5, <1>6, <1>7

\* Every step respects every switch under way.
LEMMA StepRespectsSwitch ==
  ASSUME IInv, [Next]_vars, NEW t \in Stas,
         lvaps[t] # NoLvap, lvaps'[t] # NoLvap
  PROVE  SwitchRespected(lvaps[t], lvaps'[t])
<1> DEFINE Same == lvaps'[t] = lvaps[t]
<1>1. lvaps \in LvapTable /\ lvaps[t] \in Lvap
  BY DEF IInv, LvapInv, LvapTable
<1>2. Same => SwitchRespected(lvaps[t], lvaps'[t])
  BY Zenon, <1>1, WritesRespectSwitch
<1>3. ASSUME NEW m \in AddMsgs, handle_add_lvap(m)
      PROVE  SwitchRespected(lvaps[t], lvaps'[t])
  <2>1. m \in AddLvapMsgs /\ m.sta \in Stas /\ "add" \in Kinds
    BY Zenon, MessageAssumption DEF AddLvapMsgs, Kinds
  <2>2. CASE add_lvap_ignored(m)
    BY <1>2, <2>2 DEF add_lvap_ignored
  <2>3. CASE add_lvap_new(m)
    <3>1. Same
      BY Zenon, <1>1, <2>3 DEF add_lvap_new, LvapTable
    <3> QED
      BY <1>2, <3>1
  <2>4. CASE add_lvap_during_csa(m)
    <3>1. NewId \in Ids
      BY <2>1, <2>4, ReceiveKeepsHistory
      DEF add_lvap_during_csa, AddAccepted, IInv
    <3>2. Same \/ lvaps'[t] = [lvaps[t] EXCEPT !.add_id = NewId]
      BY <1>1, <2>1, <2>4 DEF add_lvap_during_csa, Fault, LvapTable
    <3> QED
      BY Zenon, <1>1, <1>2, <3>1, <3>2, WritesRespectSwitch
  <2>5. CASE add_lvap_update(m)
    <3>1. \/ Same
          \/ lvaps'[t] = Updated(lvaps[t], m) /\ ~lvaps[t].csa_active
      BY Zenon, <1>1, <2>1, <2>5 DEF add_lvap_update, LvapTable
    <3> QED
      BY Zenon, <1>1, <1>2, <2>1, <3>1, WritesRespectSwitch
  <2> QED
    BY Zenon, <1>3, <2>2, <2>3, <2>4, <2>5 DEF handle_add_lvap
<1>4. ASSUME NEW m \in DelMsgs, handle_del_lvap(m)
      PROVE  SwitchRespected(lvaps[t], lvaps'[t])
  <2>1. m \in DelLvapMsgs /\ m.sta \in Stas /\ "del" \in Kinds
    BY Zenon, MessageAssumption DEF DelLvapMsgs, Kinds
  <2>2. CASE del_lvap_ignored(m)
    BY Zenon, <1>2, <2>2 DEF del_lvap_ignored
  <2>3. CASE del_lvap_now(m)
    <3>1. Same
      BY Zenon, <1>1, <2>1, <2>3 DEF del_lvap_now, remove_lvap, LvapTable
    <3> QED
      BY <1>2, <3>1
  <2>4. CASE del_lvap_csa(m)
    <3>1. NewId \in Ids
      BY Zenon, <2>1, <2>4, ReceiveKeepsHistory DEF del_lvap_csa, IInv
    <3>2. Same \/ lvaps'[t] = CsaStarted(lvaps[t], m, NewId)
      BY Zenon, <1>1, <2>1, <2>4 DEF del_lvap_csa, LvapTable
    <3> QED
      BY ZenonT(30), <1>1, <1>2, <2>1, <3>1, <3>2, WritesRespectSwitch
  <2> QED
    BY Zenon, <1>4, <2>2, <2>3, <2>4 DEF handle_del_lvap
<1>5. CASE run_timer
  <2>1. /\ lvaps'[t] = send_lvap_csa_beacon(t)
        /\ t \in Hosted
        /\ lvaps[t].count \in Nat
    BY Zenon, <1>1, <1>5 DEF run_timer, AfterBeacon, Hosted, Lvap
  <2>2. \/ Same
        \/ lvaps'[t] = [lvaps[t] EXCEPT !.count = @ - 1]
        \/ /\ lvaps'[t] = Steered(lvaps[t])
           /\ lvaps[t].csa_active
           /\ lvaps[t].count = 0
    BY <2>1 DEF send_lvap_csa_beacon
  <2> QED
    BY Zenon, <1>1, <1>2, <2>2, WritesRespectSwitch
<1>6. ASSUME NEW s \in Stas,
             handle_auth_response(s) \/ handle_assoc_response(s)
      PROVE  SwitchRespected(lvaps[t], lvaps'[t])
  <2>1. \/ Same
        \/ lvaps'[t] = Authenticated(lvaps[t])
        \/ lvaps'[t] = [lvaps[t] EXCEPT !.assoc = TRUE]
    BY Zenon, <1>1, <1>6
    DEF handle_auth_response, handle_assoc_response, Fault, LvapTable
  <2> QED
    BY Zenon, <1>1, <1>2, <2>1, WritesRespectSwitch
<1>7. ASSUME NEW s \in Stas, NEW b \in Bssids,
             \/ \E i \in Ifaces : auth_push(s, b, i)
             \/ deauth_push(s, b)
             \/ disassoc_push(s, b)
      PROVE  SwitchRespected(lvaps[t], lvaps'[t])
  <2>1. \/ Same
        \/ lvaps'[t] = Authenticated(lvaps[t])
        \/ lvaps'[t] = Deauthenticated(t, lvaps[t]) /\ ~lvaps[t].csa_active
        \/ lvaps'[t] = Disassociated(lvaps[t])
    BY Zenon, <1>1, <1>7
    DEF auth_push, deauth_push, disassoc_push, FrameAccepted, LvapTable
  <2> QED
    BY Zenon, <1>1, <1>2, <2>1, WritesRespectSwitch
<1>8. CASE \/ UNCHANGED vars
           \/ \E m \in VapMsgs : handle_add_vap(m)
           \/ \E b \in VapBssids : handle_del_vap(b)
           \/ \E m \in RuleMsgs : handle_set_traffic_rule(m)
           \/ \E m \in RuleMsgs : handle_del_traffic_rule(m)
           \/ \E m \in PortMsgs : handle_set_port(m)
           \/ \E m \in PortMsgs : handle_del_port(m)
           \/ write_ports
  BY Zenon, <1>2, <1>8 DEF vars, handle_add_vap, handle_del_vap,
     handle_set_traffic_rule, handle_del_traffic_rule, handle_set_port,
     handle_del_port, write_ports, Fault
<1> QED
  BY Zenon, <1>3, <1>4, <1>5, <1>6, <1>7, <1>8 DEF Next

\* An LVAP changes its interface only at the end of its countdown and to the
\* announced target; until then nothing changes where it is, its BSSID or
\* its mask flag.
THEOREM SwitchAfterCountdown == Spec => SwitchOnlyAfterCountdown
<1>1. IInv /\ [Next]_vars =>
        [\A s \in Hosted \cap Hosted' :
           /\ lvaps'[s].iface # lvaps[s].iface =>
                /\ lvaps[s].csa_active
                /\ lvaps[s].count = 0
                /\ lvaps'[s].iface = element_to_iface(lvaps[s].target)
           /\ lvaps[s].csa_active /\ lvaps'[s].csa_active =>
                /\ lvaps'[s].block = lvaps[s].block
                /\ lvaps'[s].lvap_bssid = lvaps[s].lvap_bssid
                /\ lvaps'[s].set_mask = lvaps[s].set_mask]_vars
  BY Zenon, StepRespectsSwitch DEF SwitchRespected, Hosted
<1> QED
  BY <1>1, Invariance, PTL DEF Spec, SwitchOnlyAfterCountdown

-----------------------------------------------------------------------------
(***************************************************************************)
(* What a step may do to a transmission policy.                            *)
(***************************************************************************)

\* A step that takes the policy of station s from interface i removes the
\* LVAP that s has there, or changes no LVAP at all.
LEMMA StepKeepsPolicies ==
  ASSUME IInv, [Next]_vars, NEW i \in Ifaces, NEW s \in Stas,
         s \in txp[i], s \notin txp'[i]
  PROVE  \/ s \in Hosted /\ lvaps[s].iface = i /\ lvaps'[s] = NoLvap
         \/ lvaps' = lvaps
<1>1. lvaps \in LvapTable /\ txp \in [Ifaces -> SUBSET Stas]
  BY Zenon DEF IInv, LvapInv, RestOK
<1>2. ~ UNCHANGED txp
  OBVIOUS
<1>3. ASSUME NEW m \in DelMsgs, handle_del_lvap(m)
      PROVE  s \in Hosted /\ lvaps[s].iface = i /\ lvaps'[s] = NoLvap
  <2>1. del_lvap_now(m) /\ m.sta \in Stas
    BY Zenon, <1>2, <1>3, MessageAssumption
    DEF handle_del_lvap, del_lvap_ignored, del_lvap_csa, DelLvapMsgs
  <2>2. m.sta = s /\ lvaps[s].iface = i
    BY Zenon, <1>1, <2>1 DEF del_lvap_now, remove_lvap
  <2> QED
    BY <1>1, <2>1, <2>2 DEF del_lvap_now, remove_lvap, Hosted, LvapTable
<1>4. ASSUME run_timer
      PROVE  s \in Hosted /\ lvaps[s].iface = i /\ lvaps'[s] = NoLvap
  <2>1. s \in Leaving /\ lvaps[s].iface = i
    BY Zenon, <1>4 DEF run_timer
  <2>2. s \in Hosted /\ lvaps[s].csa_active /\ lvaps[s].count = 0
    BY Zenon, <2>1 DEF Leaving, Ending
  <2>3. lvaps'[s] = send_lvap_csa_beacon(s)
    BY Zenon, <1>4 DEF run_timer, AfterBeacon
  <2> QED
    BY <2>1, <2>2, <2>3 DEF send_lvap_csa_beacon
<1>5. ASSUME NEW m \in PortMsgs, handle_set_port(m) \/ handle_del_port(m)
      PROVE  lvaps' = lvaps
  BY Zenon, <1>5 DEF handle_set_port, handle_del_port
<1>6. ASSUME NEW m \in AddMsgs, handle_add_lvap(m)
      PROVE  FALSE
  BY <1>2, <1>6 DEF handle_add_lvap, add_lvap_ignored, add_lvap_new,
     add_lvap_during_csa, add_lvap_update, Fault
<1>7. CASE \/ \E t \in Stas :
                handle_auth_response(t) \/ handle_assoc_response(t)
           \/ \E t \in Stas, b \in Bssids, j \in Ifaces : auth_push(t, b, j)
           \/ \E t \in Stas, b \in Bssids :
                deauth_push(t, b) \/ disassoc_push(t, b)
  BY <1>2, <1>7 DEF handle_auth_response, handle_assoc_response, auth_push,
     deauth_push, disassoc_push, Fault
<1>8. CASE \/ UNCHANGED vars
           \/ \E m \in VapMsgs : handle_add_vap(m)
           \/ \E b \in VapBssids : handle_del_vap(b)
           \/ \E m \in RuleMsgs : handle_set_traffic_rule(m)
           \/ \E m \in RuleMsgs : handle_del_traffic_rule(m)
           \/ write_ports
  <2>1. CASE UNCHANGED vars \/ write_ports
    BY Zenon, <2>1 DEF vars, write_ports
  <2>2. ASSUME NEW m \in VapMsgs, handle_add_vap(m)
        PROVE  lvaps' = lvaps
    BY Zenon, <2>2 DEF handle_add_vap
  <2>3. ASSUME NEW b \in VapBssids, handle_del_vap(b)
        PROVE  lvaps' = lvaps
    BY Zenon, <2>3 DEF handle_del_vap
  <2>4. ASSUME NEW m \in RuleMsgs,
               handle_set_traffic_rule(m) \/ handle_del_traffic_rule(m)
        PROVE  lvaps' = lvaps
    BY Zenon, <2>4 DEF handle_set_traffic_rule, handle_del_traffic_rule, Fault
  <2> QED
    BY Zenon, <1>8, <2>1, <2>2, <2>3, <2>4
<1> QED
  BY Zenon, <1>3, <1>4, <1>5, <1>6, <1>7, <1>8 DEF Next

\* The policy of a station goes only with the LVAP it has on that interface,
\* or by a del_port: no other station's removal or countdown takes it away.
THEOREM PoliciesOutlive == Spec => PolicyOutlivesOthers
<1>1. IInv /\ [Next]_vars =>
        [\A i \in Ifaces, s \in Stas :
           s \in txp[i] \ txp'[i] =>
             \/ s \in Hosted /\ lvaps[s].iface = i /\ lvaps'[s] = NoLvap
             \/ lvaps' = lvaps]_vars
  BY Zenon, StepKeepsPolicies
<1> QED
  BY <1>1, Invariance, PTL DEF Spec, PolicyOutlivesOthers

-----------------------------------------------------------------------------
(***************************************************************************)
(* The invariant of the tables holds with data frames as well: a frame     *)
(* that finds no queue ends the process and changes none of them.          *)
(***************************************************************************)

\* A frame whose copy finds no queue only ends the process.
LEMMA FaultKeepsInv ==
  ASSUME IInv, Fault("segv"), UNCHANGED History
  PROVE  IInv'
<1>1. UNCHANGED <<lvaps, vaps, masks, rules, txp, ports, requests, replies>>
      /\ agent' = "segv"
  BY DEF Fault, History
<1>2. LvapInv'
  BY <1>1, SameLvaps DEF IInv
<1>3. RestOK' /\ HistoryOK' /\ KeptIdsOpen'
  BY Zenon, <1>1 DEF IInv, RestOK, HistoryOK, AnsweredOnce, KeptIdsOpen, Open, Hosted
<1> QED
  BY <1>2, <1>3 DEF IInv

\* Every other step of the data path is one of the tables, or a stutter.
LEMMA DataStepKeepsInv == IInv /\ [DataNext]_dvars => IInv'
<1> SUFFICES ASSUME IInv, [DataNext]_dvars PROVE IInv'
  OBVIOUS
<1>1. CASE \/ \E dst \in Stas \cup {Group}, dscp \in Dscps :
                \E dms \in Policies(dst) : tee_push(dst, dscp, dms)
           \/ \E s \in Stas, b \in Bssids, dst \in Stas \cup {Group}, dscp \in Dscps :
                \E dms \in Policies(dst) : decap_push(s, b, dst, dscp, dms)
  BY <1>1, FaultKeepsInv DEF tee_push, decap_push
<1>2. CASE [Next]_vars
  BY <1>2, StepKeepsInv
<1>3. CASE UNCHANGED dvars
  <2>1. UNCHANGED vars
    BY <1>3 DEF dvars, vars
  <2> QED
    BY <2>1, StepKeepsInv
<1>4. CASE \E m \in AddMsgs : AddStrays(m)
  <2>1. \E m \in AddMsgs : handle_add_lvap(m)
    BY Zenon, <1>4 DEF AddStrays, handle_add_lvap
  <2> QED
    BY Zenon, <1>2, <2>1 DEF Next
<1>5. CASE \E m \in DelMsgs : DelStrays(m)
  <2>1. \E m \in DelMsgs : handle_del_lvap(m)
    BY <1>5 DEF DelStrays
  <2> QED
    BY Zenon, <1>2, <2>1 DEF Next
<1>6. CASE TimerStrays \/ OtherMessage
  <2>1. Next
    BY Zenon, <1>6 DEF TimerStrays, OtherMessage, Next
  <2> QED
    BY <1>2, <2>1
<1>7. CASE Frames
  BY Zenon, <1>1, <1>2, <1>7 DEF Frames, Next
<1> QED
  BY <1>3, <1>4, <1>5, <1>6, <1>7 DEF DataNext

\* The ids an LVAP keeps for the end of a countdown are those of unanswered
\* requests for that very station, also when data frames end the process
\* between a request and its answer.
THEOREM IdsStayOpen == DataSpec => []KeptIdsOpen
<1>1. DataInit => IInv
  BY InitEstablishesInv DEF DataInit
<1>2. IInv => KeptIdsOpen
  BY DEF IInv
<1> QED
  BY <1>1, <1>2, DataStepKeepsInv, PTL DEF DataSpec

-----------------------------------------------------------------------------
(***************************************************************************)
(* Group frames.                                                           *)
(***************************************************************************)

\* The copies of a group frame that station s hears come from its interface:
\* under DMS the one addressed to it; otherwise the one addressed to it when
\* its BSSID is its own, or the one of its VAP, never both.
LEMMA OneCopyHeard ==
  ASSUME IInv, NEW dms \in SUBSET Ifaces, NEW s \in AllServed
  PROVE  LET heard == HeardBy(s, Copies(Group, dms))
             i     == lvaps[s].iface
             b     == lvaps[s].lvap_bssid
             own   == CopyFor(i, s, s)
             vap   == [iface |-> i, ra |-> Group, ta |-> b, ssid |-> vaps[b].ssid]
             here  == b \in VapBssids /\ vaps[b] # NoVap /\ vaps[b].iface = i
         IN  /\ heard \subseteq (IF i \in dms \/ ~Shared(s) THEN {own} ELSE {vap})
             /\ i \in dms \/ ~Shared(s) => own \in heard
             /\ i \notin dms /\ here => vap \in heard
<1> DEFINE heard == HeardBy(s, Copies(Group, dms))
           i     == lvaps[s].iface
           b     == lvaps[s].lvap_bssid
           own   == CopyFor(i, s, s)
           vap   == [iface |-> i, ra |-> Group, ta |-> b, ssid |-> vaps[b].ssid]
           here  == b \in VapBssids /\ vaps[b] # NoVap /\ vaps[b].iface = i
<1>1. /\ s \in Stas /\ s # Group /\ i \in Ifaces /\ s \in Served(i)
  BY GroupAssumption DEF AllServed, Served, Hosted
<1>2. \A c : c \in heard <=> /\ c \in eqm_push(i, Group, dms)
                             /\ c.ta = b
                             /\ c.ra \in {s, Group}
  <2>1. \A j \in Ifaces : \A c \in eqm_push(j, Group, dms) : c.iface = j
    BY SMTT(30) DEF eqm_push, LegacyCopies, CopyFor
  <2> QED
    BY ZenonT(30), <1>1, <2>1 DEF HeardBy, Copies, tee_outputs
<1>3. CASE i \in dms
  <2>1. \A c : c \in eqm_push(i, Group, dms) <=> \E t \in Served(i) : c = CopyFor(i, t, t)
    BY <1>3 DEF eqm_push
  <2>2. \A t \in Served(i) : CopyFor(i, t, t).ra = t /\ t # Group
    BY Zenon, GroupAssumption DEF CopyFor, Served, Hosted
  <2>3. own.ta = b /\ own.ra = s
    BY ZenonT(30) DEF CopyFor
  <2> QED
    BY <1>1, <1>2, <1>3, <2>1, <2>2, <2>3
<1>4. CASE i \notin dms
  <2> DEFINE V == {c \in VapBssids : vaps[c] # NoVap /\ vaps[c].iface = i}
             VapCopy(c) == [iface |-> i, ra |-> Group, ta |-> c, ssid |-> vaps[c].ssid]
  <2>1. \A c : c \in eqm_push(i, Group, dms) <=>
                 \/ \E t \in Served(i) : ~Shared(t) /\ c = CopyFor(i, t, t)
                 \/ \E v \in V : c = VapCopy(v)
    BY Zenon, <1>4 DEF eqm_push, LegacyCopies
  <2>2. \A t \in Served(i) : CopyFor(i, t, t).ra = t /\ t # Group
    BY GroupAssumption DEF CopyFor, Served, Hosted
  <2>3. own.ta = b /\ own.ra = s
    BY DEF CopyFor
  <2>4. \A v \in V : VapCopy(v).ta = v /\ VapCopy(v).ra = Group
    BY Zenon
  <2>5. ~Shared(s) => b \notin VapBssids
    BY Zenon, <1>1, BssidAssumption DEF Shared
  <2> HIDE DEF VapCopy
  <2>6. vap = VapCopy(b)
    BY Zenon DEF VapCopy
  <2>7. \A c \in heard : \/ ~Shared(s) /\ c = own
                         \/ b \in V /\ c = VapCopy(b)
    <3> SUFFICES ASSUME NEW c \in heard
                 PROVE  \/ ~Shared(s) /\ c = own
                        \/ b \in V /\ c = VapCopy(b)
      OBVIOUS
    <3>1. c.ta = b /\ c.ra \in {s, Group}
      BY Zenon, <1>2
    <3>2. ASSUME NEW t \in Served(i), ~Shared(t), c = CopyFor(i, t, t)
          PROVE  ~Shared(s) /\ c = own
      BY Zenon, <2>2, <3>1, <3>2
    <3>3. ASSUME NEW v \in V, c = VapCopy(v)
          PROVE  b \in V /\ c = VapCopy(b)
      BY Zenon, <2>4, <3>1, <3>3
    <3> QED
      BY Zenon, <1>2, <2>1, <3>2, <3>3
  <2>8. ~Shared(s) => own \in heard
    BY Zenon, <1>1, <1>2, <2>1, <2>3
  <2>9. ASSUME here
        PROVE  vap \in heard
    BY Zenon, <1>2, <2>1, <2>4, <2>6, <2>9
  <2> QED
    BY Zenon, <1>4, <2>5, <2>6, <2>7, <2>8, <2>9
<1> QED
  BY Zenon, <1>3, <1>4

\* Whatever the tables have gone through, a group frame reaches every station
\* it is sent to exactly once, and not at all only when a policy other than
\* DMS leaves a shared LVAP to a VAP that is not on its interface.
THEOREM GroupFramesOnce == DataSpec => []GroupReachesOnce
<1>1. DataInit => IInv
  BY InitEstablishesInv DEF DataInit
<1>2. IInv => GroupReachesOnce
  <2> SUFFICES ASSUME IInv, NEW dms \in SUBSET Ifaces, NEW s \in AllServed
               PROVE  LET heard == HeardBy(s, Copies(Group, dms))
                          i     == lvaps[s].iface
                          b     == lvaps[s].lvap_bssid
                      IN  /\ \A c, d \in heard : c = d
                          /\ heard = {} =>
                               /\ i \notin dms
                               /\ Shared(s)
                               /\ b \in VapBssids => vaps[b] = NoVap \/ vaps[b].iface # i
    BY Zenon DEF GroupReachesOnce
  <2> DEFINE heard == HeardBy(s, Copies(Group, dms))
             own   == CopyFor(lvaps[s].iface, s, s)
             vap   == [iface |-> lvaps[s].iface, ra |-> Group,
                       ta |-> lvaps[s].lvap_bssid,
                       ssid |-> vaps[lvaps[s].lvap_bssid].ssid]
             OwnOnly == lvaps[s].iface \in dms \/ ~Shared(s)
  <2>1. /\ heard \subseteq (IF OwnOnly THEN {own} ELSE {vap})
        /\ OwnOnly => own \in heard
        /\ \/ lvaps[s].iface \in dms
           \/ lvaps[s].lvap_bssid \notin VapBssids
           \/ vaps[lvaps[s].lvap_bssid] = NoVap
           \/ vaps[lvaps[s].lvap_bssid].iface # lvaps[s].iface
           \/ vap \in heard
    BY Zenon, OneCopyHeard
  <2> HIDE DEF heard, own, vap
  <2>2. \A c, d \in heard : c = d
    BY Zenon, <2>1
  <2>3. heard = {} =>
          /\ ~OwnOnly
          /\ \/ lvaps[s].lvap_bssid \notin VapBssids
             \/ vaps[lvaps[s].lvap_bssid] = NoVap
             \/ vaps[lvaps[s].lvap_bssid].iface # lvaps[s].iface
    BY Zenon, <2>1
  <2> QED
    BY Zenon, <2>2, <2>3 DEF heard
<1> QED
  BY <1>1, <1>2, DataStepKeepsInv, PTL DEF DataSpec

\* The places of the LVAPs are natural numbers, of two LVAPs different ones.
LEMMA Places ==
  ASSUME NEW pos \in Orders
  PROVE  /\ \A s \in Stas : pos[s] \in Nat
         /\ \A s, t \in Stas : pos[s] = pos[t] => s = t
<1>1. pos \in [Stas -> Slots] /\ \A s, t \in Stas : pos[s] = pos[t] => s = t
  BY Zenon DEF Orders
<1>2. \A s \in Stas : pos[s] \in Slots
  BY Zenon, <1>1
<1> QED
  BY Zenon, <1>1, <1>2, SlotAssumption

\* Of a set of stations, some one is visited before all the others.
LEMMA FirstVisited ==
  ASSUME NEW pos \in Orders, NEW S, S \subseteq Stas, S # {}
  PROVE  \E u \in S : \A t \in S : ~(pos[t] < pos[u])
<1> DEFINE T == {pos[t] : t \in S}
<1>1. T \subseteq Nat /\ T # {}
  <2>1. \A t \in S : pos[t] \in Nat
    BY Zenon, Places
  <2>2. \E t \in S : TRUE
    BY Zenon
  <2> QED
    BY Zenon, <2>1, <2>2
<1>2. \E x \in T : \A y \in T : ~(<<y, x>> \in OpToRel(<, Nat))
  <2> HIDE DEF T
  <2> QED
    BY Zenon, <1>1, NatLessThanWellFounded, WFMin
<1>3. PICK x \in T : \A y \in T : ~(y < x)
  <2> HIDE DEF T
  <2> QED
    BY Zenon, <1>1, <1>2 DEF OpToRel
<1> QED
  BY <1>3

\* A station that the loops of EmpowerWifiEncap::push send to hears one frame
\* under the legacy policy: the one of the LVAP visited first of those with
\* its BSSID.
LEMMA OneOfEachBssid ==
  ASSUME NEW i, NEW s \in Served(i), NEW pos \in Orders, i = lvaps[s].iface
  PROVE  LET heard == HeardBy(s, encap_group(i, "legacy", pos))
         IN  \E c \in heard : heard = {c}
<1> DEFINE key == [t \in Served(i) |-> lvaps[t].lvap_bssid]
           Same == {t \in Served(i) : key[t] = key[s]}
           heard == HeardBy(s, encap_group(i, "legacy", pos))
<1>1. PICK u \in Same : \A t \in Same : ~(pos[t] < pos[u])
  <2>1. Same \subseteq Stas /\ s \in Same
    BY Zenon DEF Served, Hosted
  <2> HIDE DEF Same
  <2> QED
    BY Zenon, <2>1, FirstVisited
<1>2. u \in FirstOf(i, key, pos)
  BY Zenon, <1>1 DEF FirstOf
<1>3. \A t \in FirstOf(i, key, pos) : t \in Same => t = u
  <2> SUFFICES ASSUME NEW t \in FirstOf(i, key, pos), t \in Same PROVE t = u
    OBVIOUS
  <2>1. ~(pos[u] < pos[t]) /\ ~(pos[t] < pos[u])
    BY Zenon, <1>1 DEF FirstOf
  <2>2. t \in Stas /\ u \in Stas
    BY Zenon, <1>1 DEF Served, Hosted
  <2>3. pos[t] \in Nat /\ pos[u] \in Nat
    BY Zenon, <2>2, Places
  <2>4. pos[t] = pos[u]
    BY SMT, <2>1, <2>3
  <2> QED
    BY Zenon, <2>2, <2>4, Places
<1>4. \A c : c \in encap_group(i, "legacy", pos) <=>
             \E t \in FirstOf(i, key, pos) : c = Frame(i, t, Group)
  BY DEF encap_group
<1>5. \A t \in FirstOf(i, key, pos) :
        /\ Frame(i, t, Group).iface = i
        /\ Frame(i, t, Group).ra = Group
        /\ Frame(i, t, Group).ta = lvaps[t].lvap_bssid
        /\ t \in Same <=> lvaps[t].lvap_bssid = lvaps[s].lvap_bssid
  BY Zenon DEF Frame, FirstOf
<1>6. \A c : c \in heard <=> c = Frame(i, u, Group)
  <2> HIDE DEF key, Same
  <2>1. \A c : c \in heard <=> /\ c \in encap_group(i, "legacy", pos)
                               /\ c.iface = i
                               /\ c.ta = lvaps[s].lvap_bssid
                               /\ c.ra \in {s, Group}
    BY Zenon DEF HeardBy
  <2>2. u \in Same
    BY <1>1
  <2>3. Frame(i, u, Group) \in heard
    BY Zenon, <1>2, <1>4, <1>5, <2>1, <2>2
  <2>4. ASSUME NEW c \in heard PROVE c = Frame(i, u, Group)
    <3>1. PICK t \in FirstOf(i, key, pos) : c = Frame(i, t, Group)
      BY Zenon, <1>4, <2>1
    <3>2. t \in Same
      BY Zenon, <1>5, <2>1, <3>1
    <3> QED
      BY Zenon, <1>3, <3>1, <3>2
  <2> QED
    BY Zenon, <2>3, <2>4
<1> QED
  <2> HIDE DEF heard
  <2>1. heard = {Frame(i, u, Group)}
    BY Zenon, <1>6
  <2> QED
    BY Zenon, <2>1 DEF heard

\* EmpowerWifiEncap reaches every station exactly once, or, under UR, not at
\* all, in whichever order it visits the LVAPs.
THEOREM EncapFramesOnce == DataSpec => []EncapReachesOnce
<1>1. DataInit => IInv
  BY InitEstablishesInv DEF DataInit
<1>2. IInv => EncapReachesOnce
  <2> SUFFICES ASSUME NEW p \in Mcast, NEW pos \in Orders, NEW s \in AllServed
               PROVE  LET heard == HeardBy(s, encap_group(lvaps[s].iface, p, pos)) IN
                      IF p = "ur" THEN heard = {} ELSE \E c \in heard : heard = {c}
    BY Zenon DEF EncapReachesOnce
  <2> DEFINE i == lvaps[s].iface
             key == [t \in Served(i) |-> t]
             heard == HeardBy(s, encap_group(i, p, pos))
  <2>1. s \in Served(i) /\ s # Group /\ \A t \in Served(i) : t # Group
    BY Zenon, GroupAssumption DEF AllServed, Served, Hosted
  <2>2. CASE p = "ur"
    <3>1. heard = {}
      BY <2>2 DEF HeardBy, encap_group
    <3> QED
      BY <2>2, <3>1
  <2>3. CASE p = "dms"
    <3>1. FirstOf(i, key, pos) = Served(i)
      <4>1. \A t \in Served(i) : t \in Stas
        BY Zenon DEF Served, Hosted
      <4>2. \A t \in Served(i) : pos[t] \in Nat
        BY Zenon, <4>1, Places
      <4>3. \A t, r \in Served(i) : pos[t] < pos[r] => key[t] # key[r]
        BY <4>2
      <4> QED
        BY Zenon, <4>3 DEF FirstOf
    <3>2. heard = {Frame(i, s, s)}
      BY <2>1, <2>3, <3>1 DEF HeardBy, encap_group, Frame
    <3> QED
      BY Zenon, <2>3, <3>2
  <2>4. CASE p = "legacy"
    BY Zenon, <2>1, <2>4, OneOfEachBssid
  <2> QED
    BY Zenon, <2>2, <2>3, <2>4 DEF Mcast
<1> QED
  BY <1>1, <1>2, DataStepKeepsInv, PTL DEF DataSpec

-----------------------------------------------------------------------------
(***************************************************************************)
(* The queue of a copy.  A tenant's default queue on an interface is there *)
(* from the first add_lvap or add_vap that asks for it until the           *)
(* controller deletes it, which dropped remembers.                         *)
(***************************************************************************)

Queued(i, ssid) ==
  \/ ssid = ""
  \/ <<ssid, 0>> \in rules[i]
  \/ <<i, ssid>> \in dropped

LvapsQueued ==
  \A s \in Hosted \ strayed : Queued(lvaps[s].iface, lvaps[s].ssid)

VapsQueued ==
  \A b \in VapBssids :
    vaps[b] # NoVap => Queued(vaps[b].iface, vaps[b].ssid)

QueuesInv == IInv /\ LvapsQueued /\ VapsQueued

\* The same after a step, for an interface and a tenant of either state.
QueuedAfter(i, ssid) ==
  \/ ssid = ""
  \/ <<ssid, 0>> \in rules'[i]
  \/ <<i, ssid>> \in dropped'

\* Only del_traffic_rule takes a rule away, and dropped records it.
LEMMA QueuedKept ==
  ASSUME dropped' = DroppedAfter, NEW i \in Ifaces, NEW ssid \in SsidOrNone,
         Queued(i, ssid)
  PROVE  QueuedAfter(i, ssid)
<1>1. CASE ssid = ""
  BY Zenon, <1>1 DEF QueuedAfter
<1>2. CASE ssid # ""
  <2>1. <<i, ssid>> \in Ifaces \X Ssids
    BY Zenon, <1>2 DEF SsidOrNone
  <2>2. <<i, ssid>> \in DroppedAfter <=>
          /\ <<ssid, 0>> \notin rules'[i]
          /\ <<i, ssid>> \in dropped \/ <<ssid, 0>> \in rules[i]
    BY Zenon, <2>1 DEF DroppedAfter
  <2> QED
    BY Zenon, <1>2, <2>2 DEF Queued, QueuedAfter
<1> QED
  BY Zenon, <1>1, <1>2

\* A handler that asks for the default rule of a tenant has its queue.
LEMMA DefaultRuleQueues ==
  ASSUME IInv, NEW i \in Ifaces, NEW ssid,
         rules' = WithDefaultRule(rules, i, ssid)
  PROVE  QueuedAfter(i, ssid)
BY Zenon DEF IInv, RestOK, WithDefaultRule, QueuedAfter

\* An entry that stays on its interface with its tenant, or without one,
\* keeps its queue.
LEMMA SameTenantQueued ==
  ASSUME IInv, dropped' = DroppedAfter, LvapsQueued,
         NEW s \in Hosted \ strayed,
         lvaps'[s].iface = lvaps[s].iface,
         lvaps'[s].ssid \in {"", lvaps[s].ssid}
  PROVE  QueuedAfter(lvaps'[s].iface, lvaps'[s].ssid)
<1>1. lvaps[s] \in Lvap
  BY Zenon DEF IInv, LvapInv, LvapTable, Hosted
<1>2. lvaps[s].iface \in Ifaces /\ lvaps[s].ssid \in SsidOrNone
  BY Zenon, <1>1 DEF Lvap
<1>3. Queued(lvaps[s].iface, lvaps[s].ssid)
  BY Zenon DEF LvapsQueued
<1>4. QueuedAfter(lvaps[s].iface, lvaps[s].ssid)
  BY Zenon, <1>2, <1>3, QueuedKept
<1>5. CASE lvaps'[s].ssid = ""
  BY Zenon, <1>5 DEF QueuedAfter
<1> QED
  BY Zenon, <1>4, <1>5

\* Writing one entry, whose station is strayed or whose tenant is queued
\* where it is, keeps the queues of all LVAPs.
LEMMA WriteKeepsQueues ==
  ASSUME IInv, dropped' = DroppedAfter, LvapsQueued,
         NEW s \in Stas, NEW q,
         lvaps' = [lvaps EXCEPT ![s] = q],
         (strayed \cap Hosted) \ {s} \subseteq strayed',
         \/ s \in strayed'
         \/ q = NoLvap
         \/ QueuedAfter(q.iface, q.ssid)
         \/ /\ s \in Hosted \ strayed
            /\ q.iface = lvaps[s].iface
            /\ q.ssid \in {"", lvaps[s].ssid}
  PROVE  LvapsQueued'
<1> SUFFICES ASSUME NEW t \in Stas, lvaps'[t] # NoLvap, t \notin strayed'
             PROVE  QueuedAfter(lvaps'[t].iface, lvaps'[t].ssid)
  BY Zenon DEF LvapsQueued, Hosted, Queued, QueuedAfter
<1>1. lvaps'[t] = IF t = s THEN q ELSE lvaps[t]
  BY Zenon DEF IInv, LvapInv, LvapTable
<1>2. CASE t = s
  BY Zenon, <1>1, <1>2, SameTenantQueued
<1>3. CASE t # s
  <2>1. t \in Hosted \ strayed /\ lvaps'[t] = lvaps[t]
    BY Zenon, <1>1, <1>3 DEF Hosted
  <2> QED
    BY Zenon, <2>1, SameTenantQueued
<1> QED
  BY Zenon, <1>2, <1>3

\* A step that leaves the LVAPs alone keeps their queues.
LEMMA NoWriteKeepsQueues ==
  ASSUME IInv, dropped' = DroppedAfter, LvapsQueued, lvaps' = lvaps,
         strayed \cap Hosted \subseteq strayed'
  PROVE  LvapsQueued'
<1> SUFFICES ASSUME NEW t \in Hosted, t \notin strayed'
             PROVE  QueuedAfter(lvaps'[t].iface, lvaps'[t].ssid)
  BY Zenon DEF LvapsQueued, Hosted, Queued, QueuedAfter
<1> QED
  BY Zenon, SameTenantQueued

\* So does a step that leaves the VAPs alone, erases one, or adds one and
\* asks for the default rule of its tenant.
LEMMA VapsKeepQueues ==
  ASSUME IInv, dropped' = DroppedAfter, VapsQueued,
         NEW c \in VapBssids,
         \A b \in VapBssids \ {c} : vaps'[b] = vaps[b],
         \/ vaps'[c] = vaps[c]
         \/ vaps'[c] = NoVap
         \/ QueuedAfter(vaps'[c].iface, vaps'[c].ssid)
  PROVE  VapsQueued'
<1> SUFFICES ASSUME NEW b \in VapBssids, vaps'[b] # NoVap
             PROVE  QueuedAfter(vaps'[b].iface, vaps'[b].ssid)
  BY Zenon DEF VapsQueued, Queued, QueuedAfter
<1>1. CASE vaps'[b] = vaps[b]
  <2>1. vaps[b] \in Vap
    BY Zenon, <1>1 DEF IInv, RestOK
  <2>2. vaps[b].iface \in Ifaces /\ vaps[b].ssid \in SsidOrNone
    BY Zenon, <2>1 DEF Vap
  <2>3. Queued(vaps[b].iface, vaps[b].ssid)
    BY Zenon, <1>1 DEF VapsQueued
  <2> QED
    BY Zenon, <1>1, <2>2, <2>3, QueuedKept
<1> QED
  BY Zenon, <1>1

\* An add_lvap asks for the rule of its own block; an LVAP it leaves on
\* another interface is strayed.
LEMMA AddKeepsQueues ==
  ASSUME QueuesInv, dropped' = DroppedAfter, NEW m \in AddMsgs, AddStrays(m)
  PROVE  LvapsQueued'
<1> DEFINE i == element_to_iface(m.block)
<1>1. m \in AddLvapMsgs /\ m.sta \in Stas /\ m.ssid \in SsidOrNone
  BY MessageAssumption DEF AddLvapMsgs
<1>2. IInv /\ LvapsQueued
  BY DEF QueuesInv
<1>3. lvaps[m.sta] \in Lvap \cup {NoLvap}
  BY <1>1, <1>2 DEF IInv, LvapInv, LvapTable
<1>4. ASSUME NEW q, lvaps' = [lvaps EXCEPT ![m.sta] = q], q.ssid = m.ssid,
             i # NoIface, rules' = WithDefaultRule(rules, i, m.ssid),
             strayed' = IF lvaps'[m.sta].iface = i
                        THEN strayed \ {m.sta} ELSE strayed \cup {m.sta}
      PROVE  LvapsQueued'
  <2>1. i \in Ifaces
    BY Zenon, <1>4, IfaceOfBlock
  <2>2. QueuedAfter(i, m.ssid)
    BY Zenon, <1>2, <1>4, <2>1, DefaultRuleQueues
  <2>3. lvaps'[m.sta] = q
    BY Zenon, <1>1, <1>2, <1>4 DEF IInv, LvapInv, LvapTable
  <2>4. (strayed \cap Hosted) \ {m.sta} \subseteq strayed'
    BY Zenon, <1>4
  <2>5. m.sta \in strayed' \/ QueuedAfter(q.iface, q.ssid)
    BY Zenon, <1>4, <2>2, <2>3
  <2> QED
    BY Zenon, <1>1, <1>2, <1>4, <2>4, <2>5, WriteKeepsQueues
<1>5. CASE add_lvap_new(m) \/ add_lvap_update(m)
  <2>1. strayed' = IF lvaps'[m.sta].iface = i
                   THEN strayed \ {m.sta} ELSE strayed \cup {m.sta}
    BY Zenon, <1>5 DEF AddStrays, add_lvap_new, add_lvap_update, add_lvap_ignored,
                add_lvap_during_csa, AddAccepted
  <2>2. CASE add_lvap_new(m)
    <3>1. Created(m).ssid = m.ssid
      BY Zenon DEF Created
    <3> QED
      BY Zenon, <1>4, <2>1, <2>2, <3>1 DEF add_lvap_new, AddAccepted
  <2>3. CASE add_lvap_update(m)
    <3>1. lvaps[m.sta] \in Lvap
      BY Zenon, <1>3, <2>3 DEF add_lvap_update
    <3>2. Updated(lvaps[m.sta], m).ssid = m.ssid
      BY <3>1 DEF Updated, Lvap
    <3>3. lvaps' = [lvaps EXCEPT ![m.sta] = Updated(lvaps[m.sta], m)]
      BY <2>3 DEF add_lvap_update
    <3> QED
      BY Zenon, <1>4, <2>1, <2>3, <3>2, <3>3 DEF add_lvap_update, AddAccepted
  <2> QED
    BY <1>5, <2>2, <2>3
<1>6. CASE add_lvap_ignored(m) /\ UNCHANGED strayed
  <2>1. lvaps' = lvaps
    BY <1>6 DEF add_lvap_ignored
  <2> QED
    BY <1>2, <1>6, <2>1, NoWriteKeepsQueues
<1>7. CASE add_lvap_during_csa(m) /\ UNCHANGED strayed
  <2>1. CASE lvaps' = lvaps
    BY <1>2, <1>7, <2>1, NoWriteKeepsQueues
  <2>2. CASE lvaps' = [lvaps EXCEPT ![m.sta] = [lvaps[m.sta] EXCEPT !.add_id = NewId]]
    <3> DEFINE q == [lvaps[m.sta] EXCEPT !.add_id = NewId]
    <3>1. lvaps[m.sta] \in Lvap /\ m.sta \in Hosted
      BY <1>1, <1>3, <1>7 DEF add_lvap_during_csa, Hosted
    <3>2. q.iface = lvaps[m.sta].iface /\ q.ssid = lvaps[m.sta].ssid
      BY <3>1 DEF Lvap
    <3> HIDE DEF q
    <3>3. lvaps' = [lvaps EXCEPT ![m.sta] = q]
      BY <2>2 DEF q
    <3> QED
      BY Zenon, <1>1, <1>2, <1>7, <3>1, <3>2, <3>3, WriteKeepsQueues
  <2> QED
    BY <1>7, <2>1, <2>2 DEF add_lvap_during_csa, Fault
<1> QED
  BY Zenon, <1>5, <1>6, <1>7 DEF AddStrays

\* A del_lvap erases an LVAP or starts its countdown.
LEMMA DelKeepsQueues ==
  ASSUME QueuesInv, dropped' = DroppedAfter, NEW m \in DelMsgs, DelStrays(m)
  PROVE  LvapsQueued'
<1>1. m.sta \in Stas
  BY MessageAssumption DEF DelLvapMsgs
<1>2. IInv /\ LvapsQueued /\ lvaps \in LvapTable /\ lvaps[m.sta] \in Lvap \cup {NoLvap}
  BY <1>1 DEF QueuesInv, IInv, LvapInv, LvapTable
<1>3. CASE del_lvap_ignored(m)
  <2>1. lvaps' = lvaps /\ strayed' = strayed \cap Hosted
    BY Zenon, <1>3 DEF del_lvap_ignored, DelStrays, Hosted
  <2> QED
    BY Zenon, <1>2, <2>1, NoWriteKeepsQueues
<1>4. CASE del_lvap_now(m)
  <2>1. lvaps' = [lvaps EXCEPT ![m.sta] = NoLvap]
    BY Zenon, <1>4 DEF del_lvap_now, remove_lvap
  <2>2. (strayed \cap Hosted) \ {m.sta} \subseteq strayed'
    BY <1>2, <2>1 DEF DelStrays, Hosted, LvapTable
  <2> QED
    BY Zenon, <1>1, <1>2, <2>1, <2>2, WriteKeepsQueues
<1>5. CASE del_lvap_csa(m)
  <2> DEFINE q == CsaStarted(lvaps[m.sta], m, NewId)
  <2>1. lvaps[m.sta] \in Lvap /\ m.sta \in Hosted
    BY Zenon, <1>1, <1>2, <1>5 DEF del_lvap_csa, Hosted
  <2>2. q.iface = lvaps[m.sta].iface /\ q.ssid = lvaps[m.sta].ssid /\ q # NoLvap
    <3>1. q.iface = lvaps[m.sta].iface /\ q.ssid = lvaps[m.sta].ssid
      BY <2>1 DEF CsaStarted, Lvap
    <3>2. m \in DelLvapMsgs
      BY MessageAssumption
    <3>3. NewId \in Ids
      BY <1>2, <1>5, MessageAssumption
         DEF del_lvap_csa, Receive, NewId, Ids, IInv, HistoryOK
    <3>4. q \in Lvap
      BY Zenon, <1>5, <2>1, <3>2, <3>3, CsaStartedFacts DEF del_lvap_csa, NeedsCsa,
         Shared
    <3> QED
      BY Zenon, <3>1, <3>4, MarkAssumption
  <2> HIDE DEF q
  <2>3. lvaps' = [lvaps EXCEPT ![m.sta] = q]
    BY <1>5 DEF del_lvap_csa, q
  <2>4. (strayed \cap Hosted) \subseteq strayed'
    BY Zenon, <1>1, <1>2, <2>2, <2>3 DEF DelStrays, Hosted, LvapTable
  <2> QED
    BY Zenon, <1>1, <1>2, <2>1, <2>2, <2>3, <2>4, WriteKeepsQueues
<1> QED
  BY <1>3, <1>4, <1>5 DEF DelStrays, handle_del_lvap

\* The beacon timer moves only LVAPs whose countdown ends: these are strayed.
LEMMA TimerKeepsQueues ==
  ASSUME QueuesInv, dropped' = DroppedAfter, TimerStrays
  PROVE  LvapsQueued'
<1> SUFFICES ASSUME NEW t \in Stas, lvaps'[t] # NoLvap, t \notin strayed'
             PROVE  QueuedAfter(lvaps'[t].iface, lvaps'[t].ssid)
  BY Zenon DEF LvapsQueued, Hosted, Queued, QueuedAfter
<1>1. IInv /\ LvapsQueued /\ lvaps[t] \in Lvap \cup {NoLvap}
  BY DEF QueuesInv, IInv, LvapInv, LvapTable
<1>2. /\ lvaps'[t] = send_lvap_csa_beacon(t)
      /\ strayed' = (strayed \cup Ending) \ Leaving
  BY Zenon DEF TimerStrays, run_timer, AfterBeacon
<1>3. t \in Hosted /\ t \notin Leaving
  <2>1. CASE t \notin Hosted
    <3>1. lvaps'[t] = lvaps[t]
      BY <1>2, <2>1 DEF send_lvap_csa_beacon
    <3> QED
      BY <2>1, <3>1 DEF Hosted
  <2>2. CASE t \in Leaving
    <3>1. t \in Hosted /\ lvaps[t].csa_active /\ lvaps[t].count = 0
      BY Zenon, <2>2 DEF Leaving, Ending
    <3>2. lvaps'[t] = NoLvap
      BY <1>2, <2>2, <3>1 DEF send_lvap_csa_beacon
    <3> QED
      BY <3>2
  <2> QED
    BY <2>1, <2>2
<1>4. t \notin strayed /\ t \notin Ending
  BY Zenon, <1>2, <1>3
<1>5. lvaps[t] \in Lvap
  BY Zenon, <1>1, <1>3 DEF Hosted
<1>6. lvaps'[t].iface = lvaps[t].iface /\ lvaps'[t].ssid = lvaps[t].ssid
  <2>1. CASE ~lvaps[t].csa_active
    BY <1>2, <1>3, <2>1 DEF send_lvap_csa_beacon
  <2>2. CASE lvaps[t].csa_active
    <3>1. lvaps[t].count # 0 /\ lvaps[t].count \in Nat
      BY Zenon, <1>3, <1>4, <1>5, <2>2 DEF Ending, Lvap
    <3>2. lvaps'[t] = [lvaps[t] EXCEPT !.count = @ - 1]
      BY <1>2, <1>3, <2>2, <3>1 DEF send_lvap_csa_beacon
    <3> QED
      BY <1>5, <3>2 DEF Lvap
  <2> QED
    BY Zenon, <2>1, <2>2
<1> QED
  BY Zenon, <1>1, <1>3, <1>4, <1>6, SameTenantQueued

\* The responses of the controller and the frames of a station leave an LVAP
\* where it is and keep or clear its tenant.
LEMMA StationKeepsQueues ==
  ASSUME QueuesInv, dropped' = DroppedAfter, strayed' = strayed, NEW s \in Stas,
         \/ handle_auth_response(s)
         \/ handle_assoc_response(s)
         \/ \E b \in Bssids, i \in Ifaces : auth_push(s, b, i)
         \/ \E b \in Bssids : deauth_push(s, b)
         \/ \E b \in Bssids : disassoc_push(s, b)
  PROVE  LvapsQueued'
<1> DEFINE r == lvaps[s]
<1>1. IInv /\ LvapsQueued /\ r \in Lvap \cup {NoLvap}
  BY Zenon DEF QueuesInv, IInv, LvapInv, LvapTable
<1>2. CASE lvaps' = lvaps
  BY Zenon, <1>1, <1>2, NoWriteKeepsQueues
<1>3. ASSUME s \in Hosted, NEW q, lvaps' = [lvaps EXCEPT ![s] = q],
             q \in {Authenticated(r), [r EXCEPT !.assoc = TRUE],
                    Deauthenticated(s, r), Disassociated(r)}
      PROVE  LvapsQueued'
  <2>1. r \in Lvap
    BY <1>1, <1>3 DEF Hosted
  <2>2. q.iface = r.iface /\ q.ssid \in {"", r.ssid}
    BY Zenon, <1>3, <2>1 DEF Authenticated, Deauthenticated, Disassociated, Lvap
  <2> QED
    BY Zenon, <1>1, <1>3, <2>2, WriteKeepsQueues
<1>4. \/ lvaps' = lvaps
      \/ /\ s \in Hosted
         /\ \E q \in {Authenticated(r), [r EXCEPT !.assoc = TRUE],
                      Deauthenticated(s, r), Disassociated(r)} :
              lvaps' = [lvaps EXCEPT ![s] = q]
  BY DEF handle_auth_response, handle_assoc_response, auth_push, deauth_push,
         disassoc_push, FrameAccepted, Fault
<1> QED
  BY <1>2, <1>3, <1>4

\* The messages about VAPs, rules and ports leave the LVAPs alone, and the
\* frames the data path drops the process on leave everything alone.
LEMMA OthersKeepQueues ==
  ASSUME QueuesInv, dropped' = DroppedAfter, strayed' = strayed,
         OtherMessage \/ Frames
  PROVE  LvapsQueued'
<1>1. IInv /\ LvapsQueued
  BY DEF QueuesInv
<1>2. CASE lvaps' = lvaps
  BY <1>1, <1>2, NoWriteKeepsQueues
<1>3. CASE OtherMessage
  <2>1. CASE \E s \in Stas : handle_auth_response(s) \/ handle_assoc_response(s)
    BY Zenon, <2>1, StationKeepsQueues
  <2>2. CASE \/ \E m \in VapMsgs : handle_add_vap(m)
             \/ \E b \in VapBssids : handle_del_vap(b)
             \/ write_ports
    BY Zenon, <1>2, <2>2 DEF handle_add_vap, handle_del_vap, write_ports
  <2>3. CASE \E m \in RuleMsgs :
               handle_set_traffic_rule(m) \/ handle_del_traffic_rule(m)
    BY Zenon, <1>2, <2>3 DEF handle_set_traffic_rule, handle_del_traffic_rule, Fault
  <2>4. CASE \E m \in PortMsgs : handle_set_port(m) \/ handle_del_port(m)
    BY Zenon, <1>2, <2>4 DEF handle_set_port, handle_del_port
  <2> QED
    BY Zenon, <1>3, <2>1, <2>2, <2>3, <2>4 DEF OtherMessage
<1>4. CASE Frames
  <2>1. CASE \/ \E s \in Stas, b \in Bssids, i \in Ifaces : auth_push(s, b, i)
             \/ \E s \in Stas, b \in Bssids : deauth_push(s, b)
             \/ \E s \in Stas, b \in Bssids : disassoc_push(s, b)
    BY Zenon, <2>1, StationKeepsQueues
  <2>2. CASE \/ \E dst \in Stas \cup {Group}, dscp \in Dscps :
                  \E dms \in Policies(dst) : tee_push(dst, dscp, dms)
             \/ \E s \in Stas, b \in Bssids, dst \in Stas \cup {Group},
                   dscp \in Dscps :
                  \E dms \in Policies(dst) : decap_push(s, b, dst, dscp, dms)
    BY Zenon, <1>2, <2>2 DEF decap_push, tee_push, Fault
  <2> QED
    BY Zenon, <1>4, <2>1, <2>2 DEF Frames
<1> QED
  BY <1>3, <1>4

\* A step changes at most one VAP: add_vap with the default rule of its
\* tenant on its own interface, or del_vap.
LEMMA StepKeepsVapQueues ==
  ASSUME QueuesInv, DataNext
  PROVE  VapsQueued'
<1>1. IInv /\ VapsQueued /\ dropped' = DroppedAfter
      /\ vaps \in [VapBssids -> Vap \cup {NoVap}]
  BY Zenon DEF QueuesInv, DataNext, IInv, RestOK
<1>2. CASE vaps' = vaps
  <2>1. CASE VapBssids = {}
    BY <2>1 DEF VapsQueued
  <2>2. CASE VapBssids # {}
    BY Zenon, <1>1, <1>2, <2>2, VapsKeepQueues
  <2> QED
    BY <2>1, <2>2
<1>3. ASSUME NEW m \in VapMsgs, handle_add_vap(m)
      PROVE  VapsQueued'
  <2> DEFINE i == element_to_iface(m.block)
             v == [ssid |-> m.ssid, iface |-> i]
  <2>1. m.bssid \in VapBssids /\ i \in Ifaces
    BY Zenon, <1>3, MessageAssumption, IfaceOfBlock DEF handle_add_vap
  <2>2. vaps' = [vaps EXCEPT ![m.bssid] = v]
        /\ rules' = WithDefaultRule(rules, i, m.ssid)
    BY Zenon, <1>3 DEF handle_add_vap
  <2>3. QueuedAfter(i, m.ssid)
    BY Zenon, <1>1, <2>1, <2>2, DefaultRuleQueues
  <2>4. v.iface = i /\ v.ssid = m.ssid
    BY Zenon
  <2> HIDE DEF v
  <2>5. vaps'[m.bssid] = v /\ \A b \in VapBssids \ {m.bssid} : vaps'[b] = vaps[b]
    BY Zenon, <1>1, <2>1, <2>2
  <2> QED
    BY Zenon, <1>1, <2>1, <2>3, <2>4, <2>5, VapsKeepQueues
<1>4. ASSUME NEW b \in VapBssids, handle_del_vap(b)
      PROVE  VapsQueued'
  <2>1. vaps'[b] = NoVap /\ \A c \in VapBssids \ {b} : vaps'[c] = vaps[c]
    BY <1>1, <1>4 DEF handle_del_vap
  <2> QED
    BY Zenon, <1>1, <2>1, VapsKeepQueues
<1>5. CASE \E m \in AddMsgs : AddStrays(m)
  BY <1>2, <1>5 DEF AddStrays, add_lvap_new, add_lvap_update, add_lvap_ignored,
                    add_lvap_during_csa, Fault
<1>6. CASE \E m \in DelMsgs : DelStrays(m)
  BY Zenon, <1>2, <1>6 DEF DelStrays, handle_del_lvap, del_lvap_ignored, del_lvap_now,
                    del_lvap_csa
<1>7. CASE TimerStrays
  BY Zenon, <1>2, <1>7 DEF TimerStrays, run_timer
<1>8. CASE OtherMessage
  <2>1. CASE \E m \in RuleMsgs :
               handle_set_traffic_rule(m) \/ handle_del_traffic_rule(m)
    BY Zenon, <1>2, <2>1 DEF handle_set_traffic_rule, handle_del_traffic_rule, Fault
  <2>2. CASE \/ \E m \in PortMsgs : handle_set_port(m) \/ handle_del_port(m)
             \/ write_ports
    BY Zenon, <1>2, <2>2 DEF handle_set_port, handle_del_port, write_ports
  <2>3. CASE \E s \in Stas : handle_auth_response(s) \/ handle_assoc_response(s)
    BY <1>2, <2>3 DEF handle_auth_response, handle_assoc_response, Fault
  <2> QED
    BY Zenon, <1>3, <1>4, <1>8, <2>1, <2>2, <2>3 DEF OtherMessage
<1>9. CASE Frames
  <2>1. vaps' = vaps
    BY Zenon, <1>9 DEF Frames, auth_push, deauth_push, disassoc_push, decap_push,
                tee_push, Fault
  <2> QED
    BY <1>2, <2>1
<1> QED
  BY <1>5, <1>6, <1>7, <1>8, <1>9 DEF DataNext

\* Every step keeps the queues of the LVAPs that did not stray and of the VAPs.
LEMMA StepKeepsQueues == QueuesInv /\ [DataNext]_dvars => QueuesInv'
<1> SUFFICES ASSUME QueuesInv, [DataNext]_dvars PROVE QueuesInv'
  OBVIOUS
<1>1. IInv'
  BY DataStepKeepsInv DEF QueuesInv
<1>2. CASE UNCHANGED dvars
  <2>1. UNCHANGED <<lvaps, vaps, rules, strayed, dropped>>
    BY Zenon, <1>2 DEF dvars
  <2>2. LvapsQueued'
    BY Zenon, <2>1 DEF QueuesInv, LvapsQueued, Queued, Hosted
  <2>3. VapsQueued'
    BY Zenon, <2>1 DEF QueuesInv, VapsQueued, Queued
  <2> QED
    BY <1>1, <2>2, <2>3 DEF QueuesInv
<1>3. CASE DataNext
  <2>1. LvapsQueued'
    BY Zenon, <1>3, AddKeepsQueues, DelKeepsQueues, TimerKeepsQueues, OthersKeepQueues
       DEF DataNext
  <2> QED
    BY <1>1, <1>3, <2>1, StepKeepsVapQueues DEF QueuesInv
<1> QED
  BY <1>2, <1>3

\* Every copy the data path makes finds the default queue of its tenant,
\* unless the controller deleted the rule, or the LVAP strayed from the
\* interface whose rule its last add_lvap made, or it has no tenant.
THEOREM CopiesFindQueues == DataSpec => []CopiesQueued
<1>1. DataInit => QueuesInv
  <2> SUFFICES ASSUME DataInit PROVE QueuesInv
    OBVIOUS
  <2>1. IInv
    BY InitEstablishesInv DEF DataInit
  <2>2. LvapsQueued /\ VapsQueued
    BY ZenonT(30) DEF DataInit, Init, LvapsQueued, VapsQueued, Hosted
  <2> QED
    BY <2>1, <2>2 DEF QueuesInv
<1>2. QueuesInv => CopiesQueued
  <2> SUFFICES ASSUME QueuesInv, NEW dst \in Stas \cup {Group},
                      NEW dms \in Policies(dst), NEW c \in Copies(dst, dms)
               PROVE  c.ra \in strayed \/ Queued(c.iface, c.ssid)
    BY Zenon DEF CopiesQueued, Queued
  <2>1. PICK i \in tee_outputs(dst) : c \in eqm_push(i, dst, dms)
    BY DEF Copies
  <2>2. \/ \E s \in Served(i) : c = CopyFor(i, s, s)
        \/ \E b \in VapBssids : /\ vaps[b] # NoVap
                                /\ vaps[b].iface = i
                                /\ c = [iface |-> i, ra |-> Group, ta |-> b,
                                        ssid |-> vaps[b].ssid]
    BY Zenon, <2>1 DEF eqm_push, LegacyCopies
  <2>3. ASSUME NEW s \in Served(i), c = CopyFor(i, s, s)
        PROVE  c.ra \in strayed \/ Queued(c.iface, c.ssid)
    <3>1. s \in Hosted /\ lvaps[s].iface = i
      BY Zenon, <2>3 DEF Served
    <3>2. c.ra = s /\ c.iface = i /\ c.ssid = lvaps[s].ssid
      BY Zenon, <2>3 DEF CopyFor
    <3> QED
      BY Zenon, <3>1, <3>2 DEF QueuesInv, LvapsQueued
  <2>4. ASSUME NEW b \in VapBssids, vaps[b] # NoVap, vaps[b].iface = i,
               c.iface = i, c.ssid = vaps[b].ssid
        PROVE  Queued(c.iface, c.ssid)
    BY Zenon, <2>4 DEF QueuesInv, VapsQueued
  <2> QED
    BY <2>2, <2>3, <2>4
<1> QED
  BY <1>1, <1>2, StepKeepsQueues, PTL DEF DataSpec
=============================================================================

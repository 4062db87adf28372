------------------------ MODULE MCEmpowerLVAPManager ------------------------
(***************************************************************************)
(* Small instances of EmpowerLVAPManager for TLC.  Two interfaces, on      *)
(* channels 6 and 36, and two blocks of other WTPs, one of them on channel *)
(* 6 as well.  Addresses have three bits.                                  *)
(***************************************************************************)
EXTENDS EmpowerLVAPManager, TLC

CONSTANTS b1, b2, b3, b4, s1, s2

MCBits == {1, 2, 3}
MCBlocks == {b1, b2, b3, b4}
MCChannelOf == (b1 :> 6) @@ (b2 :> 36) @@ (b3 :> 11) @@ (b4 :> 6)
MCHwAddr == (b1 :> {}) @@ (b2 :> {3}) @@ (b3 :> {1, 3}) @@ (b4 :> {2, 3})
MCElement == (0 :> b1) @@ (1 :> b2)
MCVapBssids == {{1, 2}}

\* One station, every kind of message.
OneNet == s1 :> {1}

OneAdd ==
  {m \in AddLvapMsgs :
     /\ m.block \in {b1, b2, b3}
     /\ m.auth = m.assoc
     /\ m.auth <=> m.ssid # ""
     /\ m.two_ssids \/ (m.block = b1 /\ m.set_mask /\ ~m.auth)}

OneDel ==
  {[sta |-> s1, target |-> b, count |-> c] :
     b \in MCBlocks \cup {NoBlock}, c \in {0, 1}}

OneVap == {[bssid |-> {1, 2}, ssid |-> "B", block |-> b] : b \in {b2, b3}}

OneRule ==
  {[block |-> b, ssid |-> "B", dscp |-> 0] : b \in {b1, b3}}

OnePort == {[block |-> b, sta |-> s1] : b \in {b1, b3}}

\* One station that is added, steered and handed over, with longer countdowns.
LiveAdd ==
  {m \in AddLvapMsgs :
     /\ m.lvap_bssid = {1}
     /\ m.ssid = ""
     /\ m.block \in {b1, b2}
     /\ m.set_mask
     /\ m.two_ssids
     /\ ~m.auth /\ ~m.assoc}

LiveDel ==
  {[sta |-> s1, target |-> b, count |-> c] :
     b \in {b1, b2, b3, NoBlock}, c \in {0, 2}}

None == {}
=============================================================================

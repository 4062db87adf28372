-------------------------- MODULE MCEmpowerDataPath --------------------------
(***************************************************************************)
(* An instance of EmpowerDataPath for TLC: the interfaces and blocks of    *)
(* MCEmpowerLVAPManager and two stations that switch, are updated and      *)
(* leave side by side.  s2 shares the VAP of tenant B.  s1 has a BSSID and *)
(* the tenant A to itself, or shares that VAP too.                         *)
(***************************************************************************)
EXTENDS EmpowerDataPath, MCEmpowerLVAPManager

TwoNet == (s1 :> {1}) @@ (s2 :> {2})

TwoAdd ==
  {[sta |-> s, lvap_bssid |-> bssid, ssid |-> ssid, block |-> b,
    set_mask |-> TRUE, auth |-> ssid # "", assoc |-> ssid # "",
    two_ssids |-> TRUE] :
     <<s, bssid, ssid, b>> \in
       {<<s1, {1}, "A", b1>>, <<s1, {1, 2}, "B", b1>>, <<s2, {1, 2}, "B", b1>>}}

TwoDel ==
  {[sta |-> sb[1], target |-> sb[2], count |-> 0] :
     sb \in {<<s1, b2>>, <<s2, b3>>}}

TwoVap == {[bssid |-> {1, 2}, ssid |-> "B", block |-> b1]}

TwoRule == {[block |-> b1, ssid |-> "B", dscp |-> 0]}
=============================================================================

-------------------------- MODULE MCEmpowerRXStats --------------------------
(***************************************************************************)
(* Instances of EmpowerRXStats for TLC.                                    *)
(***************************************************************************)
EXTENDS EmpowerRXStats

CONSTANT sta

NoKeys == {}

FarFrames == {-80}

\* Conditions on an average that is 0 until a window was closed.
TwoConditions == {[eth |-> sta, rel |-> "GT", val |-> -70],
                  [eth |-> sta, rel |-> "LE", val |-> -70]}

TwoCaptures == {[iface |-> 0, eth |-> sta], [iface |-> 0, eth |-> Broadcast]}
=============================================================================

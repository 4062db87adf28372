------------------------ MODULE MCEmpowerQOSManager ------------------------
(***************************************************************************)
(* Instances of EmpowerQOSManager for TLC.                                 *)
(***************************************************************************)
EXTENDS EmpowerQOSManager

CONSTANTS tenant, f1, f2

OneTenant == {tenant}
TwoFlows == {f1, f2}
NoRules == {}
SpecialRule == {<<tenant, 1>>}
=============================================================================

----------------------- MODULE MCEmpowerMulticastTable -----------------------
(***************************************************************************)
(* Instances of EmpowerMulticastTable for TLC.                             *)
(***************************************************************************)
EXTENDS EmpowerMulticastTable, TLC

CONSTANTS s1, s2, g1, g2, g3

TwoStas == {s1, s2}
ThreeGroups == {g1, g2, g3}

\* Stations are interchangeable, and so are groups.
Symmetry == Permutations(Stas) \cup Permutations(Groups)
=============================================================================

-------------------------------- MODULE Lists --------------------------------
(***************************************************************************)
(* The operators on sequences that the proved modules need, with the names *)
(* and the meaning they have in the community module SequencesExt.  That   *)
(* module also extends Bags, and the proof system carries everything a     *)
(* module extends through every step of every proof: with SequencesExt the *)
(* longer proofs take ten times as long to check.                          *)
(***************************************************************************)
EXTENDS Integers, Sequences

\* e is at some place of s.
Contains(s, e) == \E i \in 1 .. Len(s) : s[i] = e

\* The least of a set of numbers.
Least(I) == CHOOSE i \in I : \A j \in I : i <= j

\* The first place of s that passes Test, 0 when none does.
SelectInSeq(s, Test(_)) ==
  LET places == {i \in 1 .. Len(s) : Test(s[i])}
  IN  IF places = {} THEN 0 ELSE Least(places)

\* s without its i-th element.
RemoveAt(s, i) ==
  [j \in 1 .. Len(s) - 1 |-> IF j < i THEN s[j] ELSE s[j + 1]]
=============================================================================

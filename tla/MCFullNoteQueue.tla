-------------------------- MODULE MCFullNoteQueue --------------------------
(***************************************************************************)
(* A queue of two packets: seven packets in bursts of three wrap its ring  *)
(* of three slots twice, overfill it and empty it.                         *)
(***************************************************************************)
EXTENDS FullNoteQueue

MCNoPacket == 0 - 1
=============================================================================

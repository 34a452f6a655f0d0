---------------------------- MODULE MCPacketRing ----------------------------
(***************************************************************************)
(* Instances of PacketRing for TLC: a ring of 32 bytes whose counters wrap  *)
(* at 64.  Records of 5 and 12 bytes take 12 and 16, so that write positions *)
(* leave every gap a record can leave; 12 bytes fill half the ring and 13    *)
(* are one too many.                                                         *)
(***************************************************************************)
EXTENDS PacketRing
=============================================================================

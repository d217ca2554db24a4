---------------------------- MODULE MCPacketLink ----------------------------
(***************************************************************************)
(* Lengths of packets for the model-checking runs of PacketLink, a search  *)
(* and its answer being the longest and STAT the one without data.         *)
(***************************************************************************)
EXTENDS PacketLink

MCSize == [t \in Types |-> CASE t = "STAT" -> 0
                             [] t = "SSLT re" -> 2
                             [] OTHER -> 1]
=============================================================================

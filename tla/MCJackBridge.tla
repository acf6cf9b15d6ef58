---------------------------- MODULE MCJackBridge ----------------------------
(* JackBridge for TLC: formats of two and three cells, packets of two frames   *)
(* in a ring of eight cells, so that a packet may find no room or go around    *)
(* the end of the ring, two slots of packet ring and a counter of range four,  *)
(* which wraps after the first packet.                                         *)
EXTENDS JackBridge
=============================================================================

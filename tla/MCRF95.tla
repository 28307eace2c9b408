------------------------------- MODULE MCRF95 -------------------------------
(* RF95 for TLC: this node, its neighbour and the broadcast address, or, as  *)
(* in the sketches, a node that never set its address, which is then the     *)
(* broadcast address; packets too short for the headers and good ones; one   *)
(* message too long for send().                                              *)
EXTENDS RF95

MCAddresses == {10, 11, 255}
MCSketchAddresses == {11, 255}
MCPacketLens == {3, 6}
MCSendLens == {4, 252}
=============================================================================

--------------------------- MODULE MCValveSystem ----------------------------
(* ValveSystem for TLC: the valve node, the water flow node, and the orders  *)
(* an operator has for them; a command's text is 84 characters long, so that *)
(* three of them make a message send() refuses and four overflow its length. *)
EXTENDS ValveSystem

MCDevices == {"10004", "10005"}
MCCommands == {[device |-> "10004", verb |-> "SHUT_OFF"],
               [device |-> "10004", verb |-> "OPEN"],
               [device |-> "10005", verb |-> "OPEN"]}
MCShutOff == {[device |-> "10004", verb |-> "SHUT_OFF"]}
=============================================================================

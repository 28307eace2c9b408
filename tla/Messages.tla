------------------------------ MODULE Messages ------------------------------
(***************************************************************************)
(* What travels between the cloud, the gateway and the nodes.              *)
(*                                                                         *)
(* A command is the text "<device>-<verb>" (iotSend.py, processMessage());  *)
(* it carries its place n in the order of publication, which no code reads. *)
(* A LoRa packet is a reading of the valve node, its startup message, a     *)
(* reading of another node, or what the gateway read from the serial port;  *)
(* of the last only the first command is kept, because receivers match a    *)
(* prefix, and whether it was cut off.  A reading carries a stamp that no   *)
(* code reads: the restarts and the commands applied before it was built.   *)
(***************************************************************************)
EXTENDS Integers, Sequences

CONSTANTS
  Devices,        \* device ids
  Valve,          \* the id of the node that drives the valve, "10004"
  CommandLen,     \* the length of a command's text
  MaxMessageLen,  \* RH_RF95_MAX_MESSAGE_LEN
  NoMessage       \* nothing received yet

ASSUME ValveAssumption == Valve \in Devices
ASSUME CommandLenAssumption == CommandLen \in 1 .. MaxMessageLen - 1
ASSUME MaxMessageLenAssumption == MaxMessageLen = 251

Verbs == {"SHUT_OFF", "OPEN"}
StatusAfter == [SHUT_OFF |-> "closed", OPEN |-> "open"]

Command == [n : Nat, device : Devices, verb : Verbs]

Stamp == [boot : Nat, applied : Nat]
Stamped(boot, applied) == [boot |-> boot, applied |-> applied]
NotAfter(s, t) == \/ s.boot < t.boot
                  \/ s.boot = t.boot /\ s.applied <= t.applied

CommandPacket == [kind : {"command"}, head : Command, cut : BOOLEAN]
Reading == [kind : {"reading", "startup"}, status : {"open", "closed"}, stamp : Stamp]
Other == [kind |-> "other"]
Packet == CommandPacket \cup Reading \cup {Other}

ASSUME NoMessageAssumption == NoMessage \notin Packet

\* listen.py posts what starts with '{'.
StartsWithBrace(packet) == packet.kind # "command"
=============================================================================

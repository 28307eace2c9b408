------------------------------ MODULE MCSensors ------------------------------
(* Sensors for TLC: a unit of time is half a second to five, as the node     *)
(* needs; the clock goes round after about four reports.                     *)
EXTENDS Sensors

=============================================================================

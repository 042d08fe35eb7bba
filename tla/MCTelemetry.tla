----------------------------- MODULE MCTelemetry -----------------------------
(* Small instances of Telemetry for TLC. *)
EXTENDS Telemetry

CONSTANTS device, gateway, user, fictional, m1, m2, m3, m4, m5,
          d1, twin, later

(* The batches of the device and of the gateway overlap; m2 has no         *)
(* externalEventId; m4 is a reading of a fictional device; m5, which the   *)
(* user imports too, is of a device registered later, if at all.           *)
OverlappingBatches ==
  [s \in Senders |->
     CASE s = device -> {m1, m2} [] s = gateway -> {m1, m3}
       [] s = user -> {m2, m3, m5}   [] s = fictional -> {m4}]

Owners ==
  [r \in Readings |-> CASE r = m4 -> twin [] r = m5 -> later [] OTHER -> d1]

(* One well-formed batch, every reading identified.                        *)
OneBatch == [s \in Senders |-> {m1}]
=============================================================================

----------------------------- MODULE MCMetrics -----------------------------
(* One device and one service: the device and service timers do not       *)
(* interact across owners, so one of each shows every interleaving of a   *)
(* device's notifications and of a service's state changes.               *)
EXTENDS Metrics

CONSTANTS i1, s1
=============================================================================

-------------------------- MODULE MCDeviceClaimer --------------------------
(* Two claimers and three interfaces: enough for both claimers to hold the *)
(* same interface and for one to be destroyed while holding several.       *)
EXTENDS DeviceClaimer

CONSTANTS c1, c2, d1, d2, d3
=============================================================================

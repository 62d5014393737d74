------------------------------ MODULE MCWiMax ------------------------------
(* Two services, so that a second attempt follows a first one that ended   *)
(* by timeout, Connect error or OnServiceStopped with its signals and      *)
(* replies still queued; one network path; two Connect replies in flight.  *)
EXTENDS WiMax

CONSTANTS s1, s2

MCServices == {s1, s2}
=============================================================================

------------------------- MODULE MCCDMAActivation -------------------------
(* ModemManager reports and callers for CellularCapabilityCDMA.            *)
EXTENDS CDMAActivation

CONSTANTS r1, r2
=============================================================================

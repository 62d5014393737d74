-------------------------------- MODULE MCWiFi --------------------------------
(* Two BSSes of two open networks (one service each), two service objects, *)
(* two network entries and two queued supplicant signals.                  *)
EXTENDS WiFi

CONSTANTS b1, b2

\* A well-formed BSSAdded property bag of an open infrastructure network.
OpenBag(ssid) ==
    [SSID |-> ssid, BSSID |-> <<"00", "11", "22", "33", "44", "55">>,
     Signal |-> -50, Mode |-> "infrastructure"]

MCBSSBags == [b \in {b1, b2} |-> IF b = b1 THEN {OpenBag("net0")}
                                 ELSE {OpenBag("net1")}]
=============================================================================

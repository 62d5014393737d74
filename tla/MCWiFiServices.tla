--------------------------- MODULE MCWiFiServices ---------------------------
(* Two BSS handles of one SSID whose security reports change between open, *)
(* RSN-PSK and WPA-PSK, and a hidden service of that SSID: enough for      *)
(* merging, regrouping on a security change, and a retained hidden         *)
(* favorite.                                                               *)
EXTENDS WiFiServices

CONSTANTS b1, b2

PSKList == [KeyMgmt |-> << <<"wpa", "psk">> >>]

\* A well-formed BSSAdded property bag for ssid with security sec.
BagOf(ssid, sec) ==
    [k \in {"SSID", "BSSID", "Signal", "Mode"}
           \cup (CASE sec = "rsn" -> {"RSN"} [] sec = "wpa" -> {"WPA"}
                   [] OTHER -> {}) |->
       CASE k = "SSID" -> ssid
         [] k = "BSSID" -> <<"00", "11", "22", "33", "44", "55">>
         [] k = "Signal" -> -50
         [] k = "Mode" -> "infrastructure"
         [] OTHER -> PSKList]

MCBSSBags == [b \in {b1, b2} |->
                IF b = b1 THEN {BagOf("net0", "none"), BagOf("net0", "rsn")}
                ELSE {BagOf("net0", "wpa"), BagOf("net1", "none")}]

\* Every key a BSS of MCBSSBags may report.
MCKeys == {"net0", "net1"} \X {"managed"} \X {"none", "psk"}

Directory == INSTANCE ServiceDirectory
    WITH epKey <- DirKeys, dir <- DirGroups, Keys <- MCKeys,
         HiddenKeys <- {<<h, "managed", "none">> : h \in HiddenSSIDs}

\* Refinement: the registry, with its numbered service objects, BSS
\* signals in any order and numbers of destroyed services reused,
\* implements the key-level directory.  Every BSSAdded, BSSRemoved,
\* hidden-service creation and MakeFavorite is a step of the directory
\* or leaves it unchanged, so endpoints are always grouped by key and a
\* group never vanishes or splits except as the directory allows.
ImplementsDirectory == Directory!Spec
=============================================================================

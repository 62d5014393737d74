--------------------------- MODULE MCWiFiEndpoint ---------------------------
EXTENDS WiFiEndpoint

\* Key-management method strings as dash-separated tokens.
PSK    == <<"wpa", "psk">>
FTPSK  == <<"wpa", "ft", "psk">>
EAP    == <<"wpa", "eap">>
PSK256 == <<"wpa", "psk", "sha256">>
SAE    == <<"sae">>

\* RSN / WPA dictionaries: no KeyMgmt entry, an empty list, or lists that
\* exercise each suffix rule.
SecDicts == {<< >>} \cup
            { [KeyMgmt |-> l] :
                l \in {<< >>, <<PSK>>, <<FTPSK>>, <<EAP>>, <<PSK256>>,
                       <<SAE>>, <<PSK, EAP>>} }

\* The bag that carries the keys in present, with the values of full.
Bag(full, present) == [k \in present |-> full[k]]

FullBSSID == <<"00", "01", "02", "03", "04", "05">>

\* Bags whose required fields are all present and well formed.
WellFormedBags ==
    UNION { { Bag([SSID |-> "ssid0", BSSID |-> FullBSSID, Signal |-> -40,
                   Mode |-> mode, RSN |-> rsn, WPA |-> wpa,
                   Privacy |-> privacy],
                  RequiredKeys \cup opt) :
                opt \in SUBSET {"RSN", "WPA", "Privacy"} } :
              mode \in {"infrastructure", "ad-hoc"},
              rsn \in SecDicts, wpa \in SecDicts, privacy \in BOOLEAN }

\* Bags as a misbehaving or newer supplicant may send them: a required
\* field missing, the access-point or an unknown mode, a short BSSID.
AnyBags ==
    { Bag([SSID |-> "ssid0", BSSID |-> bssid, Signal |-> -40, Mode |-> mode,
           Privacy |-> TRUE], present) :
        bssid \in {FullBSSID, <<"00">>},
        mode \in {"infrastructure", "ad-hoc", "ap", "mesh"},
        present \in { (RequiredKeys \cup {"Privacy"}) \ {k} :
                        k \in RequiredKeys \cup {"none"} } }
=============================================================================

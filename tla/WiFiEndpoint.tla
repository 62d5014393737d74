---------------------------- MODULE WiFiEndpoint ----------------------------
(***************************************************************************)
(* The WiFiEndpoint constructor of src/wifi_endpoint.cc: it turns the      *)
(* property bag of a wpa_supplicant BSSAdded signal into an endpoint       *)
(* (ssid, network mode, security mode, signal).                            *)
(*                                                                         *)
(* A property bag is a function whose domain is the set of keys present.   *)
(* A key-management method string such as "wpa-ft-psk" is a sequence of    *)
(* its dash-separated tokens <<"wpa","ft","psk">>, so that the code's      *)
(* case-sensitive EndsWith(s, "-psk") is "at least two tokens and the last *)
(* one is psk".  SSID and BSSID bytes are model strings; the hex and       *)
(* colon formatting of them (lines 43-48) is logging and left out, except  *)
(* that formatting reads bssid_[0..5], which is undefined on a short BSSID.*)
(***************************************************************************)
EXTENDS Integers, Sequences, FiniteSets

CONSTANTS
    Bags,       \* the property bags a BSSAdded signal may carry
    Crash,      \* outcome: the process dies inside the constructor
    NoEndpoint  \* no endpoint constructed yet

VARIABLES
    props,      \* the property bag being parsed
    endpoint    \* NoEndpoint, Crash, or the constructed endpoint

vars == <<props, endpoint>>

\* wpa_supplicant property names and values (wpa_supplicant.h).
RequiredKeys == {"SSID", "BSSID", "Signal", "Mode"}

\* flimflam security and mode strings.
Securities == {"802_1x", "rsn", "wpa", "wep", "none"}
Modes      == {"managed", "adhoc"}

\* ModeStringToUint: flimflam mode to wpa_supplicant's integer mode;
\* unsupported modes map to 0.
ModeStringToUint(m) ==
    CASE m = "managed" -> 0     \* kNetworkModeInfrastructureInt
      [] m = "adhoc"   -> 1     \* kNetworkModeAdHocInt
      [] OTHER         -> 0

\* Mutant: the supplicant's mode string stored untranslated.
ParseModeUntranslated(m) == m

\* ParseMode: wpa_supplicant's mode string to flimflam's; NULL for the
\* access-point mode and for anything unknown.
ParseMode(m) ==
    CASE m = "infrastructure" -> "managed"
      [] m = "ad-hoc"         -> "adhoc"
      [] OTHER                -> "NULL"

Range(s) == { s[i] : i \in DOMAIN s }

\* EndsWith(method, "-" \o tok, case_sensitive = true)
EndsWithToken(method, tok) == Len(method) >= 2 /\ method[Len(method)] = tok

\* ParseKeyManagementMethods: the set of key-management kinds named by the
\* "KeyMgmt" list of an RSN or WPA dictionary; no list, no kinds.
ParseKeyManagementMethods(sec) ==
    IF "KeyMgmt" \notin DOMAIN sec THEN {}
    ELSE { IF EndsWithToken(m, "eap") THEN "8021x" ELSE "psk" :
             m \in { m \in Range(sec["KeyMgmt"]) :
                       EndsWithToken(m, "eap") \/ EndsWithToken(m, "psk") } }

KeyMgmtOf(p, key) ==
    IF key \in DOMAIN p THEN ParseKeyManagementMethods(p[key]) ELSE {}

\* Mutant: WPA-PSK tested before RSN-PSK.
ParseSecurityWpaFirst(p) ==
    LET rsn == KeyMgmtOf(p, "RSN")
        wpa == KeyMgmtOf(p, "WPA")
        wep == "Privacy" \in DOMAIN p /\ p["Privacy"]
    IN  IF "8021x" \in rsn \/ "8021x" \in wpa THEN "802_1x"
        ELSE IF "psk" \in wpa THEN "wpa"
        ELSE IF "psk" \in rsn THEN "rsn"
        ELSE IF wep THEN "wep"
        ELSE "none"

\* ParseSecurity: 802.1x on either list wins, then RSN-PSK, then WPA-PSK,
\* then the Privacy bit means WEP, else open.
ParseSecurity(p) ==
    LET rsn == KeyMgmtOf(p, "RSN")
        wpa == KeyMgmtOf(p, "WPA")
        wep == "Privacy" \in DOMAIN p /\ p["Privacy"]
    IN  IF "8021x" \in rsn \/ "8021x" \in wpa THEN "802_1x"
        ELSE IF "psk" \in rsn THEN "rsn"
        ELSE IF "psk" \in wpa THEN "wpa"
        ELSE IF wep THEN "wep"
        ELSE "none"

\* The constructor.  properties.find(k)->second on an absent key
\* dereferences map::end(), and assigning ParseMode's NULL to the
\* std::string network_mode_ throws std::logic_error that nothing catches:
\* both end the process.  A BSSID shorter than six bytes makes the
\* formatting read past the vector: undefined, so the build may crash or
\* carry on.
WiFiEndpoint(p) ==
    IF ~(RequiredKeys \subseteq DOMAIN p) \/ ParseMode(p["Mode"]) = "NULL"
    THEN {Crash}
    ELSE LET e == [ssid     |-> p["SSID"],
                   mode     |-> ParseMode(p["Mode"]),
                   security |-> ParseSecurity(p),
                   signal   |-> p["Signal"]]
         IN  IF Len(p["BSSID"]) < 6 THEN {Crash, e} ELSE {e}

-----------------------------------------------------------------------------

Init ==
    /\ props \in Bags
    /\ endpoint = NoEndpoint

\* A BSSAdded signal carrying props reaches the constructor.
Construct ==
    /\ endpoint = NoEndpoint
    /\ endpoint' \in WiFiEndpoint(props)
    /\ UNCHANGED props

\* ~WiFiEndpoint: the endpoint is released; the next signal may carry any bag.
Destroy ==
    /\ endpoint \notin {NoEndpoint, Crash}
    /\ endpoint' = NoEndpoint
    /\ props' \in Bags

Next == Construct \/ Destroy

Spec == Init /\ [][Next]_vars

-----------------------------------------------------------------------------

TypeOK ==
    /\ props \in Bags
    /\ endpoint \in {NoEndpoint, Crash} \cup
         [ssid: STRING, mode: Modes, security: Securities, signal: Int]

\* Reference classification, stated as a ranking rather than the code's
\* if-chain: the security of a BSS is the strongest class it advertises,
\* 802.1x > RSN-PSK > WPA-PSK > WEP > open, where RSN and WPA advertise a
\* class through a KeyMgmt entry ending in -eap or -psk and Privacy
\* advertises WEP.
Rank == [s \in Securities |->
           CASE s = "802_1x" -> 4 [] s = "rsn" -> 3 [] s = "wpa" -> 2
             [] s = "wep" -> 1 [] s = "none" -> 0]

Advertised(p) ==
    LET Methods(key) == IF key \in DOMAIN p /\ "KeyMgmt" \in DOMAIN p[key]
                        THEN Range(p[key]["KeyMgmt"]) ELSE {}
        All == Methods("RSN") \cup Methods("WPA")
    IN  {"none"}
        \cup { "802_1x" : m \in { m \in All : EndsWithToken(m, "eap") } }
        \cup { "rsn" : m \in { m \in Methods("RSN") : EndsWithToken(m, "psk") } }
        \cup { "wpa" : m \in { m \in Methods("WPA") : EndsWithToken(m, "psk") } }
        \cup (IF "Privacy" \in DOMAIN p /\ p["Privacy"] THEN {"wep"} ELSE {})

Strongest(S) == CHOOSE s \in S : \A t \in S : Rank[t] <= Rank[s]

\* ParseSecurity (with ParseKeyManagementMethods) classifies every bag as
\* the strongest class the bag advertises.
SecurityIsStrongestAdvertised ==
    ParseSecurity(props) = Strongest(Advertised(props))

\* Spec 4.1: parsing a BSSAdded signal fails with MalformedEvent when a
\* required field is absent and never crashes the process.
NeverCrashes == endpoint # Crash
=============================================================================

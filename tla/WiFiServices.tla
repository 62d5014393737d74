---------------------------- MODULE WiFiServices ----------------------------
(***************************************************************************)
(* Endpoint registry and service directory of the WiFi device (spec 4.1,   *)
(* 4.2; the WiFi class of src/wifi.h keeps them in endpoint_by_rpcid_ and  *)
(* services_).  An endpoint (BSS) is known by its supplicant handle; a     *)
(* service (ESS) groups the endpoints that share its key.                  *)
(*                                                                         *)
(* wifi.cc is not part of src/: the actions follow the spec, and the unit  *)
(* tests of src/unnamed/part_005 where they pin what the spec leaves open: *)
(* FindService matches WPA, RSN and PSK as one security class              *)
(* (FindServiceWPA), so the grouping key uses that class.                  *)
(*                                                                         *)
(* A service is a reference-counted object: one destroyed and one later   *)
(* created with the same key are different objects.  A deregistered       *)
(* service stays in the function while a controller slot may hold it (the  *)
(* set held); the number of one nobody holds is reused, which is sound     *)
(* because nothing can reach that object any more.                         *)
(***************************************************************************)
EXTENDS Integers, Sequences, FiniteSets

CONSTANTS
    BSSes,        \* supplicant handles of BSSes
    BSSBags,      \* [BSSes -> SUBSET property bags]: what a handle may report
    HiddenSSIDs,  \* SSIDs the user may configure as hidden services
    MaxServices   \* bound on the number of service objects alive at once

VARIABLES
    endpoints,    \* endpoint_by_rpcid_: handle -> [ssid, mode, security]
    services      \* service number -> service record

regVars == <<endpoints, services>>

LOCAL EP == INSTANCE WiFiEndpoint
    WITH Bags <- {}, Crash <- "crash", NoEndpoint <- "none",
         props <- << >>, endpoint <- "none"

NoService == 0
ServiceIds == 1 .. MaxServices

\* Service::ConnectState.
ConnectStates == {"idle", "associating", "configuring", "connected",
                  "portal", "online", "failure"}
ConnectedStates == {"connected", "portal", "online"}
FailureReasons == {"none", "bad-credentials", "connect", "timeout"}

\* WiFiService security class: wpa, rsn and psk are one class.
SecurityClass(sec) == IF sec \in {"wpa", "rsn", "psk"} THEN "psk" ELSE sec

\* The endpoint a well-formed bag yields (WiFiEndpoint constructor).
EndpointOf(bag) ==
    LET e == CHOOSE x \in EP!WiFiEndpoint(bag) : TRUE
    IN  [ssid |-> e.ssid, mode |-> e.mode, security |-> e.security]

Registered == { id \in DOMAIN services : services[id].registered }

\* Mutant: lookup among visible (non-hidden) services only.
FindServiceVisible(ssid, mode, sec) ==
    LET match == { id \in Registered :
                     /\ ~services[id].hidden
                     /\ services[id].ssid = ssid
                     /\ services[id].mode = mode
                     /\ SecurityClass(services[id].security) = SecurityClass(sec) }
    IN  IF match = {} THEN NoService ELSE CHOOSE id \in match : TRUE

\* FindService(ssid, mode, security): the registered service of that key.
FindService(ssid, mode, sec) ==
    LET match == { id \in Registered :
                     /\ services[id].ssid = ssid
                     /\ services[id].mode = mode
                     /\ SecurityClass(services[id].security) = SecurityClass(sec) }
    IN  IF match = {} THEN NoService ELSE CHOOSE id \in match : TRUE

ServiceOfEndpoint(b) ==
    LET s == { id \in Registered : b \in services[id].members }
    IN  IF s = {} THEN NoService ELSE CHOOSE id \in s : TRUE

NewService(ssid, mode, sec, hidden, favorite, members) ==
    [ssid |-> ssid, mode |-> mode, security |-> sec, hidden |-> hidden,
     favorite |-> favorite, members |-> members, state |-> "idle",
     failure |-> "none", registered |-> TRUE]

\* Numbers of service objects that no longer exist.
\* held: the numbers a controller slot refers to.
FreeIds(held) == { id \in ServiceIds : id \notin Registered \cup held }
NewId(held) == CHOOSE id \in FreeIds(held) : \A j \in FreeIds(held) : id <= j

\* services with a new service object.
WithNewService(svcs, rec, held) ==
    [id \in DOMAIN svcs \cup {NewId(held)} |->
       IF id = NewId(held) THEN rec ELSE svcs[id]]

\* Remove endpoint b from service id; a service left without endpoints is
\* deregistered (LoneBSSRemoved, LoneBSSRemovedWhileConnected) unless it
\* is hidden (LoneBSSRemovedWhileConnectedToHidden keeps a hidden service
\* that was never made a favorite; spec 4.1 asks for hidden and favorite).
Detach(svcs, id, b) ==
    LET members == svcs[id].members \ {b}
        keep == members # {} \/ svcs[id].hidden
    IN  [svcs EXCEPT ![id].members = members, ![id].registered = keep]

\* Mutant: the FindService lookup is skipped and every attach creates a
\* service.
AttachAlwaysNew(svcs, b, e, held) ==
    WithNewService(svcs,
        NewService(e.ssid, e.mode, e.security, FALSE, FALSE, {b}), held)

\* Attach endpoint b with endpoint record e: merge into the registered
\* service of its key, or create a service seeded from it.
Attach(svcs, b, e, held) ==
    LET id == FindService(e.ssid, e.mode, e.security)
    IN  IF id # NoService
        THEN [svcs EXCEPT ![id].members = @ \cup {b}]
        ELSE WithNewService(svcs,
               NewService(e.ssid, e.mode, e.security, FALSE, FALSE, {b}), held)

\* Attaching b creates a service object.
AttachCreates(b, e) == FindService(e.ssid, e.mode, e.security) = NoService

-----------------------------------------------------------------------------
(* Operations.                                                             *)
-----------------------------------------------------------------------------

\* BSSAddedTask(b, bag): a new handle creates an endpoint and groups it; a
\* known handle refreshes security (SSID and mode are immutable) and is
\* regrouped when its key changed.  The step is split into the value of
\* each registry variable after it, so that the controller can compose it.
\* Mutant: the endpoint records the grouping class, not its security.
AddedEndpointClassed(b, bag) ==
    IF b \in DOMAIN endpoints
    THEN [endpoints[b] EXCEPT !.security = SecurityClass(EndpointOf(bag).security)]
    ELSE [EndpointOf(bag) EXCEPT !.security = SecurityClass(@)]

AddedEndpoint(b, bag) ==
    IF b \in DOMAIN endpoints
    THEN [endpoints[b] EXCEPT !.security = EndpointOf(bag).security]
    ELSE EndpointOf(bag)

\* Mutant: only a new handle is grouped; a security change is not.
RegroupsNewOnly(b, bag) == ServiceOfEndpoint(b) = NoService

Regroups(b, bag) ==
    LET old == ServiceOfEndpoint(b)
    IN  \/ old = NoService
        \/ SecurityClass(services[old].security)
             # SecurityClass(AddedEndpoint(b, bag).security)

AddCreates(b, bag) == Regroups(b, bag) /\ AttachCreates(b, AddedEndpoint(b, bag))

CanAdd(b, bag, held) == AddCreates(b, bag) => FreeIds(held) # {}

EndpointsAfterAdd(b, bag) ==
    [h \in DOMAIN endpoints \cup {b} |->
       IF h = b THEN AddedEndpoint(b, bag) ELSE endpoints[h]]

\* Mutant: regrouping attaches to the new service without detaching.
ServicesAfterAddNoDetach(b, bag, held) ==
    IF Regroups(b, bag) THEN Attach(services, b, AddedEndpoint(b, bag), held)
    ELSE services

ServicesAfterAdd(b, bag, held) ==
    LET old == ServiceOfEndpoint(b)
        svcs == IF old = NoService THEN services ELSE Detach(services, old, b)
    IN  IF Regroups(b, bag) THEN Attach(svcs, b, AddedEndpoint(b, bag), held)
        ELSE services

BSSAdded(b, bag) ==
    /\ CanAdd(b, bag, {})
    /\ endpoints' = EndpointsAfterAdd(b, bag)
    /\ services' = ServicesAfterAdd(b, bag, {})

\* BSSRemovedTask(b): an unknown handle is a no-op; otherwise the endpoint
\* is dropped and detached from its service.
ServicesAfterRemove(b) ==
    IF ServiceOfEndpoint(b) = NoService THEN services
    ELSE Detach(services, ServiceOfEndpoint(b), b)

\* Removing b leaves its service without endpoints.
RemoveEmpties(b) ==
    /\ ServiceOfEndpoint(b) # NoService
    /\ services[ServiceOfEndpoint(b)].members = {b}

BSSRemoved(b) ==
    /\ endpoints' = [h \in DOMAIN endpoints \ {b} |-> endpoints[h]]
    /\ services' = ServicesAfterRemove(b)

\* GetService with the hidden flag: a dormant hidden service for an SSID
\* no registered service has yet.
CreateHiddenService(ssid, favorite, held) ==
    /\ FindService(ssid, "managed", "none") = NoService
    /\ FreeIds(held) # {}
    /\ services' = WithNewService(services,
                     NewService(ssid, "managed", "none", TRUE, favorite, {}), held)
    /\ UNCHANGED endpoints

\* Service::MakeFavorite, by the policy layer.
MakeFavorite(id) ==
    /\ id \in Registered
    /\ ~services[id].favorite
    /\ services' = [services EXCEPT ![id].favorite = TRUE]
    /\ UNCHANGED endpoints

-----------------------------------------------------------------------------
(* The registry on its own: supplicant BSS signals in any order.           *)
-----------------------------------------------------------------------------

RegInit ==
    /\ endpoints = << >>
    /\ services = << >>

RegNext ==
    \/ \E b \in BSSes : \E bag \in BSSBags[b] : BSSAdded(b, bag)
    \/ \E b \in BSSes : BSSRemoved(b)
    \/ \E ssid \in HiddenSSIDs, fav \in BOOLEAN : CreateHiddenService(ssid, fav, {})
    \/ \E id \in ServiceIds : MakeFavorite(id)

RegSpec == RegInit /\ [][RegNext]_regVars

-----------------------------------------------------------------------------

ServiceRecords ==
    [ssid: STRING, mode: EP!Modes, security: EP!Securities \cup {"psk"},
     hidden: BOOLEAN, favorite: BOOLEAN, members: SUBSET BSSes,
     state: ConnectStates, failure: FailureReasons, registered: BOOLEAN]

(* The directory the registry stands for (ServiceDirectory): the key of  *)
(* every endpoint, and for each key with a registered service the        *)
(* members and flags of that service.                                     *)
KeyOf(r) == <<r.ssid, r.mode, SecurityClass(r.security)>>

DirKeys == [b \in DOMAIN endpoints |-> KeyOf(endpoints[b])]

DirGroups ==
    [k \in { KeyOf(services[id]) : id \in Registered } |->
       LET id == CHOOSE i \in Registered : KeyOf(services[i]) = k
       IN  [members |-> services[id].members, hidden |-> services[id].hidden,
            favorite |-> services[id].favorite]]

RegTypeOK ==
    /\ DOMAIN endpoints \subseteq BSSes
    /\ \A b \in DOMAIN endpoints :
         endpoints[b] \in [ssid: STRING, mode: EP!Modes, security: EP!Securities]
    /\ DOMAIN services \subseteq ServiceIds
    /\ \A id \in DOMAIN services : services[id] \in ServiceRecords

\* Spec 3 and 8: every known endpoint is a member of exactly one registered
\* service, and registered services have only known endpoints as members.
EndpointInOneService ==
    /\ \A b \in DOMAIN endpoints :
         Cardinality({ id \in Registered : b \in services[id].members }) = 1
    /\ \A id \in Registered : services[id].members \subseteq DOMAIN endpoints

\* Spec 4.1 grouping: every member of a registered service carries the
\* service's SSID, mode and security class, and no two registered services
\* share a key, so endpoints of one key are never split.
GroupingByKey ==
    /\ \A id \in Registered : \A b \in services[id].members :
         /\ endpoints[b].ssid = services[id].ssid
         /\ endpoints[b].mode = services[id].mode
         /\ SecurityClass(endpoints[b].security)
              = SecurityClass(services[id].security)
    /\ \A i, j \in Registered :
         /\ services[i].ssid = services[j].ssid
         /\ services[i].mode = services[j].mode
         /\ SecurityClass(services[i].security)
              = SecurityClass(services[j].security)
         => i = j
=============================================================================

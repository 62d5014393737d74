-------------------------------- MODULE WiFi --------------------------------
(***************************************************************************)
(* The connection controller of the WiFi device (spec 4.3-4.5; the WiFi   *)
(* class of src/wifi.h) composed with the endpoint registry and service    *)
(* directory (WiFiServices) and with an environment model of               *)
(* wpa_supplicant.                                                         *)
(*                                                                         *)
(* Supplicant method calls (AddNetwork, SelectNetwork, Disconnect,         *)
(* RemoveNetwork, Scan) are synchronous D-Bus calls made inside a          *)
(* dispatcher task, as the unit tests of src/unnamed/part_005 show; the    *)
(* supplicant's signals (BSSAdded, BSSRemoved, PropertiesChanged with      *)
(* CurrentBSS or State, ScanDone) reach the controller through the         *)
(* dispatcher's FIFO queue `events`, one task each.                        *)
(*                                                                         *)
(* wifi.cc is not part of src/: the handlers follow the spec, and the unit *)
(* tests where the spec is silent or contradicts them.                     *)
(***************************************************************************)
EXTENDS Integers, Sequences, FiniteSets, Functions

CONSTANTS
    BSSes, BSSBags, HiddenSSIDs, MaxServices,   \* see WiFiServices
    HiddenBSSes,     \* BSSes that do not broadcast their SSID
    ReportedStates,  \* station states the supplicant reports in this model
    MaxHandles,      \* bound on network entries existing at once
    MaxEvents,       \* bound on queued signals the supplicant adds on its own
    NoBSS            \* CurrentBSS = "/" (kCurrentBSSNull)

VARIABLES
    endpoints, services,  \* registry, see WiFiServices
    current,         \* current_service_ (NoService when empty)
    pending,         \* pending_service_
    networks,        \* rpcid_by_service_: service -> network handle
    supplicantState, \* supplicant_state_
    hasCompleted,    \* has_already_completed_
    pendingTimer,    \* pending_timeout_callback_ armed
    reconnectTimer,  \* reconnect_timeout_callback_ armed
    scanPending,     \* scan_pending_
    suppNets,        \* supplicant network entries: handle -> key
    suppSelected,    \* supplicant's selected network handle
    suppBSS,         \* supplicant's CurrentBSS
    suppVisible,     \* BSSes in range: handle -> property bag
    suppScanning,    \* a scan is running in the supplicant
    probes,          \* SSIDs probed by the running scan
    events           \* signals queued for the dispatcher

regVars  == <<endpoints, services>>
ctlVars  == <<current, pending, networks, supplicantState, hasCompleted,
              pendingTimer, reconnectTimer, scanPending>>
suppVars == <<suppNets, suppSelected, suppBSS, suppVisible, suppScanning,
              probes, events>>
vars == <<regVars, ctlVars, suppVars>>

R == INSTANCE WiFiServices

NoService == R!NoService

\* Service objects the controller slots keep alive.
Held == {current, pending} \ {NoService}
NoHandle == 0
Handles == 1 .. MaxHandles

StationStates == {"disconnected", "inactive", "scanning", "authenticating",
                  "associating", "associated", "4way_handshake",
                  "group_handshake", "completed"}

\* Order of the station states, for "forward" reports.
StationRank(st) ==
    CASE st \in {"disconnected", "inactive", "scanning"} -> 0
      [] st = "authenticating" -> 1  [] st = "associating" -> 2
      [] st = "associated" -> 3      [] st = "4way_handshake" -> 4
      [] st = "group_handshake" -> 5 [] st = "completed" -> 6
      [] OTHER -> -1                 \* kInterfaceStateUnknown

\* Progress order of Service::ConnectState.
ServiceRank(st) ==
    CASE st \in {"idle", "failure"} -> 0 [] st = "associating" -> 1
      [] st = "configuring" -> 2 [] st = "online" -> 4 [] OTHER -> 3

\* The service state a station state advances a service to, if any.
StationTarget(st) ==
    CASE st = "completed" -> "configuring"
      [] StationRank(st) \in 1 .. 5 -> "associating"
      [] OTHER -> "none"

\* Signals.
Ev(kind, b, bag, st) == [kind |-> kind, bss |-> b, bag |-> bag, st |-> st]
CurrentBSSEv(b) == Ev("CurrentBSS", b, << >>, "none")

\* The key a network entry is provisioned with, and whether a BSS matches.
KeyOf(id) == [ssid |-> services[id].ssid, mode |-> services[id].mode,
              security |-> R!SecurityClass(services[id].security)]
Matches(key, bag) ==
    LET e == R!EndpointOf(bag)
    IN  key = [ssid |-> e.ssid, mode |-> e.mode,
               security |-> R!SecurityClass(e.security)]

HandlesOf(ids) == { networks[id] : id \in ids \cap DOMAIN networks }

\* AddNetwork's new entry: the least handle not in use once the entries in
\* removed are gone (a removed handle is unreachable, so reusing it is
\* sound).
FreeHandles(removed) == Handles \ (DOMAIN suppNets \ removed)
\* Mutant: the new entry is numbered by the count of entries.
NewHandleCounted(removed) == Cardinality(DOMAIN suppNets) + 1

NewHandle(removed) ==
    CHOOSE h \in FreeHandles(removed) : \A k \in FreeHandles(removed) : h <= k

SetState(svcs, id, st) ==
    IF id = NoService THEN svcs ELSE [svcs EXCEPT ![id].state = st]

\* The supplicant's side of a task's calls: Disconnect (disc), RemoveNetwork
\* of the handles in removed, then SelectNetwork(sel) unless sel = NoHandle.
\* Disconnect, or removing the selected entry, drops the association and
\* the supplicant signals CurrentBSS "/" after the signals in queue q.
SuppCommands(q, disc, removed, sel) ==
    LET drop == suppBSS # NoBSS /\ (disc \/ suppSelected \in removed)
    IN  /\ suppSelected' = IF sel # NoHandle THEN sel
                           ELSE IF disc \/ suppSelected \in removed
                                THEN NoHandle ELSE suppSelected
        /\ suppBSS' = IF drop THEN NoBSS ELSE suppBSS
        /\ events' = IF drop THEN Append(q, CurrentBSSEv(NoBSS)) ELSE q

\* Mutant: the controller forgets its entries but never calls RemoveNetwork.
ReleaseNetworksLocal(ids) ==
    /\ networks' = Restrict(networks, DOMAIN networks \ ids)
    /\ UNCHANGED suppNets

\* RemoveNetwork for the entries of the services in ids.
ReleaseNetworks(ids) ==
    /\ networks' = Restrict(networks, DOMAIN networks \ ids)
    /\ suppNets' = Restrict(suppNets, DOMAIN suppNets \ HandlesOf(ids))

\* Mutant: the timer is not started.
SetPendingServiceNoStart(s) ==
    /\ pending' = s
    /\ pendingTimer' = FALSE

\* SetPendingService(s): the pending timer runs exactly while a service is
\* pending (StartPendingTimer / StopPendingTimer).
SetPendingService(s) ==
    /\ pending' = s
    /\ pendingTimer' = (s # NoService)

-----------------------------------------------------------------------------
(* Controller operations.                                                  *)
-----------------------------------------------------------------------------

\* DisconnectFrom(s), with svcs the services value the task has reached and
\* q the signal queue.  Pending: Disconnect, release its entry, clear the
\* slot and return it to pendingState at once.  Current with no pending:
\* Disconnect and wait for CurrentBSS; when the supplicant is not
\* associated the call fails with NotConnected and the controller removes
\* the entry and clears current itself.  Current with a pending service:
\* ignored (DisconnectCurrentServiceWithPending).  Otherwise a no-op.
Disconnect(s, svcs, q, pendingState) ==
    \/ /\ s = pending /\ s # NoService
       /\ services' = SetState(svcs, s, pendingState)
       /\ SetPendingService(NoService)
       /\ ReleaseNetworks({s})
       /\ SuppCommands(q, TRUE, HandlesOf({s}), NoHandle)
       /\ UNCHANGED <<current, supplicantState, hasCompleted, scanPending, suppVisible, suppScanning, probes>>
    \/ /\ s = current /\ s # NoService /\ pending = NoService
       /\ services' = svcs
       /\ IF suppBSS # NoBSS
          THEN /\ SuppCommands(q, TRUE, {}, NoHandle)
               /\ UNCHANGED <<current, networks, suppNets>>
          ELSE /\ current' = NoService
               /\ ReleaseNetworks({s})
               /\ SuppCommands(q, FALSE, HandlesOf({s}), NoHandle)
       /\ UNCHANGED <<pending, supplicantState, hasCompleted, pendingTimer,
                      scanPending, suppVisible, suppScanning,
                      probes>>
    \/ /\ s \notin {current, pending} \/ s = NoService
          \/ (s = current /\ pending # NoService)
       /\ services' = svcs
       /\ events' = q
       /\ UNCHANGED <<current, pending, networks, supplicantState, hasCompleted,
                      pendingTimer, scanPending, suppNets, suppSelected, suppBSS,
                      suppVisible, suppScanning, probes>>

DisconnectFrom(s) ==
    /\ s \in {current, pending} \ {NoService}
    /\ Disconnect(s, services, events, "idle")
    /\ UNCHANGED <<endpoints, reconnectTimer>>

\* ConnectTo(s): abandon a different pending service (Disconnect, entry
\* removed, back to idle), AddNetwork, SelectNetwork, SetPendingService.
\* Either call may fail; the attempt then ends in Failure with no entry
\* left behind and no pending service.
ConnectTo(s, outcome) ==
    LET abandoned == IF pending \notin {NoService, s} THEN {pending} ELSE {}
        dropped == abandoned \cup {s}
        added == outcome # "add-fails"
        ok == outcome = "ok"
        h == NewHandle(HandlesOf(dropped))
        svcs == SetState(services, pending, "idle")
    IN  /\ s \in R!Registered
        /\ s # current
        /\ added => FreeHandles(HandlesOf(dropped)) # {}
        /\ networks' = IF ok
                       THEN [x \in (DOMAIN networks \ dropped) \cup {s} |->
                               IF x = s THEN h ELSE networks[x]]
                       ELSE Restrict(networks, DOMAIN networks \ dropped)
        /\ suppNets' = IF ok
                       THEN [x \in (DOMAIN suppNets \ HandlesOf(dropped)) \cup {h} |->
                               IF x = h THEN KeyOf(s) ELSE suppNets[x]]
                       ELSE Restrict(suppNets, DOMAIN suppNets \ HandlesOf(dropped))
        /\ SuppCommands(events, abandoned # {} \/ current # NoService,
                        HandlesOf(dropped), IF ok THEN h ELSE NoHandle)
        /\ SetPendingService(IF ok THEN s ELSE NoService)
        /\ hasCompleted' = IF ok THEN FALSE ELSE hasCompleted
        /\ services' = IF ok
                       THEN [svcs EXCEPT ![s].state = "associating",
                                         ![s].failure = "none"]
                       ELSE [svcs EXCEPT ![s].state = "failure",
                                         ![s].failure = "connect"]
        /\ UNCHANGED <<endpoints, current, supplicantState,
                       reconnectTimer, scanPending, suppVisible, suppScanning,
                       probes>>
-----------------------------------------------------------------------------
(* Signal handlers: each dispatches the head of the queue.                 *)
-----------------------------------------------------------------------------

Head1 == Head(events)

\* CurrentBSSChanged("/"): the current service (if any) fails when it was
\* never fully connected, else goes idle; its entry is released, the
\* reconnect timer stopped and current cleared.  The failure reason is
\* bad-credentials when the credential heuristic (spec 4.5) suspects it.
HandleDisconnect ==
    LET s == current
        st == IF services[s].state \in R!ConnectedStates THEN "idle"
              ELSE "failure"
        suspect == services[s].failure = "bad-credentials"
                   \/ (~hasCompleted /\ supplicantState = "4way_handshake")
    IN  /\ s # NoService
        /\ services' = [services EXCEPT ![s].state = st,
                          ![s].failure = IF st = "idle" THEN @
                                         ELSE IF suspect THEN "bad-credentials"
                                         ELSE "connect"]
        /\ current' = NoService
        /\ reconnectTimer' = FALSE
        /\ ReleaseNetworks({s})
        /\ SuppCommands(Tail(events), FALSE, HandlesOf({s}), NoHandle)
        /\ UNCHANGED <<pending, supplicantState, hasCompleted, pendingTimer,
                       scanPending>>

\* Mutant: the promoted service is left in the pending slot.
HandleRoamKeepPending(b) ==
    LET s == R!ServiceOfEndpoint(b)
        svcs == SetState(services, current, "idle")
    IN  /\ s \notin {NoService, current}
        /\ services' = [svcs EXCEPT ![s].state = "configuring"]
        /\ current' = s
        /\ UNCHANGED <<pending, pendingTimer>>
        /\ ReleaseNetworks({current} \ {NoService})
        /\ SuppCommands(Tail(events), FALSE, HandlesOf({current}), NoHandle)
        /\ UNCHANGED <<supplicantState, hasCompleted, reconnectTimer,
                       scanPending>>

\* CurrentBSSChanged(b) naming a service other than current: the previous
\* current goes idle and its entry is released; the new one becomes
\* current, leaves the pending slot if it held it, and is Configuring.
HandleRoam(b) ==
    LET s == R!ServiceOfEndpoint(b)
        svcs == SetState(services, current, "idle")
    IN  /\ s \notin {NoService, current}
        /\ services' = [svcs EXCEPT ![s].state = "configuring"]
        /\ current' = s
        /\ IF pending = s THEN SetPendingService(NoService)
           ELSE UNCHANGED <<pending, pendingTimer>>
        /\ ReleaseNetworks({current} \ {NoService})
        /\ SuppCommands(Tail(events), FALSE, HandlesOf({current}), NoHandle)
        /\ UNCHANGED <<supplicantState, hasCompleted, reconnectTimer,
                       scanPending>>

\* A CurrentBSS signal that changes nothing: "/" with no current service,
\* a BSS of the current service, or a BSS with no endpoint.
CurrentBSSIgnored(b) ==
    /\ \/ b = NoBSS /\ current = NoService
       \/ b # NoBSS /\ R!ServiceOfEndpoint(b) \in {NoService, current}
    /\ events' = Tail(events)
    /\ UNCHANGED <<regVars, ctlVars, suppNets, suppSelected, suppBSS>>

CurrentBSSChanged ==
    /\ events # << >> /\ Head1.kind = "CurrentBSS"
    /\ \/ Head1.bss = NoBSS /\ HandleDisconnect
       \/ Head1.bss # NoBSS /\ HandleRoam(Head1.bss)
       \/ CurrentBSSIgnored(Head1.bss)
    /\ UNCHANGED <<endpoints, suppVisible, suppScanning, probes>>

\* A report of st after old is forward and moves a service in state cur
\* forward.
Advances(cur, st, old) ==
    /\ StationRank(st) > StationRank(old)
    /\ StationTarget(st) # "none"
    /\ ServiceRank(StationTarget(st)) > ServiceRank(cur)

\* StateChanged(st): bookkeeping always; a forward report advances the
\* affected service (current, else pending) but never moves it back; a
\* report of disconnected straight after the 4-way handshake of an attempt
\* that never completed records bad credentials.  Completion stops the
\* reconnect timer; leaving completed while connected starts it.
StateChanged ==
    LET st == Head1.st
        old == supplicantState
        s == IF current # NoService THEN current ELSE pending
        target == StationTarget(st)
        advance == s # NoService /\ Advances(services[s].state, st, old)
        suspect == /\ s # NoService /\ st = "disconnected"
                   /\ old = "4way_handshake" /\ ~hasCompleted
    IN  /\ events # << >> /\ Head1.kind = "State"
        /\ supplicantState' = st
        /\ services' =
             IF advance THEN [services EXCEPT ![s].state = target]
             ELSE IF suspect THEN [services EXCEPT ![s].failure = "bad-credentials"]
             ELSE services
        /\ hasCompleted' = (hasCompleted \/ st = "completed")
        /\ reconnectTimer' =
             CASE st = "completed" -> FALSE
               [] old = "completed" /\ current # NoService -> TRUE
               [] OTHER -> reconnectTimer
        /\ events' = Tail(events)
        /\ UNCHANGED <<endpoints, current, pending, networks,
                       pendingTimer, scanPending, suppNets, suppSelected,
                       suppBSS, suppVisible, suppScanning, probes>>

\* BSSAdded: delegated to the registry.
BSSAddedSignal ==
    /\ events # << >> /\ Head1.kind = "BSSAdded"
    /\ R!CanAdd(Head1.bss, Head1.bag, Held)
    /\ endpoints' = R!EndpointsAfterAdd(Head1.bss, Head1.bag)
    /\ services' = R!ServicesAfterAdd(Head1.bss, Head1.bag, Held)
    /\ events' = Tail(events)
    /\ UNCHANGED <<ctlVars, suppNets, suppSelected, suppBSS, suppVisible,
                   suppScanning, probes>>

\* BSSRemoved: delegated to the registry; emptying the current or pending
\* service is an implicit DisconnectFrom.
BSSRemovedSignal ==
    LET b == Head1.bss
        s == R!ServiceOfEndpoint(b)
    IN  /\ events # << >> /\ Head1.kind = "BSSRemoved"
        /\ endpoints' = Restrict(endpoints, DOMAIN endpoints \ {b})
        /\ UNCHANGED reconnectTimer
        /\ IF R!RemoveEmpties(b) /\ s \in {current, pending}
           THEN Disconnect(s, R!ServicesAfterRemove(b), Tail(events), "idle")
           ELSE Disconnect(NoService, R!ServicesAfterRemove(b), Tail(events),
                           "idle")

\* ScanDone: a new scan may be requested.
ScanDone ==
    /\ events # << >> /\ Head1.kind = "ScanDone"
    /\ scanPending' = FALSE
    /\ events' = Tail(events)
    /\ UNCHANGED <<regVars, current, pending, networks, supplicantState,
                   hasCompleted, pendingTimer, reconnectTimer, suppNets,
                   suppSelected, suppBSS, suppVisible, suppScanning, probes>>
-----------------------------------------------------------------------------
(* Timers and other controller tasks.                                      *)
-----------------------------------------------------------------------------

\* PendingTimeoutHandler: the pending service is disconnected with failure.
PendingTimeout ==
    /\ pendingTimer
    /\ Disconnect(pending, [services EXCEPT ![pending].failure =
                              IF @ = "bad-credentials" THEN @ ELSE "timeout"],
                  events, "failure")
    /\ UNCHANGED <<endpoints, reconnectTimer>>

\* ReconnectTimeoutHandler: disconnect the current service that did not
\* get back to completed on its own.
ReconnectTimeout ==
    /\ reconnectTimer
    /\ reconnectTimer' = FALSE
    /\ Disconnect(current, services, events, "idle")
    /\ UNCHANGED endpoints

\* Hidden and favorite registered services: their SSIDs are probed.
HiddenFavoriteSSIDs ==
    { services[id].ssid : id \in { id \in R!Registered :
                                      services[id].hidden /\ services[id].favorite } }

\* ScanTimerHandler (when idle) and Scan: ask the supplicant to scan,
\* probing every hidden favorite SSID plus the broadcast entry.
ScanTask ==
    /\ ~scanPending
    /\ scanPending' = TRUE
    /\ suppScanning' = TRUE
    /\ probes' = HiddenFavoriteSSIDs
    /\ UNCHANGED <<regVars, current, pending, networks, supplicantState,
                   hasCompleted, pendingTimer, reconnectTimer, suppNets,
                   suppSelected, suppBSS, suppVisible, events>>

ScanTimerHandler == current = NoService /\ pending = NoService /\ ScanTask

\* OnConnected: DHCP completed for the current service.
OnConnected ==
    /\ current # NoService
    /\ services[current].state = "configuring"
    /\ services' = [services EXCEPT ![current].state = "connected"]
    /\ UNCHANGED <<endpoints, ctlVars, suppVars>>

-----------------------------------------------------------------------------
(* wpa_supplicant, as the environment.                                     *)
-----------------------------------------------------------------------------

Room == Len(events) < MaxEvents

\* A BSS comes into range, or reports new properties; a hidden one is found
\* only by a scan probing its SSID.
SuppBSSAdded(b, bag) ==
    /\ Room
    /\ ~(b \in DOMAIN suppVisible /\ suppVisible[b] = bag)
    /\ b \in HiddenBSSes => suppScanning /\ R!EndpointOf(bag).ssid \in probes
    /\ suppVisible' = [x \in DOMAIN suppVisible \cup {b} |->
                          IF x = b THEN bag ELSE suppVisible[x]]
    /\ events' = Append(events, Ev("BSSAdded", b, bag, "none"))
    /\ UNCHANGED <<regVars, ctlVars, suppNets, suppSelected, suppBSS,
                   suppScanning, probes>>

\* A BSS goes out of range; an association with it is lost first.
SuppBSSRemoved(b) ==
    /\ Room
    /\ b \in DOMAIN suppVisible
    /\ suppVisible' = Restrict(suppVisible, DOMAIN suppVisible \ {b})
    /\ suppBSS' = IF suppBSS = b THEN NoBSS ELSE suppBSS
    /\ events' = events \o (IF suppBSS = b THEN << CurrentBSSEv(NoBSS) >>
                             ELSE << >>)
                        \o << Ev("BSSRemoved", b, << >>, "none") >>
    /\ UNCHANGED <<regVars, ctlVars, suppNets, suppSelected, suppScanning,
                   probes>>

\* The supplicant associates the selected network with a matching BSS.
SuppAssociate(b) ==
    /\ Room
    /\ suppSelected \in DOMAIN suppNets
    /\ b \in DOMAIN suppVisible
    /\ Matches(suppNets[suppSelected], suppVisible[b])
    /\ suppBSS # b
    /\ suppBSS' = b
    /\ events' = Append(events, CurrentBSSEv(b))
    /\ UNCHANGED <<regVars, ctlVars, suppNets, suppSelected, suppVisible,
                   suppScanning, probes>>

\* The association is lost (deauthentication, beacon loss).
SuppDisassociate ==
    /\ Room
    /\ suppBSS # NoBSS
    /\ suppBSS' = NoBSS
    /\ events' = Append(events, CurrentBSSEv(NoBSS))
    /\ UNCHANGED <<regVars, ctlVars, suppNets, suppSelected, suppVisible,
                   suppScanning, probes>>

\* A (possibly coalesced) station state report; completed only while
\* associated, disconnected only while not.
SuppStateReport(st) ==
    /\ Room
    /\ st = "completed" => suppBSS # NoBSS
    /\ st = "disconnected" => suppBSS = NoBSS
    /\ events' = Append(events, Ev("State", NoBSS, << >>, st))
    /\ UNCHANGED <<regVars, ctlVars, suppNets, suppSelected, suppBSS,
                   suppVisible, suppScanning, probes>>

SuppScanDone ==
    /\ Room
    /\ suppScanning
    /\ suppScanning' = FALSE
    /\ probes' = {}
    /\ events' = Append(events, Ev("ScanDone", NoBSS, << >>, "none"))
    /\ UNCHANGED <<regVars, ctlVars, suppNets, suppSelected, suppBSS,
                   suppVisible>>

-----------------------------------------------------------------------------

\* Start(): services loaded from the profile, supplicant state unknown.
Init ==
    /\ R!RegInit
    /\ current = NoService /\ pending = NoService
    /\ networks = << >>
    /\ supplicantState = "unknown"
    /\ hasCompleted = FALSE
    /\ pendingTimer = FALSE /\ reconnectTimer = FALSE
    /\ scanPending = FALSE
    /\ suppNets = << >> /\ suppSelected = NoHandle /\ suppBSS = NoBSS
    /\ suppVisible = << >> /\ suppScanning = FALSE /\ probes = {}
    /\ events = << >>

Policy ==
    \/ \E s \in R!ServiceIds, o \in {"ok", "add-fails", "select-fails"} :
          ConnectTo(s, o)
    \/ \E s \in R!ServiceIds : DisconnectFrom(s)
    \/ \E ssid \in HiddenSSIDs, fav \in BOOLEAN :
          /\ R!CreateHiddenService(ssid, fav, Held)
          /\ UNCHANGED <<ctlVars, suppVars>>
    \/ \E s \in R!ServiceIds : R!MakeFavorite(s) /\ UNCHANGED <<ctlVars, suppVars>>
    \/ ScanTask

Dispatch == CurrentBSSChanged \/ StateChanged \/ BSSAddedSignal
            \/ BSSRemovedSignal \/ ScanDone

Timers == PendingTimeout \/ ReconnectTimeout \/ ScanTimerHandler \/ OnConnected

Supplicant ==
    \/ \E b \in BSSes : \E bag \in BSSBags[b] : SuppBSSAdded(b, bag)
    \/ \E b \in BSSes : SuppBSSRemoved(b) \/ SuppAssociate(b)
    \/ SuppDisassociate
    \/ \E st \in ReportedStates : SuppStateReport(st)
    \/ SuppScanDone

Next == Policy \/ Dispatch \/ Timers \/ Supplicant

\* The dispatcher runs every queued task and every expired timer; policy
\* requests and the supplicant's radio events carry no fairness.
Fairness ==
    /\ WF_vars(Dispatch)
    /\ WF_vars(PendingTimeout)
    /\ WF_vars(ReconnectTimeout)

Spec == Init /\ [][Next]_vars /\ Fairness
-----------------------------------------------------------------------------

EventRecords ==
    [kind: {"BSSAdded", "BSSRemoved", "CurrentBSS", "State", "ScanDone"},
     bss: BSSes \cup {NoBSS}, bag: UNION {BSSBags[b] : b \in BSSes} \cup {<< >>},
     st: StationStates \cup {"none"}]

TypeOK ==
    /\ R!RegTypeOK
    /\ current \in R!ServiceIds \cup {NoService}
    /\ pending \in R!ServiceIds \cup {NoService}
    /\ DOMAIN networks \subseteq R!ServiceIds /\ Range(networks) \subseteq Handles
    /\ supplicantState \in StationStates \cup {"unknown"}
    /\ hasCompleted \in BOOLEAN /\ pendingTimer \in BOOLEAN
    /\ reconnectTimer \in BOOLEAN /\ scanPending \in BOOLEAN
    /\ DOMAIN suppNets \subseteq Handles
    /\ suppSelected \in Handles \cup {NoHandle}
    /\ suppBSS \in BSSes \cup {NoBSS}
    /\ DOMAIN suppVisible \subseteq BSSes
    /\ suppScanning \in BOOLEAN /\ probes \subseteq HiddenSSIDs
    /\ events \in Seq(EventRecords)

\* Spec 3 and 8: current_service_ and pending_service_ are never the same
\* service, whatever ConnectTo, the CurrentBSS handler and the timers do.
SlotsDistinct == current # NoService => current # pending

\* Spec 3 (Remote Network Handle): every supplicant network entry belongs to
\* the current or pending service, one entry per service, and the
\* supplicant's selected entry is one of them: no task leaks an entry
\* (preemption, failed SelectNetwork, roam, NotConnected fallback).
NetworkEntriesOwned ==
    /\ DOMAIN networks \subseteq {current, pending} \ {NoService}
    /\ IsInjective(networks)
    /\ Range(networks) = DOMAIN suppNets
    /\ suppSelected \in DOMAIN suppNets \cup {NoHandle}

\* Every connection attempt ends: a pending service eventually stops being
\* pending (promoted by CurrentBSS, abandoned, or timed out).
PendingResolves ==
    \A s \in R!ServiceIds : (pending = s) ~> (pending # s)

\* Spec 4.2 and 4.4: a hidden BSS, found only by probing the SSID of a
\* hidden favorite service, joins that dormant service instead of starting
\* a service of its own.
HiddenBSSJoinsHiddenService ==
    \A b \in DOMAIN endpoints \cap HiddenBSSes :
        services[R!ServiceOfEndpoint(b)].hidden
=============================================================================

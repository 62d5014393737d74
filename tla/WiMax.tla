-------------------------------- MODULE WiMax --------------------------------
(***************************************************************************)
(* The WiMax device (class WiMax, header src/unnamed/part_002).  Its       *)
(* implementation file is not part of the repository; the behaviour is     *)
(* the one src/wimax_unittest.cc pins down, test by test, and each action  *)
(* names the test it is taken from.                                        *)
(*                                                                         *)
(* The device talks to the WiMaxManager's RPC device through proxy_.       *)
(* Start creates the proxy and calls Enable; Stop calls Disable.  A        *)
(* connection is attempted by ConnectTo, which marks the service pending,  *)
(* arms the connect timeout and calls Connect.  Its outcome is learnt from *)
(* the status signals of the RPC device (OnStatusChanged), from the error  *)
(* reply of Connect (OnConnectComplete), or from the timeout.  Signals,    *)
(* replies and the timer are delivered by the event loop in any order.     *)
(*                                                                         *)
(* Status Connected is not exercised by the tests.  It is modelled as the  *)
(* header's IsIdle comment ("connecting or connected") implies: the        *)
(* pending service becomes the selected one and the timeout is stopped.    *)
(* A service is a model value; network paths are a small set.              *)
(***************************************************************************)
EXTENDS Naturals

CONSTANTS
    Services,     \* WiMaxService objects the provider may connect
    Networks,     \* RPC network paths the device may report
    NULL,         \* no service
    MaxConnects   \* bound on the Connect calls awaiting a reply

ASSUME NULL \notin Services /\ MaxConnects \in Nat \ {0}

\* wimax_manager::DeviceStatus values the model tells apart; "Scanning"
\* stands for every status other than Connecting and Connected.
Statuses == {"Uninitialized", "Scanning", "Connecting", "Connected"}
ServiceStates == {"idle", "associating", "configuring", "failure"}

VARIABLES
    alive,        \* the device has not been destroyed by the provider
    enabled,      \* Start called and Stop not yet
    proxy,        \* proxy_ is non-NULL
    pending,      \* pending_service_, or NULL
    selected,     \* selected_service() of the Device base, or NULL
    svcState,     \* svcState[s]: the state last set on service s
    cleared,      \* services whose passphrase ClearPassphrase wiped
    status,       \* status_
    networks,     \* networks_
    timer,        \* connect_timeout_callback_ is scheduled
    connectsOut,  \* Connect calls whose reply is still to come
    enablesOut,   \* Enable calls whose reply is still to come
    disablesOut,  \* Disable calls whose reply is still to come
    reachedConnecting \* ghost: a Connecting status arrived since ConnectTo

vars == <<alive, enabled, proxy, pending, selected, svcState, cleared,
          status, networks, timer, connectsOut, enablesOut, disablesOut,
          reachedConnecting>>

TypeOK ==
    /\ alive \in BOOLEAN /\ enabled \in BOOLEAN /\ proxy \in BOOLEAN
    /\ pending \in Services \cup {NULL}
    /\ selected \in Services \cup {NULL}
    /\ svcState \in [Services -> ServiceStates]
    /\ cleared \subseteq Services
    /\ status \in Statuses
    /\ networks \subseteq Networks
    /\ timer \in BOOLEAN
    /\ connectsOut \in 0..MaxConnects
    /\ enablesOut \in 0..1 /\ disablesOut \in 0..1
    /\ reachedConnecting \in BOOLEAN

\* WiMaxTest.Constructor: no proxy, status_ Uninitialized, nothing pending.
Init ==
    /\ alive = TRUE /\ enabled = FALSE /\ proxy = FALSE
    /\ pending = NULL /\ selected = NULL
    /\ svcState = [s \in Services |-> "idle"]
    /\ cleared = {}
    /\ status = "Uninitialized"
    /\ networks = {}
    /\ timer = FALSE
    /\ connectsOut = 0 /\ enablesOut = 0 /\ disablesOut = 0
    /\ reachedConnecting = FALSE

-----------------------------------------------------------------------------
(* Helpers shared by several handlers *)

\* DropService(state): the pending service is set to state and forgotten;
\* the selected one is set to state and deselected, which (SelectService
\* (NULL)) sets it idle once more; the connect timeout is stopped.
DropService(st) ==
    /\ svcState' = [s \in Services |->
                      CASE s = selected -> "idle"
                        [] s = pending  -> st
                        [] OTHER        -> svcState[s]]
    /\ pending' = NULL /\ selected' = NULL
    /\ timer' = FALSE

\* StartConnectTimeout: not restarted when it is already scheduled.
StartConnectTimeout == timer' = TRUE

-----------------------------------------------------------------------------
(* Operations and handlers *)

\* WiMaxTest.StartStop (Start): the proxy factory creates proxy_, Enable is
\* called and the networks and status signal callbacks are installed.
Start ==
    /\ alive /\ ~enabled /\ enablesOut = 0
    /\ enabled' = TRUE /\ proxy' = TRUE
    /\ enablesOut' = 1
    /\ UNCHANGED <<alive, pending, selected, svcState, cleared, status,
                   networks, timer, connectsOut, disablesOut,
                   reachedConnecting>>

\* WiMaxTest.StartStop (Stop): the connect timeout is stopped, the pending
\* service is set idle and forgotten, networks_ is emptied (and the
\* provider told), and Disable is called on the proxy.
Stop ==
    /\ alive /\ enabled /\ proxy /\ disablesOut = 0
    /\ enabled' = FALSE
    /\ timer' = FALSE
    /\ svcState' = IF pending = NULL THEN svcState
                   ELSE [svcState EXCEPT ![pending] = "idle"]
    /\ pending' = NULL
    /\ networks' = {}
    /\ disablesOut' = 1
    /\ UNCHANGED <<alive, proxy, selected, cleared, status, connectsOut,
                   enablesOut, reachedConnecting>>

\* WiMaxTest.OnEnableComplete: on success networks_ is taken from the
\* proxy's Networks() and the provider told; on failure proxy_ is reset.
\* The caller's callback runs in both cases.
OnEnableComplete(ok) ==
    /\ alive /\ enablesOut = 1
    /\ enablesOut' = 0
    /\ IF ok THEN /\ \E ns \in SUBSET Networks : networks' = ns
                  /\ UNCHANGED proxy
             ELSE proxy' = FALSE /\ UNCHANGED networks
    /\ UNCHANGED <<alive, enabled, pending, selected, svcState, cleared,
                   status, timer, connectsOut, disablesOut,
                   reachedConnecting>>

\* OnDisableComplete: the caller's callback runs.
OnDisableComplete ==
    /\ alive /\ disablesOut = 1
    /\ disablesOut' = 0
    /\ UNCHANGED <<alive, enabled, proxy, pending, selected, svcState, cleared,
                   status, networks, timer, connectsOut, enablesOut,
                   reachedConnecting>>

\* WiMaxTest.OnNetworksChanged: networks_ becomes the set of the paths the
\* signal lists (duplicates collapse) and the provider is told.
OnNetworksChanged(ns) ==
    /\ alive /\ proxy
    /\ networks' = ns
    /\ UNCHANGED <<alive, enabled, proxy, pending, selected, svcState, cleared,
                   status, timer, connectsOut, enablesOut, disablesOut,
                   reachedConnecting>>

ConnectToKeepingStatus(s) ==
    /\ alive /\ proxy /\ pending = NULL /\ connectsOut < MaxConnects
    /\ svcState' = [svcState EXCEPT ![s] = "associating"]
    /\ pending' = s
    /\ StartConnectTimeout
    /\ connectsOut' = connectsOut + 1
    /\ reachedConnecting' = FALSE
    /\ UNCHANGED <<alive, enabled, proxy, selected, cleared, networks,
                   enablesOut, disablesOut, status>>

ConnectToWithoutTimeout(s) ==
    /\ alive /\ proxy /\ pending = NULL /\ connectsOut < MaxConnects
    /\ svcState' = [svcState EXCEPT ![s] = "associating"]
    /\ pending' = s
    /\ status' = "Uninitialized"
    /\ connectsOut' = connectsOut + 1
    /\ reachedConnecting' = FALSE
    /\ UNCHANGED <<alive, enabled, proxy, selected, cleared, networks,
                   enablesOut, disablesOut, timer>>

\* WiMaxTest.ConnectTo: with a service already pending the call fails with
\* kInProgress and changes nothing.  Otherwise the service is set
\* Associating and made pending, status_ is reset to Uninitialized so that
\* a status update queued before this attempt cannot decide it, the
\* connect timeout is started and Connect is called on the proxy.
ConnectTo(s) ==
    /\ alive /\ proxy
    /\ pending = NULL
    /\ connectsOut < MaxConnects
    /\ svcState' = [svcState EXCEPT ![s] = "associating"]
    /\ pending' = s
    /\ status' = "Uninitialized"
    /\ StartConnectTimeout
    /\ connectsOut' = connectsOut + 1
    /\ reachedConnecting' = FALSE
    /\ UNCHANGED <<alive, enabled, proxy, selected, cleared, networks,
                   enablesOut, disablesOut>>

OnConnectCompleteUnguarded(ok) ==
    /\ alive
    /\ connectsOut' = connectsOut - 1
    /\ IF ok THEN UNCHANGED <<pending, selected, svcState, timer>>
             ELSE DropService("failure")
    /\ UNCHANGED <<alive, enabled, proxy, cleared, status, networks,
                   enablesOut, disablesOut, reachedConnecting>>

\* WiMaxTest.OnConnectComplete: an error reply drops the pending service
\* as failed; a successful reply leaves the outcome to the status signals.
OnConnectComplete(ok) ==
    /\ alive /\ connectsOut > 0
    /\ connectsOut' = connectsOut - 1
    /\ IF ok THEN UNCHANGED <<pending, selected, svcState, timer>>
             ELSE DropService("failure")
    /\ UNCHANGED <<alive, enabled, proxy, cleared, status, networks,
                   enablesOut, disablesOut, reachedConnecting>>

\* WiMaxTest.OnStatusChanged: status_ takes the new status.  Connecting
\* changes nothing else.  Any other status fails the attempt only on a
\* transition out of Connecting: the pending service's passphrase is
\* cleared and DropService(Failure) runs, which also fails and deselects a
\* selected service.  On Connected (see the module comment) the pending
\* service, if any, is selected and set Configuring and the timeout stopped.
OnStatusChanged(st) ==
    /\ alive /\ proxy
    /\ status' = st
    /\ reachedConnecting' = (reachedConnecting \/ st \in {"Connecting", "Connected"})
    /\ CASE st = "Connecting" ->
              UNCHANGED <<pending, selected, svcState, cleared, timer>>
         [] st = "Connected" /\ pending # NULL ->
              /\ svcState' = [s \in Services |->
                                CASE s = pending  -> "configuring"
                                  [] s = selected -> "idle"
                                  [] OTHER        -> svcState[s]]
              /\ selected' = pending /\ pending' = NULL
              /\ timer' = FALSE
              /\ UNCHANGED cleared
         [] st # "Connected" /\ status = "Connecting" ->
              /\ cleared' = IF pending = NULL THEN cleared
                            ELSE cleared \cup {pending}
              /\ DropService("failure")
         [] OTHER ->
              UNCHANGED <<pending, selected, svcState, cleared, timer>>
    /\ UNCHANGED <<alive, enabled, proxy, networks, connectsOut, enablesOut,
                   disablesOut>>

OnConnectTimeoutCancelOnly ==
    /\ alive /\ timer
    /\ timer' = FALSE
    /\ UNCHANGED <<alive, enabled, proxy, pending, selected, svcState, cleared,
                   status, networks, connectsOut, enablesOut, disablesOut,
                   reachedConnecting>>

\* WiMaxTest.ConnectTimeout: the timer fires, is marked stopped, and
\* DropService(Failure) runs.
OnConnectTimeout ==
    /\ alive /\ timer
    /\ DropService("failure")
    /\ UNCHANGED <<alive, enabled, proxy, cleared, status, networks,
                   connectsOut, enablesOut, disablesOut, reachedConnecting>>

\* WiMaxTest.OnServiceStopped: a stopped selected service is disconnected
\* (deselected, so set idle); a stopped pending service is forgotten.  The
\* connect timeout is left as it is.
OnServiceStopped(s) ==
    /\ alive /\ s \in {pending, selected}
    /\ IF s = selected
       THEN selected' = NULL /\ svcState' = [svcState EXCEPT ![s] = "idle"]
       ELSE UNCHANGED <<selected, svcState>>
    /\ pending' = IF s = pending THEN NULL ELSE pending
    /\ UNCHANGED <<alive, enabled, proxy, cleared, status, networks, timer,
                   connectsOut, enablesOut, disablesOut, reachedConnecting>>

\* WiMaxTest.OnDeviceVanished: proxy_ is reset and DropService(Idle) runs;
\* the provider then deregisters and destroys the device.
OnDeviceVanished ==
    /\ alive
    /\ proxy' = FALSE
    /\ DropService("idle")
    /\ alive' = FALSE
    /\ UNCHANGED <<enabled, cleared, status, networks, connectsOut,
                   enablesOut, disablesOut, reachedConnecting>>

Next ==
    \/ Start \/ Stop \/ OnDisableComplete \/ OnConnectTimeout \/ OnDeviceVanished
    \/ \E ok \in BOOLEAN : OnEnableComplete(ok) \/ OnConnectComplete(ok)
    \/ \E ns \in SUBSET Networks : OnNetworksChanged(ns)
    \/ \E st \in Statuses \ {"Uninitialized"} : OnStatusChanged(st)
    \/ \E s \in Services : ConnectTo(s) \/ OnServiceStopped(s)

\* The event loop runs a scheduled connect timeout.
Fairness == WF_vars(OnConnectTimeout)

Spec == Init /\ [][Next]_vars /\ Fairness

-----------------------------------------------------------------------------
(* Properties *)

\* A pending connection is always guarded by the connect timeout: every
\* path that leaves a service pending (ConnectTo) arms it, and every path
\* that stops it (DropService, Stop, Connected) also ends the attempt.
\* Without it a device whose RPC peer never reports Connecting would stay
\* pending, and ConnectTo would answer kInProgress for ever.
PendingGuardedByTimeout ==
    pending # NULL => timer

\* OnStatusChanged fails the pending service, and wipes its passphrase so
\* that the user is asked again, only on a transition out of Connecting
\* that belongs to the current attempt: ConnectTo resets status_ so that a
\* Connecting reported for an earlier attempt, followed by a queued
\* Scanning update, cannot fail a new one.
FailureOnlyAfterOwnConnecting ==
    [][pending # NULL /\ pending' = NULL /\ status' # status
         /\ svcState'[pending] = "failure"
         => reachedConnecting]_vars

\* Every connection attempt ends: a pending service eventually stops being
\* pending (connected, failed, stopped or dropped), given that the event
\* loop runs the connect timeout.
PendingResolves ==
    \A s \in Services : pending = s ~> pending # s
=============================================================================

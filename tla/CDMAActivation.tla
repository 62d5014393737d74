-------------------------- MODULE CDMAActivation --------------------------
(***************************************************************************)
(* Activation of a CDMA modem by CellularCapabilityCDMA                   *)
(* (src/unnamed/part_010, src/cellular_capability_cdma.h).  A caller       *)
(* (the D-Bus Activate method) asks for activation with a callback that    *)
(* carries the method's reply.  In the Enabled and Registered states the   *)
(* request goes to ModemManager at once; in Connected and Linked the       *)
(* callback is parked in pending_activation_callback_, the modem is        *)
(* disconnected, and DisconnectCleanup retries or fails the request.       *)
(*                                                                         *)
(* Cellular (its state machine, Disconnect, service creation) and the      *)
(* ModemManager proxy are not part of src/: they are the environment.      *)
(* A proxy call is answered exactly once, by a reply or by a D-Bus error   *)
(* (the call carries kTimeoutActivate).  Cellular::Disconnect ends in      *)
(* DisconnectCleanup with the modem Registered on success or still         *)
(* Connected on failure.  The online-payment portal, MDN, MIN and carrier  *)
(* strings that the handlers copy are data no property reads: left out.    *)
(***************************************************************************)
EXTENDS Naturals

CONSTANTS
    Requests,          \* callers of Activate, each with its own callback
    ReportedStates,    \* activation states ModemManager may report
    ReportedErrors,    \* activation errors ModemManager may report
    RegStates,         \* CDMA registration states ModemManager may report
    NoRequest          \* pending_activation_callback_ is null

VARIABLES
    cstate,        \* cellular()->state()
    disconnecting, \* a Cellular::Disconnect is in progress
    service,       \* cellular()->service() is non-null
    starting,      \* activation_starting_
    actState,      \* activation_state_
    pending,       \* pending_activation_callback_ (whose it is)
    inflight,      \* callers whose proxy_->Activate has not been answered
    issued,        \* callers that have called Activate
    rejected,      \* callers whose Activate returned an error at once
    replies,       \* how many times each caller's callback has run
    svcAct,        \* the service's activation-state property
    svcErr,        \* the service's error property
    reg1x,         \* registration_state_1x_
    regEvdo        \* registration_state_evdo_

vars == <<cstate, disconnecting, service, starting, actState, pending,
          inflight, issued, rejected, replies, svcAct, svcErr, reg1x, regEvdo>>

CellularStates == {"disabled", "enabled", "registered", "connected", "linked"}

\* GetActivationStateString.
GetActivationStateString(st) ==
    CASE st = "ACTIVATED"           -> "activated"
      [] st = "ACTIVATING"          -> "activating"
      [] st = "NOT_ACTIVATED"       -> "not-activated"
      [] st = "PARTIALLY_ACTIVATED" -> "partially-activated"
      [] OTHER                      -> "unknown"

\* GetActivationErrorString.
GetActivationErrorString(err) ==
    CASE err = "WRONG_RADIO_INTERFACE" -> "need-evdo"
      [] err = "ROAMING"               -> "need-home-network"
      [] err \in {"COULD_NOT_CONNECT", "SECURITY_AUTHENTICATION_FAILED",
                  "PROVISIONING_FAILED"} -> "otasp-failed"
      [] err = "NO_ERROR"              -> ""
      [] OTHER                         -> "activation-failed"

\* HandleNewActivationState(err) with activation_state_ = st and the
\* service present iff svc: nothing when the service is null.
HandleNewActivationState(svc, st, err) ==
    IF svc THEN /\ svcAct' = GetActivationStateString(st)
                /\ svcErr' = GetActivationErrorString(err)
    ELSE UNCHANGED <<svcAct, svcErr>>

\* IsActivating.
IsActivating == starting \/ actState = "ACTIVATING"

\* IsRegistered.
IsRegistered == regEvdo # "UNKNOWN" \/ reg1x # "UNKNOWN"

\* GetNetworkTechnologyString.
GetNetworkTechnologyString ==
    IF regEvdo # "UNKNOWN" THEN "EVDO"
    ELSE IF reg1x # "UNKNOWN" THEN "1xRTT" ELSE ""

\* GetRoamingStateString: the EVDO state unless it is unknown.
GetRoamingStateString ==
    LET st == IF regEvdo = "UNKNOWN" THEN reg1x ELSE regEvdo
    IN  CASE st = "HOME"    -> "home"
          [] st = "ROAMING" -> "roaming"
          [] OTHER          -> "unknown"

Callback(r) == replies' = [replies EXCEPT ![r] = @ + 1]

-----------------------------------------------------------------------------

Init ==
    /\ cstate = "disabled"
    /\ disconnecting = FALSE
    /\ service = FALSE
    /\ starting = FALSE
    /\ actState = "NOT_ACTIVATED"
    /\ pending = NoRequest
    /\ inflight = {}
    /\ issued = {}
    /\ rejected = {}
    /\ replies = [r \in Requests |-> 0]
    /\ svcAct = "none"
    /\ svcErr = ""
    /\ reg1x = "UNKNOWN"
    /\ regEvdo = "UNKNOWN"

\* The body of Activate for caller r with the cellular device in state st.
Ready == {"enabled", "registered"}
Online == {"connected", "linked"}

ActivateIn(r, st) ==
    \/ /\ st \in Ready
       /\ starting' = TRUE
       /\ inflight' = inflight \cup {r}
       /\ UNCHANGED <<pending, rejected, disconnecting>>
    \/ /\ st \in Online
       /\ starting' = TRUE
       /\ pending' = r
       /\ disconnecting' = TRUE
       /\ UNCHANGED <<inflight, rejected>>
    \/ /\ st \notin Ready \cup Online
       /\ starting' = FALSE
       /\ rejected' = rejected \cup {r}
       /\ UNCHANGED <<inflight, pending, disconnecting>>

\* Mutant: the caller is not recorded.
ActivateUnrecorded(r) ==
    /\ r \notin issued
    /\ UNCHANGED issued
    /\ ActivateIn(r, cstate)
    /\ UNCHANGED <<cstate, service, actState, replies, svcAct, svcErr,
                   reg1x, regEvdo>>

\* Activate(carrier, error, callback), called by caller r.
Activate(r) ==
    /\ r \notin issued
    /\ issued' = issued \cup {r}
    /\ ActivateIn(r, cstate)
    /\ UNCHANGED <<cstate, service, actState, replies, svcAct, svcErr,
                   reg1x, regEvdo>>

\* Mutant: a failed call does not run the callback.
OnActivateReplyNoCallbackOnError(r, status, ok) ==
    /\ r \in inflight
    /\ inflight' = inflight \ {r}
    /\ starting' = FALSE
    /\ IF ok
       THEN /\ actState' = IF status = "NO_ERROR" THEN "ACTIVATING" ELSE actState
            /\ HandleNewActivationState(service, actState', status)
            /\ Callback(r)
       ELSE UNCHANGED <<actState, svcAct, svcErr, replies>>
    /\ UNCHANGED <<cstate, disconnecting, service, pending, issued, rejected,
                   reg1x, regEvdo>>

\* OnActivateReply: ModemManager answers r's request with status, or the
\* call fails (ok = FALSE).  The callback runs in both cases.
OnActivateReply(r, status, ok) ==
    /\ r \in inflight
    /\ inflight' = inflight \ {r}
    /\ starting' = FALSE
    /\ IF ok
       THEN /\ actState' = IF status = "NO_ERROR" THEN "ACTIVATING" ELSE actState
            /\ HandleNewActivationState(service, actState', status)
       ELSE UNCHANGED <<actState, svcAct, svcErr>>
    /\ Callback(r)
    /\ UNCHANGED <<cstate, disconnecting, service, pending, issued, rejected,
                   reg1x, regEvdo>>

\* Mutant: the failure path leaves activation_starting_ set.
DisconnectCleanupKeepStarting(st) ==
    \/ /\ pending = NoRequest
       /\ UNCHANGED <<starting, pending, inflight, replies, svcAct, svcErr>>
    \/ /\ pending # NoRequest
       /\ st \in Ready
       /\ starting' = TRUE
       /\ inflight' = inflight \cup {pending}
       /\ pending' = NoRequest
       /\ UNCHANGED <<replies, svcAct, svcErr>>
    \/ /\ pending # NoRequest
       /\ st \notin Ready
       /\ HandleNewActivationState(service, actState, "UNKNOWN")
       /\ Callback(pending)
       /\ pending' = NoRequest
       /\ UNCHANGED <<inflight, starting>>

\* Mutant: the failure path does not reset the parked callback.
DisconnectCleanupNoReset(st) ==
    \/ /\ pending = NoRequest
       /\ UNCHANGED <<starting, pending, inflight, replies, svcAct, svcErr>>
    \/ /\ pending # NoRequest
       /\ st \in Ready
       /\ starting' = TRUE
       /\ inflight' = inflight \cup {pending}
       /\ pending' = NoRequest
       /\ UNCHANGED <<replies, svcAct, svcErr>>
    \/ /\ pending # NoRequest
       /\ st \notin Ready
       /\ HandleNewActivationState(service, actState, "UNKNOWN")
       /\ starting' = FALSE
       /\ Callback(pending)
       /\ UNCHANGED <<inflight, pending>>

\* DisconnectCleanup with the cellular device in state st: no parked
\* request, nothing; in Enabled or Registered the parked request is sent
\* (Activate's first branch); otherwise it fails with ERROR_UNKNOWN.  The
\* parked callback is reset either way.
DisconnectCleanup(st) ==
    \/ /\ pending = NoRequest
       /\ UNCHANGED <<starting, pending, inflight, replies, svcAct, svcErr>>
    \/ /\ pending # NoRequest
       /\ st \in Ready
       /\ starting' = TRUE
       /\ inflight' = inflight \cup {pending}
       /\ pending' = NoRequest
       /\ UNCHANGED <<replies, svcAct, svcErr>>
    \/ /\ pending # NoRequest
       /\ st \notin Ready
       /\ HandleNewActivationState(service, actState, "UNKNOWN")
       /\ starting' = FALSE
       /\ Callback(pending)
       /\ pending' = NoRequest
       /\ UNCHANGED inflight

\* Cellular::Disconnect completes: on success the device is Registered,
\* on failure it stays where it was; then DisconnectCleanup runs.
DisconnectDone(ok) ==
    /\ disconnecting
    /\ disconnecting' = FALSE
    /\ cstate' = IF ok THEN "registered" ELSE cstate
    /\ DisconnectCleanup(cstate')
    /\ UNCHANGED <<service, actState, issued, rejected, reg1x, regEvdo>>

\* Mutant: the service is updated from the old activation_state_.
OnActivationStateChangedSignalStale(st, err) ==
    /\ cstate # "disabled"
    /\ actState' = st
    /\ HandleNewActivationState(service, actState, err)
    /\ UNCHANGED <<cstate, disconnecting, service, starting, pending,
                   inflight, issued, rejected, replies, reg1x, regEvdo>>

\* OnActivationStateChangedSignal: activation_state_ takes the reported
\* state, then HandleNewActivationState(error).
OnActivationStateChangedSignal(st, err) ==
    /\ cstate # "disabled"
    /\ actState' = st
    /\ HandleNewActivationState(service, st, err)
    /\ UNCHANGED <<cstate, disconnecting, service, starting, pending,
                   inflight, issued, rejected, replies, reg1x, regEvdo>>

\* StartModem: the enable task list; its GetModemStatus step ends in
\* UpdateStatus, which takes "activation_state" when the status carries it
\* (st = "absent" when it does not).
UpdateStatus(st) == actState' = IF st = "absent" THEN actState ELSE st

StartModem(st) ==
    /\ cstate = "disabled"
    /\ cstate' = "enabled"
    /\ UpdateStatus(st)
    /\ UNCHANGED <<disconnecting, service, starting, pending, inflight,
                   issued, rejected, replies, svcAct, svcErr, reg1x, regEvdo>>

\* StopModem from Enabled or Registered: the service goes away.
StopModem ==
    /\ cstate \in Ready
    /\ ~disconnecting
    /\ cstate' = "disabled"
    /\ service' = FALSE
    /\ svcAct' = "none"
    /\ UNCHANGED <<disconnecting, starting, actState, pending, inflight,
                   issued, rejected, replies, svcErr, reg1x, regEvdo>>

\* OnRegistrationStateChangedSignal (also the end of
\* OnGetRegistrationStateReply), then Cellular::HandleNewRegistrationState:
\* an Enabled device that is now registered becomes Registered and
\* creates its service, which runs OnServiceCreated and with it
\* HandleNewActivationState(NO_ERROR); a Registered device that no longer
\* is registered drops back to Enabled and destroys its service.
OnRegistrationStateChangedSignal(s1x, sevdo) ==
    /\ cstate # "disabled"
    /\ reg1x' = s1x
    /\ regEvdo' = sevdo
    /\ LET registered == s1x # "UNKNOWN" \/ sevdo # "UNKNOWN"
       IN  \/ /\ cstate = "enabled" /\ registered
              /\ cstate' = "registered"
              /\ service' = TRUE
              /\ HandleNewActivationState(TRUE, actState, "NO_ERROR")
           \/ /\ cstate = "registered" /\ ~registered
              /\ cstate' = "enabled"
              /\ service' = FALSE
              /\ svcAct' = "none"
              /\ UNCHANGED svcErr
           \/ /\ ~(cstate = "enabled" /\ registered)
              /\ ~(cstate = "registered" /\ ~registered)
              /\ UNCHANGED <<cstate, service, svcAct, svcErr>>
    /\ UNCHANGED <<disconnecting, starting, actState, pending, inflight,
                   issued, rejected, replies>>

\* The user connects the Registered device, and the link comes up.
Connect ==
    /\ cstate = "registered" /\ service
    /\ cstate' = "connected"
    /\ UNCHANGED <<disconnecting, service, starting, actState, pending,
                   inflight, issued, rejected, replies, svcAct, svcErr,
                   reg1x, regEvdo>>

LinkUp ==
    /\ cstate = "connected"
    /\ cstate' = "linked"
    /\ UNCHANGED <<disconnecting, service, starting, actState, pending,
                   inflight, issued, rejected, replies, svcAct, svcErr,
                   reg1x, regEvdo>>

\* The user disconnects a Connected or Linked device.
UserDisconnect ==
    /\ cstate \in Online
    /\ ~disconnecting
    /\ disconnecting' = TRUE
    /\ UNCHANGED <<cstate, service, starting, actState, pending, inflight,
                   issued, rejected, replies, svcAct, svcErr, reg1x, regEvdo>>

Next ==
    \/ \E r \in Requests : Activate(r)
    \/ \E r \in Requests, status \in ReportedErrors, ok \in BOOLEAN :
         OnActivateReply(r, status, ok)
    \/ \E ok \in BOOLEAN : DisconnectDone(ok)
    \/ \E st \in ReportedStates, err \in ReportedErrors :
         OnActivationStateChangedSignal(st, err)
    \/ \E st \in ReportedStates \cup {"absent"} : StartModem(st)
    \/ StopModem
    \/ \E s1x, sevdo \in RegStates : OnRegistrationStateChangedSignal(s1x, sevdo)
    \/ Connect \/ LinkUp \/ UserDisconnect

\* Every proxy call is answered (D-Bus replies or times out) and every
\* Cellular::Disconnect completes; the user and ModemManager's own signals
\* need not happen.
Fairness ==
    /\ \A r \in Requests :
         WF_vars(\E status \in ReportedErrors, ok \in BOOLEAN :
                   OnActivateReply(r, status, ok))
    /\ WF_vars(\E ok \in BOOLEAN : DisconnectDone(ok))

Spec == Init /\ [][Next]_vars /\ Fairness

-----------------------------------------------------------------------------

TypeOK ==
    /\ cstate \in CellularStates
    /\ disconnecting \in BOOLEAN /\ service \in BOOLEAN /\ starting \in BOOLEAN
    /\ actState \in ReportedStates \cup {"NOT_ACTIVATED", "ACTIVATING"}
    /\ pending \in Requests \cup {NoRequest}
    /\ inflight \subseteq issued /\ issued \subseteq Requests
    /\ rejected \subseteq issued
    /\ replies \in [Requests -> Nat]
    /\ reg1x \in RegStates /\ regEvdo \in RegStates

\* While the device has a service, its activation-state property shows
\* activation_state_: every handler that changes activation_state_ ends in
\* HandleNewActivationState, and a new service is brought up to date by
\* OnServiceCreated.
ServiceShowsActivationState ==
    service => svcAct = GetActivationStateString(actState)

\* IsActivating() is not left true by activation_starting_ when no
\* activation is under way: the flag is set only while a request is with
\* ModemManager or parked behind a Disconnect.
StartingOnlyWhileRequested ==
    starting => inflight # {} \/ pending # NoRequest

\* Each caller's callback (the D-Bus reply to Activate) runs at most once,
\* and never for a request that was rejected at once.
CallbackAtMostOnce ==
    \A r \in Requests : replies[r] <= (IF r \in rejected THEN 0 ELSE 1)

\* Every Activate is answered: rejected at once or, eventually, its
\* callback runs.
EveryActivateAnswered ==
    \A r \in Requests : r \in issued ~> (r \in rejected \/ replies[r] > 0)
====

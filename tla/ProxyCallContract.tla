------------------------- MODULE ProxyCallContract -------------------------
(***************************************************************************)
(* What an asynchronous D-Bus proxy method promises its caller: each call  *)
(* is answered exactly once, either at once (the Error out-parameter is    *)
(* filled in and the callback is never run) or later (the callback runs).  *)
(* CDMAActivation assumes this of its proxies; Modem3gppProxy shows that   *)
(* the ModemManager1 3GPP proxy implements it.                             *)
(***************************************************************************)
EXTENDS Naturals

CONSTANT Calls   \* the calls callers may make, each made at most once

VARIABLES
    callState,   \* callState[c]: "idle", "outstanding" or "done"
    replies      \* replies[c]: answers the caller of c has received

vars == <<callState, replies>>

Init ==
    /\ callState = [c \in Calls |-> "idle"]
    /\ replies = [c \in Calls |-> 0]

\* The method returns with the call in flight.
Issue(c) ==
    /\ callState[c] = "idle"
    /\ callState' = [callState EXCEPT ![c] = "outstanding"]
    /\ UNCHANGED replies

\* The method fails at once and reports it through its Error argument.
FailAtOnce(c) ==
    /\ callState[c] = "idle"
    /\ callState' = [callState EXCEPT ![c] = "done"]
    /\ replies' = [replies EXCEPT ![c] = 1]

\* The reply (or error, or timeout) reaches the caller's callback.
Answer(c) ==
    /\ callState[c] = "outstanding"
    /\ callState' = [callState EXCEPT ![c] = "done"]
    /\ replies' = [replies EXCEPT ![c] = 1]

Next == \E c \in Calls : Issue(c) \/ FailAtOnce(c) \/ Answer(c)

\* Every outstanding call is answered: D-Bus calls carry a timeout.
Spec == Init /\ [][Next]_vars /\ \A c \in Calls : WF_vars(Answer(c))
=============================================================================

--------------------------- MODULE Modem3gppProxy ---------------------------
(***************************************************************************)
(* mm1::ModemModem3gppProxy (src/mm1_modem_modem3gpp_proxy.cc): Register   *)
(* and Scan copy the caller's callback to the heap, hand the raw pointer   *)
(* to the generated asynchronous D-Bus method and release the scoped_ptr   *)
(* only once that method has returned.  If it throws DBus::Error the       *)
(* scoped_ptr frees the copy and the error is converted into the caller's  *)
(* Error (when one was passed).  The reply handlers RegisterCallback and   *)
(* ScanCallback take the pointer back into a scoped_ptr, convert the D-Bus *)
(* error and run the callback once.                                        *)
(*                                                                         *)
(* A callback copy is identified with its call; the operator id, the scan  *)
(* results and the error text are abstracted away.                         *)
(***************************************************************************)
EXTENDS Naturals

CONSTANTS
    Calls,       \* calls the 3GPP capability may make, each at most once
    ErrorPtrs    \* whether callers pass a non-NULL Error *: subset of BOOLEAN

ASSUME ErrorPtrs \subseteq BOOLEAN /\ ErrorPtrs # {}

Methods == {"Register", "Scan"}

VARIABLES
    status,      \* status[c]: "unissued", "inflight", "failed" or "answered"
    method,      \* method[c]: the proxy method c called
    heap,        \* calls whose callback copy is allocated and not yet freed
    runs,        \* runs[c]: times the callback of c has run
    errorSet     \* errorSet[c]: the caller's Error was filled in synchronously

vars == <<status, method, heap, runs, errorSet>>

TypeOK ==
    /\ status \in [Calls -> {"unissued", "inflight", "failed", "answered"}]
    /\ method \in [Calls -> Methods]
    /\ heap \subseteq Calls
    /\ runs \in [Calls -> 0..1]
    /\ errorSet \in [Calls -> BOOLEAN]

Init ==
    /\ status = [c \in Calls |-> "unissued"]
    /\ method \in [Calls -> Methods]
    /\ heap = {}
    /\ runs = [c \in Calls |-> 0]
    /\ errorSet = [c \in Calls |-> FALSE]

IssueReleasingEarly(c, m, errorPtr, throws) ==
    /\ status[c] = "unissued" /\ method[c] = m
    /\ heap' = heap \cup {c}
    /\ status' = [status EXCEPT ![c] = IF throws THEN "failed" ELSE "inflight"]
    /\ errorSet' = [errorSet EXCEPT ![c] = throws /\ errorPtr]
    /\ UNCHANGED <<method, runs>>

\* The body shared by Register and Scan: new callback copy in a scoped_ptr;
\* the generated method either queues the call (then cb.release() hands the
\* copy to the pending call) or throws (then the copy is freed at scope exit
\* and, if error is non-NULL, CellularError::FromMM1DBusError fills it).
Issue(c, m, errorPtr, throws) ==
    /\ status[c] = "unissued" /\ method[c] = m
    /\ heap' = IF throws THEN heap ELSE heap \cup {c}
    /\ status' = [status EXCEPT ![c] = IF throws THEN "failed" ELSE "inflight"]
    /\ errorSet' = [errorSet EXCEPT ![c] = throws /\ errorPtr]
    /\ UNCHANGED <<method, runs>>

\* ModemModem3gppProxy::Register(operator_id, error, callback, timeout).
Register(c, errorPtr, throws) == Issue(c, "Register", errorPtr, throws)

\* ModemModem3gppProxy::Scan(error, callback, timeout).
Scan(c, errorPtr, throws) == Issue(c, "Scan", errorPtr, throws)

ReplyUnguarded(c, m, dbusError) ==
    /\ status[c] # "unissued" /\ method[c] = m
    /\ heap' = heap \ {c}
    /\ runs' = [runs EXCEPT ![c] = @ + 1]
    /\ status' = [status EXCEPT ![c] = "answered"]
    /\ UNCHANGED <<method, errorSet>>

ReplySkippingOnError(c, m, dbusError) ==
    /\ status[c] = "inflight" /\ method[c] = m
    /\ heap' = heap \ {c}
    /\ runs' = IF dbusError THEN runs ELSE [runs EXCEPT ![c] = @ + 1]
    /\ status' = [status EXCEPT ![c] = "answered"]
    /\ UNCHANGED <<method, errorSet>>

\* The body shared by the reply handlers: the D-Bus connection dispatches
\* the reply, error or timeout of an in-flight call to the handler of its
\* method with the copy as data; the copy is adopted by a scoped_ptr, run
\* with the converted error (whether dbusError is set or not), and freed.
Reply(c, m, dbusError) ==
    /\ status[c] = "inflight" /\ method[c] = m
    /\ heap' = heap \ {c}
    /\ runs' = [runs EXCEPT ![c] = @ + 1]
    /\ status' = [status EXCEPT ![c] = "answered"]
    /\ UNCHANGED <<method, errorSet>>

\* ModemModem3gppProxy::Proxy::RegisterCallback(dberror, data).
RegisterCallback(c, dbusError) == Reply(c, "Register", dbusError)

\* ModemModem3gppProxy::Proxy::ScanCallback(results, dberror, data).
ScanCallback(c, dbusError) == Reply(c, "Scan", dbusError)

Next ==
    \E c \in Calls :
        \/ \E e \in ErrorPtrs, t \in BOOLEAN : Register(c, e, t) \/ Scan(c, e, t)
        \/ \E d \in BOOLEAN : RegisterCallback(c, d) \/ ScanCallback(c, d)

\* The connection dispatches every pending call's reply or timeout.
Fairness ==
    \A c \in Calls :
        /\ WF_vars(\E d \in BOOLEAN : RegisterCallback(c, d))
        /\ WF_vars(\E d \in BOOLEAN : ScanCallback(c, d))

Spec == Init /\ [][Next]_vars /\ Fairness

-----------------------------------------------------------------------------
(* Properties *)

\* Every heap copy of a callback is owned by exactly one pending D-Bus
\* call: Register and Scan neither leak the copy when the generated method
\* throws nor free one the connection still holds, and the reply handlers
\* free it after running it.
CallbackOwnedByPendingCall ==
    heap = {c \in Calls : status[c] = "inflight"}

\* Refinement: the proxy implements the one-answer-per-call contract.  The
\* caller's answers are the callback runs plus a synchronously filled Error.
Contract == INSTANCE ProxyCallContract WITH
    callState <- [c \in Calls |->
                    CASE status[c] = "unissued" -> "idle"
                      [] status[c] = "inflight" -> "outstanding"
                      [] OTHER                  -> "done"],
    replies <- [c \in Calls |-> runs[c] + IF errorSet[c] THEN 1 ELSE 0]

ImplementsContract == Contract!Spec
=============================================================================

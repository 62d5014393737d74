--------------------------- MODULE DeviceClaimer ---------------------------
(***************************************************************************)
(* DeviceClaimer (src/device_claimer.cc): a D-Bus client that takes        *)
(* network interfaces away from the daemon.  Claiming a device puts its    *)
(* name on the DeviceInfo blacklist; releasing it, or destroying the       *)
(* claimer, takes the name off again.  Several claimers, one per D-Bus     *)
(* service name, share one DeviceInfo.                                     *)
(*                                                                         *)
(* DeviceInfo is not part of src/: its blacklist is modelled as the set    *)
(* the names imply (AddDeviceToBlackList inserts, RemoveDeviceFromBlackList *)
(* erases, with no count of who added a name).  The Error filled in on a   *)
(* rejected Claim or Release is left out; the rejection changes no state.  *)
(***************************************************************************)
EXTENDS FiniteSets

CONSTANTS
    Claimers,   \* D-Bus service names that may own a claimer
    Devices     \* interface names

VARIABLES
    alive,      \* claimer c exists
    claimed,    \* claimed_device_names_ of claimer c
    watcher,    \* dbus_name_watcher_ of claimer c is set
    blacklist   \* the shared DeviceInfo blacklist

vars == <<alive, claimed, watcher, blacklist>>

\* DevicesClaimed.
DevicesClaimed(c) == claimed[c] # {}

Init ==
    /\ alive = [c \in Claimers |-> FALSE]
    /\ claimed = [c \in Claimers |-> {}]
    /\ watcher = [c \in Claimers |-> FALSE]
    /\ blacklist = {}

\* The constructor: an empty claimer for service name c.
Construct(c) ==
    /\ ~alive[c]
    /\ alive' = [alive EXCEPT ![c] = TRUE]
    /\ UNCHANGED <<claimed, watcher, blacklist>>

\* StartDBusNameWatcher: refused when a watcher is already running.
StartDBusNameWatcher(c) ==
    /\ alive[c]
    /\ ~watcher[c]
    /\ watcher' = [watcher EXCEPT ![c] = TRUE]
    /\ UNCHANGED <<alive, claimed, blacklist>>

\* Claim: refused for a name this claimer already holds; otherwise the
\* name is blacklisted and recorded.
Claim(c, d) ==
    /\ alive[c]
    /\ d \notin claimed[c]
    /\ blacklist' = blacklist \cup {d}
    /\ claimed' = [claimed EXCEPT ![c] = @ \cup {d}]
    /\ UNCHANGED <<alive, watcher>>

\* Release: refused for a name this claimer does not hold; otherwise the
\* name leaves the blacklist and the claimed set.
Release(c, d) ==
    /\ alive[c]
    /\ d \in claimed[c]
    /\ blacklist' = blacklist \ {d}
    /\ claimed' = [claimed EXCEPT ![c] = @ \ {d}]
    /\ UNCHANGED <<alive, watcher>>

\* Mutant: the destructor forgets to release the claimed names.
DestroyKeepBlacklist(c) ==
    /\ alive[c]
    /\ alive' = [alive EXCEPT ![c] = FALSE]
    /\ claimed' = [claimed EXCEPT ![c] = {}]
    /\ watcher' = [watcher EXCEPT ![c] = FALSE]
    /\ UNCHANGED blacklist

\* ~DeviceClaimer, run when the claimer's D-Bus name vanishes or the
\* manager drops it: every claimed name leaves the blacklist, the claimed
\* set is cleared and the name watcher is reset.
Destroy(c) ==
    /\ alive[c]
    /\ alive' = [alive EXCEPT ![c] = FALSE]
    /\ blacklist' = IF DevicesClaimed(c) THEN blacklist \ claimed[c]
                    ELSE blacklist
    /\ claimed' = [claimed EXCEPT ![c] = {}]
    /\ watcher' = [watcher EXCEPT ![c] = FALSE]

Next ==
    \E c \in Claimers :
        \/ Construct(c)
        \/ StartDBusNameWatcher(c)
        \/ \E d \in Devices : Claim(c, d) \/ Release(c, d)
        \/ Destroy(c)

Spec == Init /\ [][Next]_vars

-----------------------------------------------------------------------------

ClaimedByAnyone == UNION { claimed[c] : c \in Claimers }

\* No device stays blacklisted after every claimer that claimed it has
\* released it or been destroyed (the destructor's release loop and
\* Release's RemoveDeviceFromBlackList), and a dead claimer holds nothing.
NoOrphanBlacklisting ==
    /\ blacklist \subseteq ClaimedByAnyone
    /\ \A c \in Claimers : ~alive[c] => claimed[c] = {} /\ ~watcher[c]
=============================================================================

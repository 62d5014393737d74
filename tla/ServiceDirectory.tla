-------------------------- MODULE ServiceDirectory --------------------------
(***************************************************************************)
(* What the WiFi service directory promises (spec 3, 4.1, 4.2, 8, with the *)
(* retention of emptied hidden services the part_005 tests show), stated   *)
(* without service objects or their numbers: every known BSS belongs to    *)
(* the group of its key (SSID, mode, security class), a group exists while *)
(* it has a member or is hidden, and a hidden group may exist with no      *)
(* member.  WiFiServices implements it under the mapping given in       *)
(* MCWiFiServices.                                                         *)
(***************************************************************************)
EXTENDS FiniteSets, TLC

CONSTANTS
    BSSes,        \* supplicant handles
    Keys,         \* keys a BSS may report
    HiddenKeys    \* keys of the hidden services the user may configure

VARIABLES
    epKey,        \* handle -> key of the BSS it reports
    dir           \* key -> [members, hidden, favorite] of its group

dirVars == <<epKey, dir>>

\* The group with b taken out; an emptied group goes unless it is hidden.
Without(d, b) ==
    LET k == epKey[b]
        g == [d[k] EXCEPT !.members = @ \ {b}]
    IN  IF g.members # {} \/ g.hidden
        THEN [d EXCEPT ![k] = g]
        ELSE [x \in DOMAIN d \ {k} |-> d[x]]

\* The group of key k with b put in, a new visible one if k has none.
With(d, b, k) ==
    IF k \in DOMAIN d
    THEN [d EXCEPT ![k].members = @ \cup {b}]
    ELSE (k :> [members |-> {b}, hidden |-> FALSE, favorite |-> FALSE]) @@ d

\* A BSS reports key k: a new handle joins the group of k, a known one
\* whose key changed moves there.  A report of the same key changes nothing.
Report(b, k) ==
    /\ b \notin DOMAIN epKey \/ epKey[b] # k
    /\ epKey' = (b :> k) @@ epKey
    /\ dir' = With(IF b \in DOMAIN epKey THEN Without(dir, b) ELSE dir, b, k)

\* A BSS disappears and leaves its group.
Forget(b) ==
    /\ b \in DOMAIN epKey
    /\ epKey' = [x \in DOMAIN epKey \ {b} |-> epKey[x]]
    /\ dir' = Without(dir, b)

\* The user configures a hidden service for a key that has no group.
AddHidden(k, favorite) ==
    /\ k \in HiddenKeys \ DOMAIN dir
    /\ dir' = (k :> [members |-> {}, hidden |-> TRUE, favorite |-> favorite])
                @@ dir
    /\ UNCHANGED epKey

\* A group becomes a favorite.
Favor(k) ==
    /\ k \in DOMAIN dir /\ ~dir[k].favorite
    /\ dir' = [dir EXCEPT ![k].favorite = TRUE]
    /\ UNCHANGED epKey

Init == epKey = << >> /\ dir = << >>

Next ==
    \/ \E b \in BSSes, k \in Keys : Report(b, k)
    \/ \E b \in BSSes : Forget(b)
    \/ \E k \in HiddenKeys, f \in BOOLEAN : AddHidden(k, f)
    \/ \E k \in DOMAIN dir : Favor(k)

Spec == Init /\ [][Next]_dirVars
=============================================================================

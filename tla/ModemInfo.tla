----------------------------- MODULE ModemInfo -----------------------------
(***************************************************************************)
(* ModemInfo (modem_info.cc, embedded in src/net/netlink_packet.h from     *)
(* line 134): the Manager's owner of the cellular start-up resources.      *)
(* Start creates the activating-ICCID store and the operator info, opens   *)
(* the mobile provider database (which may fail, leaving provider_db_      *)
(* NULL) and registers three modem managers.  Stop releases all of them.   *)
(* The destructor calls Stop again, so Stop runs twice in the ordinary     *)
(* life of the object: Manager::Stop, then ~ModemInfo.                     *)
(*                                                                         *)
(* A provider database handle is the ordinal of the open call that         *)
(* returned it; 0 stands for NULL.  A modem manager is the D-Bus service   *)
(* it watches.                                                             *)
(***************************************************************************)
EXTENDS Naturals, Sequences, FiniteSets

CONSTANTS
    MaxStarts,   \* bound on the number of Start calls in a behaviour
    Links        \* link names DeviceInfo may report

ASSUME MaxStarts \in Nat \ {0}

NULL == 0

\* The services registered by Start, in registration order
\* (MM_MODEMMANAGER_SERVICE, kCromoService, MM_DBUS_SERVICE).
MMClassic == "org.freedesktop.ModemManager"
Cromo     == "org.chromium.ModemManager"
MM1       == "org.freedesktop.ModemManager1"
ServiceOrder == <<MMClassic, Cromo, MM1>>

VARIABLES
    alive,          \* the ModemInfo object exists (constructed, not destroyed)
    running,        \* the owning Manager has called Start and not yet Stop
    iccidStore,     \* activating_iccid_store_ is non-NULL
    operatorInfo,   \* cellular_operator_info_ is non-NULL
    providerDb,     \* provider_db_: a handle, or NULL
    opens,          \* number of mobile_provider_open_db calls so far
    dbs,            \* the calls that returned a handle (not NULL)
    closes,         \* closes[h]: mobile_provider_close_db calls on handle h
    modemManagers,  \* modem_managers_: the services of the owned managers
    delivered       \* delivered[s]: links forwarded to the manager of s

vars == <<alive, running, iccidStore, operatorInfo, providerDb, opens, dbs,
          closes, modemManagers, delivered>>

Services == {MMClassic, Cromo, MM1}
Handles == 1..MaxStarts

TypeOK ==
    /\ alive \in BOOLEAN /\ running \in BOOLEAN
    /\ iccidStore \in BOOLEAN /\ operatorInfo \in BOOLEAN
    /\ opens \in 0..MaxStarts
    /\ dbs \subseteq 1..opens
    /\ providerDb \in {NULL} \cup dbs
    /\ closes \in [Handles -> 0..2]
    /\ modemManagers \in Seq(Services)
    /\ delivered \in [Services -> SUBSET Links]

\* ModemInfo::ModemInfo: both stores and the database start out NULL.
Init ==
    /\ alive = TRUE /\ running = FALSE
    /\ iccidStore = FALSE /\ operatorInfo = FALSE
    /\ providerDb = NULL /\ opens = 0 /\ dbs = {}
    /\ closes = [h \in Handles |-> 0]
    /\ modemManagers = <<>>
    /\ delivered = [s \in Services |-> {}]

\* RegisterModemManager<mm>(service, path): a new manager is appended to
\* modem_managers_ (which takes ownership) and started.  Its deliveries
\* begin afresh, since it is a new object.
RegisterModemManager(mgrs, dlv, service) ==
    <<Append(mgrs, service), [dlv EXCEPT ![service] = {}]>>

\* The three registrations Start makes, in order.
RegisterAll(mgrs, dlv) ==
    LET r1 == RegisterModemManager(mgrs, dlv, ServiceOrder[1])
        r2 == RegisterModemManager(r1[1], r1[2], ServiceOrder[2])
    IN  RegisterModemManager(r2[1], r2[2], ServiceOrder[3])

OpenDbIgnoringFailure(ok) == opens + 1

\* mobile_provider_open_db: a fresh handle, or NULL when the database file
\* cannot be loaded (only a warning is logged).
OpenDb(ok) == IF ok THEN opens + 1 ELSE NULL

\* ModemInfo::Start, called from Manager::Start.  The old stores are
\* replaced (reset) and provider_db_ is overwritten without a close.
Start ==
    /\ alive /\ ~running /\ opens < MaxStarts
    /\ \E ok \in BOOLEAN :
         /\ providerDb' = OpenDb(ok)
         /\ opens' = opens + 1
         /\ dbs' = IF ok THEN dbs \cup {opens + 1} ELSE dbs
    /\ iccidStore' = TRUE /\ operatorInfo' = TRUE
    /\ LET r == RegisterAll(modemManagers, delivered)
       IN  modemManagers' = r[1] /\ delivered' = r[2]
    /\ running' = TRUE
    /\ UNCHANGED <<alive, closes>>

StopBodyKeepingDb ==
    /\ iccidStore' = FALSE /\ operatorInfo' = FALSE
    /\ closes' = IF providerDb # NULL
                 THEN [closes EXCEPT ![providerDb] = @ + 1]
                 ELSE closes
    /\ providerDb' = providerDb
    /\ modemManagers' = <<>>

StopBodyKeepingManagers ==
    /\ iccidStore' = FALSE /\ operatorInfo' = FALSE
    /\ closes' = IF providerDb # NULL
                 THEN [closes EXCEPT ![providerDb] = @ + 1]
                 ELSE closes
    /\ providerDb' = NULL
    /\ modemManagers' = modemManagers

\* The body of ModemInfo::Stop, shared by Manager::Stop and the destructor.
StopBody ==
    /\ iccidStore' = FALSE /\ operatorInfo' = FALSE
    /\ closes' = IF providerDb # NULL
                 THEN [closes EXCEPT ![providerDb] = @ + 1]
                 ELSE closes
    /\ providerDb' = NULL
    /\ modemManagers' = <<>>

\* ModemInfo::Stop, called from Manager::Stop.
Stop ==
    /\ alive
    /\ StopBody
    /\ running' = FALSE
    /\ UNCHANGED <<alive, opens, dbs, delivered>>

\* ModemInfo::~ModemInfo: Stop once more, then the object is gone.
Destroy ==
    /\ alive
    /\ StopBody
    /\ alive' = FALSE /\ running' = FALSE
    /\ UNCHANGED <<opens, dbs, delivered>>

\* ModemInfo::OnDeviceInfoAvailable(link_name): forwarded to every owned
\* manager, in order.
OnDeviceInfoAvailable(link) ==
    /\ alive
    /\ delivered' = [s \in Services |->
                       IF \E i \in DOMAIN modemManagers : modemManagers[i] = s
                       THEN delivered[s] \cup {link} ELSE delivered[s]]
    /\ UNCHANGED <<alive, running, iccidStore, operatorInfo, providerDb,
                   opens, dbs, closes, modemManagers>>

Next ==
    \/ Start
    \/ Stop
    \/ Destroy
    \/ \E l \in Links : OnDeviceInfoAvailable(l)

Spec == Init /\ [][Next]_vars

-----------------------------------------------------------------------------
(* Properties *)

\* Every provider database handle Start opened is closed exactly once,
\* except the one provider_db_ still holds, which is not closed at all.
\* Stop runs twice (Manager::Stop, then ~ModemInfo), and Start may run
\* again after a Stop; a Stop that closes without clearing provider_db_,
\* or a Start that overwrites an open handle, breaks this.
DbClosedExactlyOnce ==
    \A h \in dbs :
        closes[h] = IF h = providerDb THEN 0 ELSE 1

\* While the Manager runs ModemInfo, each modem-manager service is watched
\* by exactly one manager object; once stopped or destroyed, none is.  Two
\* managers of one service would each create a Cellular device for every
\* modem it exports.
OneManagerPerService ==
    \A s \in Services :
        Cardinality({i \in DOMAIN modemManagers : modemManagers[i] = s})
            = IF running THEN 1 ELSE 0
=============================================================================

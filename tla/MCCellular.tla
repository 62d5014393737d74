---------------------------- MODULE MCCellular ----------------------------
(***************************************************************************)
(* The cellular start-up owner ModemInfo and the 3GPP modem proxy checked  *)
(* in one model.  They share no state: a step is a step of one of them,    *)
(* the other standing still, so every interleaving of the Manager's        *)
(* Start/Stop/destroy sequence with the proxy's calls and replies is       *)
(* explored.  The proxy module is extended (its refinement mapping is      *)
(* checked as is); ModemInfo, which defines the same operator names, is a  *)
(* named instance.                                                         *)
(***************************************************************************)
EXTENDS Modem3gppProxy

CONSTANTS c1, c2, c3

VARIABLES     \* those of ModemInfo
    alive, running, iccidStore, operatorInfo, providerDb, opens, dbs,
    closes, modemManagers, delivered

MCLinks == {"wwan0", "usb0"}
MCCalls == {c1, c2, c3}

MI == INSTANCE ModemInfo WITH MaxStarts <- 3, Links <- MCLinks

miVars == <<alive, running, iccidStore, operatorInfo, providerDb, opens, dbs,
          closes, modemManagers, delivered>>

allVars == <<miVars, vars>>

CellularInit == MI!Init /\ Init

CellularNext ==
    \/ MI!Next /\ UNCHANGED vars
    \/ Next /\ UNCHANGED miVars

CellularSpec == CellularInit /\ [][CellularNext]_allVars /\ Fairness

-----------------------------------------------------------------------------
(* Properties: those of ModemInfo, renamed; the proxy's are its own        *)
(* TypeOK, CallbackOwnedByPendingCall and ImplementsContract.              *)

\* ModemInfo's state stays within its types.
ModemInfoTypeOK == MI!TypeOK

\* ModemInfo: each opened provider database handle is closed exactly once,
\* across Manager::Stop, the destructor's second Stop and later Starts.
DbClosedExactlyOnce == MI!DbClosedExactlyOnce

\* ModemInfo: while started, each modem-manager service has exactly one
\* manager; after Stop or destruction, none.
OneManagerPerService == MI!OneManagerPerService
=============================================================================

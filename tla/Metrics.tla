------------------------------ MODULE Metrics ------------------------------
(***************************************************************************)
(* The timer bookkeeping of Metrics (src/unnamed/part_001): per-device     *)
(* timers (time to initialize, enable, disable, scan, connect, scan and    *)
(* connect, and the cellular auto-connect total with its try count), the   *)
(* per-service state-transition timers added by                            *)
(* InitializeCommonServiceMetrics, and the resume-to-ready timer.          *)
(*                                                                         *)
(* A chromeos_metrics::TimerReporter (not part of src/) is abstracted to   *)
(* whether it is running: Start starts or restarts it, Stop returns false  *)
(* when it is not running and otherwise stops it, Reset stops it without a *)
(* sample.  Elapsed time matters only where the code compares it with a    *)
(* histogram maximum; there it is a nondeterministic "overlong" flag.  The *)
(* histogram samples a step sends are the set sent: <<owner, timer>> for a *)
(* timer sample, <<owner, name>> for another sample.                       *)
(* A notification for an unregistered device or service returns without   *)
(* effect (GetDeviceMetrics returns NULL; DCHECK in a debug build): such    *)
(* steps are stuttering and not written out.                               *)
(***************************************************************************)
EXTENDS Naturals, FiniteSets

CONSTANTS
    Interfaces,   \* interface indices of devices
    Services,     \* services
    MaxTries,     \* bound on auto_connect_tries
    Technologies  \* Technology::Identifier of default services, not kUnknown

VARIABLES
    devices,      \* devices_metrics_: interface -> DeviceMetrics
    svcMetrics,   \* services_metrics_: service -> its transition timers
    resumeTimer,  \* time_resume_to_ready_timer_ is running
    lastTech,     \* last_default_technology_
    wasOnline,    \* was_online_
    onlineTimer,  \* time_online_timer_ has been started
    dropTimer,    \* time_to_drop_timer_ has been started
    termTimer,    \* time_termination_actions_timer has started
    sent          \* the samples the last step sent

defaultVars == <<lastTech, wasOnline, onlineTimer, dropTimer, termTimer>>
vars == <<devices, svcMetrics, resumeTimer, defaultVars, sent>>

Unknown == "unknown"   \* Technology::kUnknown

DeviceTimers == {"initialization", "enable", "disable", "scan", "connect",
                 "scanConnect", "autoConnect"}

ConnectStates == {"idle", "associating", "configuring", "connected",
                  "portal", "online", "failure"}

\* InitializeCommonServiceMetrics: name, start state, stop state.
TransitionTimers ==
    {[name |-> "TimeToConfig", start |-> "configuring", stop |-> "connected"],
     [name |-> "TimeToPortal", start |-> "connected", stop |-> "portal"],
     [name |-> "TimeToOnline", start |-> "connected", stop |-> "online"]}
TimerNamesOf(states) == { t.name : t \in states }

\* A device record and the samples a handler sends, as one value.
Out(d, s) == [dm |-> d, sent |-> s]
Run(d, t) == [d EXCEPT !.timer[t] = TRUE]
Halt(d, t) == [d EXCEPT !.timer[t] = FALSE]

\* RegisterDevice: a new DeviceMetrics with every timer created and the
\* initialization timer started.
NewDeviceMetrics == [timer |-> [t \in DeviceTimers |-> t = "initialization"],
                     tries |-> 0]

\* Mutant: the sample is sent whatever Stop() returned.
StopAndReportUnchecked(i, d, t) == Out(Halt(d, t), {<<i, t>>})

\* Stop-and-report of NotifyDeviceInitialized, ...EnableFinished and
\* ...DisableFinished: no sample when Stop() fails.
StopAndReport(i, d, t) ==
    IF ~d.timer[t] THEN Out(d, {}) ELSE Out(Halt(d, t), {<<i, t>>})

\* NotifyDeviceScanFinished: no TimeToScan sample for an overlong scan.
ScanFinished(i, d, overlong) ==
    IF ~d.timer["scan"] THEN Out(d, {})
    ELSE Out(Halt(d, "scan"), IF overlong THEN {} ELSE {<<i, "scan">>})

\* AutoConnectMetricsReset.
AutoConnectMetricsReset(d) == [Halt(d, "autoConnect") EXCEPT !.tries = 0]

\* NotifyDeviceConnectStarted.
ConnectStarted(d, auto) ==
    LET d1 == Run(d, "connect")
    IN  IF auto
        THEN LET d2 == [d1 EXCEPT !.tries = @ + 1]
             IN  IF d2.tries = 1 THEN Run(d2, "autoConnect") ELSE d2
        ELSE AutoConnectMetricsReset(d1)

\* The scan-and-connect tail of NotifyDeviceConnectFinished.
ScanConnectTail(i, d, s) ==
    IF ~d.timer["scanConnect"] THEN Out(d, s)
    ELSE Out(Halt(d, "scanConnect"), s \cup {<<i, "scanConnect">>})

\* NotifyDeviceConnectFinished: report the connect time; after auto-connect
\* tries, stop the auto-connect timer and, unless it is not running or ran
\* past kMetricCellularAutoConnectTotalTimeMax, report it with the try
\* count and reset both; then report the scan-and-connect time.  Each
\* "return" ends the handler.
ConnectFinished(i, d, overlong) ==
    IF ~d.timer["connect"] THEN Out(d, {})
    ELSE LET d1 == Halt(d, "connect")
             s1 == {<<i, "connect">>}
         IN  IF d1.tries = 0 THEN ScanConnectTail(i, d1, s1)
             ELSE IF ~d1.timer["autoConnect"] THEN Out(d1, s1)
             ELSE IF overlong THEN Out(Halt(d1, "autoConnect"), s1)
             ELSE ScanConnectTail(i,
                    AutoConnectMetricsReset(d1),
                    s1 \cup {<<i, "autoConnect">>, <<i, "autoConnectTries">>})

\* UpdateServiceStateTransitionMetrics: start the timers that start on
\* the new state, then stop, and report if they were running, the timers
\* that stop on it.
UpdateTransitionTimers(sv, m, new) ==
    LET started == [n \in DOMAIN m |->
                      m[n] \/ \E t \in TransitionTimers : t.name = n /\ t.start = new]
        stopping == { t.name : t \in { t \in TransitionTimers : t.stop = new } }
    IN  Out([n \in DOMAIN m |-> started[n] /\ n \notin stopping],
            { <<sv, n>> : n \in { n \in stopping : started[n] } })

-----------------------------------------------------------------------------

Init ==
    /\ devices = [i \in {} |-> NewDeviceMetrics]
    /\ svcMetrics = [sv \in {} |-> {}]
    /\ resumeTimer = FALSE
    /\ lastTech = Unknown /\ wasOnline = FALSE
    /\ onlineTimer = FALSE /\ dropTimer = FALSE /\ termTimer = FALSE
    /\ sent = {}

\* A step on device i's record: r is Out(new record, samples).
DeviceStep(i, r) ==
    /\ devices' = [devices EXCEPT ![i] = r.dm]
    /\ sent' = r.sent
    /\ UNCHANGED <<svcMetrics, resumeTimer, defaultVars>>

\* RegisterDevice: a repeated registration replaces the record.
RegisterDevice(i) ==
    /\ devices' = [j \in DOMAIN devices \cup {i} |->
                     IF j = i THEN NewDeviceMetrics ELSE devices[j]]
    /\ sent' = {}
    /\ UNCHANGED <<svcMetrics, resumeTimer, defaultVars>>

DeregisterDevice(i) ==
    /\ i \in DOMAIN devices
    /\ devices' = [j \in DOMAIN devices \ {i} |-> devices[j]]
    /\ sent' = {}
    /\ UNCHANGED <<svcMetrics, resumeTimer, defaultVars>>

\* NotifyDeviceInitialized, ...EnableFinished, ...DisableFinished.
NotifyDeviceTimerFinished(i, t) ==
    /\ i \in DOMAIN devices
    /\ DeviceStep(i, StopAndReport(i, devices[i], t))

\* NotifyDeviceEnableStarted, NotifyDeviceDisableStarted.
NotifyDeviceTimerStarted(i, t) ==
    /\ i \in DOMAIN devices
    /\ DeviceStep(i, Out(Run(devices[i], t), {}))

\* NotifyDeviceScanStarted: starts the scan and scan-and-connect timers.
NotifyDeviceScanStarted(i) ==
    /\ i \in DOMAIN devices
    /\ DeviceStep(i, Out(Run(Run(devices[i], "scan"), "scanConnect"), {}))

NotifyDeviceScanFinished(i, overlong) ==
    /\ i \in DOMAIN devices
    /\ DeviceStep(i, ScanFinished(i, devices[i], overlong))

\* ResetScanTimer.
ResetScanTimer(i) ==
    /\ i \in DOMAIN devices
    /\ DeviceStep(i, Out(Halt(devices[i], "scan"), {}))

NotifyDeviceConnectStarted(i, auto) ==
    /\ i \in DOMAIN devices
    /\ auto => devices[i].tries < MaxTries
    /\ DeviceStep(i, Out(ConnectStarted(devices[i], auto), {}))

NotifyDeviceConnectFinished(i, overlong) ==
    /\ i \in DOMAIN devices
    /\ DeviceStep(i, ConnectFinished(i, devices[i], overlong))

\* ResetConnectTimer: stops the connect and scan-and-connect timers.
ResetConnectTimer(i) ==
    /\ i \in DOMAIN devices
    /\ DeviceStep(i, Out(Halt(Halt(devices[i], "connect"), "scanConnect"), {}))

\* RegisterService with InitializeCommonServiceMetrics: three stopped
\* transition timers; a repeated registration replaces them.
RegisterService(sv) ==
    /\ svcMetrics' = [x \in DOMAIN svcMetrics \cup {sv} |->
                        IF x = sv THEN [n \in TimerNamesOf(TransitionTimers) |-> FALSE]
                        ELSE svcMetrics[x]]
    /\ sent' = {}
    /\ UNCHANGED <<devices, resumeTimer, defaultVars>>

DeregisterService(sv) ==
    /\ sv \in DOMAIN svcMetrics
    /\ svcMetrics' = [x \in DOMAIN svcMetrics \ {sv} |-> svcMetrics[x]]
    /\ sent' = {}
    /\ UNCHANGED <<devices, resumeTimer, defaultVars>>

\* NotifyServiceStateChanged: the transition timers, a failure sample on
\* Failure, and on Connected the resume-to-ready time, which is read and
\* the timer reset (the service sends it only when it is positive, that
\* is when the timer was running).
NotifyServiceStateChanged(sv, new) ==
    /\ sv \in DOMAIN svcMetrics
    /\ LET r == UpdateTransitionTimers(sv, svcMetrics[sv], new)
       IN  /\ svcMetrics' = [svcMetrics EXCEPT ![sv] = r.dm]
           /\ sent' = r.sent
                      \cup (IF new = "failure" THEN {<<sv, "ServiceErrors">>} ELSE {})
                      \cup (IF new = "connected" /\ resumeTimer
                            THEN {<<"metrics", "TimeResumeToReady">>} ELSE {})
    /\ resumeTimer' = IF new = "connected" THEN FALSE ELSE resumeTimer
    /\ UNCHANGED <<devices, defaultVars>>

\* NotifySuspendDone.
NotifySuspendDone ==
    /\ resumeTimer' = TRUE
    /\ sent' = {}
    /\ UNCHANGED <<devices, svcMetrics, defaultVars>>

\* Mutant: last_default_technology_ is updated before the TimeOnline
\* histogram name is built from it.
TimeOnlineSampleRenamed(technology) ==
    IF technology # lastTech /\ lastTech # Unknown
    THEN {<<technology, "TimeOnline">>} ELSE {}

\* The TimeOnline sample of NotifyDefaultServiceChanged: on a change of
\* default technology, the time online of the previous one (unless it
\* was kUnknown), named after that technology.
TimeOnlineSample(technology) ==
    IF technology # lastTech /\ lastTech # Unknown
    THEN {<<lastTech, "TimeOnline">>} ELSE {}

\* NotifyDefaultServiceChanged(service): present is service != NULL, tech
\* its technology.  A change of technology sends the previous one's time
\* online and restarts time_online_timer_; then only an online/offline
\* transition goes on: going offline sends TimeToDrop, going online starts
\* time_to_drop_timer_, and was_online_ follows.
NotifyDefaultServiceChanged(present, tech) ==
    LET technology == IF present THEN tech ELSE Unknown
        transition == present # wasOnline
    IN  /\ lastTech' = technology
        /\ onlineTimer' = (onlineTimer \/ technology # lastTech)
        /\ dropTimer' = (dropTimer \/ (transition /\ present))
        /\ wasOnline' = present
        /\ sent' = TimeOnlineSample(technology)
                   \cup (IF transition /\ ~present
                         THEN {<<"metrics", "TimeToDrop">>} ELSE {})
        /\ UNCHANGED <<devices, svcMetrics, resumeTimer, termTimer>>

\* NotifyTerminationActionsStarted: ignored while the timer runs.
NotifyTerminationActionsStarted ==
    /\ termTimer' = TRUE
    /\ sent' = {}
    /\ UNCHANGED <<devices, svcMetrics, resumeTimer, lastTech, wasOnline,
                   onlineTimer, dropTimer>>

\* NotifyTerminationActionsCompleted(reason, success): nothing unless the
\* timer has started; otherwise the elapsed time and the result are sent
\* and the timer reset.  The reason only names the histograms.
NotifyTerminationActionsCompleted ==
    /\ termTimer
    /\ termTimer' = FALSE
    /\ sent' = {<<"metrics", "TerminationActionTime">>,
                 <<"metrics", "TerminationActionResult">>}
    /\ UNCHANGED <<devices, svcMetrics, resumeTimer, lastTech, wasOnline,
                   onlineTimer, dropTimer>>

Next ==
    \/ \E i \in Interfaces :
         \/ RegisterDevice(i) \/ DeregisterDevice(i)
         \/ \E t \in {"initialization", "enable", "disable"} :
              NotifyDeviceTimerFinished(i, t)
         \/ \E t \in {"enable", "disable"} : NotifyDeviceTimerStarted(i, t)
         \/ NotifyDeviceScanStarted(i) \/ ResetScanTimer(i) \/ ResetConnectTimer(i)
         \/ \E b \in BOOLEAN :
              \/ NotifyDeviceScanFinished(i, b)
              \/ NotifyDeviceConnectStarted(i, b)
              \/ NotifyDeviceConnectFinished(i, b)
    \/ \E sv \in Services :
         \/ RegisterService(sv) \/ DeregisterService(sv)
         \/ \E new \in ConnectStates : NotifyServiceStateChanged(sv, new)
    \/ NotifySuspendDone
    \/ \E t \in Technologies : NotifyDefaultServiceChanged(TRUE, t)
    \/ NotifyDefaultServiceChanged(FALSE, Unknown)
    \/ NotifyTerminationActionsStarted \/ NotifyTerminationActionsCompleted

Spec == Init /\ [][Next]_vars

-----------------------------------------------------------------------------

\* Whether the timer named by a sample was running, in the record of its
\* owner, before (run = "before") or after the step.
TimerOf(o, t) ==
    IF o \in DOMAIN devices /\ t \in DeviceTimers THEN devices[o].timer[t]
    ELSE IF o \in DOMAIN svcMetrics /\ t \in DOMAIN svcMetrics[o]
    THEN svcMetrics[o][t]
    ELSE IF o = "metrics" /\ t = "TerminationActionTime" THEN termTimer
    ELSE IF o = "metrics" THEN resumeTimer
    ELSE FALSE

TimerSamples(s) ==
    { x \in s : x[2] \notin {"autoConnectTries", "ServiceErrors", "TimeOnline",
                         "TimeToDrop", "TerminationActionResult"} }

\* Every timer sample measures one interval: it is sent only in a step
\* that stops a timer that was running, so a repeated or unmatched
\* finish notification (EnableFinished twice, Connected twice after one
\* resume) never sends a second sample.
SampleOnlyFromRunningTimer ==
    [][\A x \in TimerSamples(sent') :
         TimerOf(x[1], x[2]) /\ ~TimerOf(x[1], x[2])']_vars

\* The default-service timers measure whole periods: a TimeOnline sample
\* for technology t is sent only when t stops being the default
\* technology, and t has been the default since time_online_timer_ last
\* started; a TimeToDrop sample only when the system goes offline after
\* an online period that started time_to_drop_timer_.  Switching between
\* two online services (wired to wireless) sends no TimeToDrop.
DefaultServiceSamplesEndTheirPeriod ==
    [][/\ \A t \in Technologies :
            <<t, "TimeOnline">> \in sent' =>
                lastTech = t /\ onlineTimer /\ lastTech' # t
       /\ <<"metrics", "TimeToDrop">> \in sent' =>
                dropTimer /\ wasOnline /\ ~wasOnline']_vars

\* After an auto-connect try, the auto-connect timer runs until the
\* connection finishes, so AutoConnectTotalTime measures from the first
\* try; the try count and the timer are reset together.
AutoConnectTimedFromFirstTry ==
    \A i \in DOMAIN devices :
        devices[i].tries > 0 => devices[i].timer["autoConnect"]
====

# TLA+ models of the shill connection manager (this source tree)

This directory holds TLA+ models of the parts of the connection manager
under `src/`, the TLC configurations that check them, and `PROJECT.json`.
That file records the components, the runs, the mutants, the mapping from
definitions to source lines, the findings and the hazards.

## The system and its parts

The `src/` tree is a slice of the daemon. Several files are concatenations
of more than one source file.

| Part | Source | What it does | Interacts with |
|---|---|---|---|
| WiFi endpoint | `wifi_endpoint.cc` | Builds an endpoint (one BSS) from the property bag wpa_supplicant sends. It parses the mode and derives the security class from the RSN, WPA and Privacy properties. | The WiFi device, which creates one per BSSAdded signal. |
| WiFi device | `wifi.h` (wifi.cc is absent) | Keeps the endpoint map and the services (ESSes). It connects through supplicant network entries, follows CurrentBSS and State signals through the event dispatcher, and runs the pending, reconnect and scan timers. | wpa_supplicant over D-Bus; the endpoints. |
| Device claimer | `device_claimer.cc` | A D-Bus client may claim interfaces. Claimed names go on the DeviceInfo blacklist; Release and the destructor take them off. | DeviceInfo (shared by all claimers); the D-Bus name watcher. |
| CDMA capability | `unnamed/part_010`, `cellular_capability_cdma.h` | Activation and registration of a CDMA modem. | Cellular (its state machine and Disconnect); ModemManager (proxy calls and signals); the D-Bus caller of Activate. |
| Memory log | `unnamed/part_000` (from line 100) | A byte-bounded deque of recent log lines. A log-handler interceptor feeds it. MLOG lines are appended directly and also sent to base logging with a `memlog: ` prefix, which the interceptor skips. | The base/logging handler chain; other components' handlers. |
| Modem info | `modem_info.cc`, inside `net/netlink_packet.h` (lines 134-259) | On Start it creates the ICCID store and operator info, opens the mobile provider database and registers three modem managers. Stop releases them. | The Manager (Start, Stop, destruction); DeviceInfo (OnDeviceInfoAvailable); the modem managers. |
| ModemManager1 3GPP proxy | `mm1_modem_modem3gpp_proxy.cc` (lines 1-84) | Asynchronous Register and Scan calls, with heap-allocated callbacks that are handed to D-Bus. | The 3GPP capability (the caller); the D-Bus connection (replies and timeouts). |
| WiMax device | `unnamed/part_002` (header, lines 1-120; wimax.cc is absent), `wimax_unittest.cc` | Enables the WiMaxManager's RPC device through a proxy, connects a pending service and learns the outcome from status signals, the Connect reply or a connect timeout. | The WiMax provider (networks, device vanishing); its services (OnServiceStopped); the RPC device (signals and replies). |
| Metrics | `unnamed/part_001` | Per-device and per-service timers that become UMA samples. | Device, service and manager notifications. |

Also present, and not modelled (see "Not modelled"):

- `error.cc`, inside the D-Bus XML file;
- headers, mocks and unit tests.

## Modules

| Module | Models | State (VARIABLES ↔ code) | Actions |
|---|---|---|---|
| `WiFiEndpoint` | `wifi_endpoint.cc` | `props` (the signal's bag), `endpoint` (the constructed object, or `Crash`) | `Construct`, `Destroy` |
| `WiFiServices` | endpoint registry and service directory (spec_modelled) | `endpoints` ↔ `endpoint_by_rpcid_`; `services` ↔ the service list | `BSSAdded`, `BSSRemoved`, `CreateHiddenService`, `MakeFavorite` |
| `WiFi` | the WiFi controller (spec_modelled), composing `WiFiServices` through `R == INSTANCE` and adding a wpa_supplicant environment | `current`, `pending`, `networks` ↔ `current_service_`, `pending_service_`, `rpcid_by_service_`; timer flags ↔ the cancelable callbacks; `events` is the dispatcher queue | `ConnectTo`, `DisconnectFrom`, the dispatcher tasks (`CurrentBSSChanged`, `StateChanged`, `BSSAddedSignal`, ...), the timer handlers, and `Supp*` environment steps |
| `DeviceClaimer` | `device_claimer.cc` | `alive`, `claimed` ↔ `claimed_device_names_`, `watcher` ↔ `dbus_name_watcher_`, `blacklist` (DeviceInfo) | `Construct`, `StartDBusNameWatcher`, `Claim`, `Release`, `Destroy` |
| `CDMAActivation` | `part_010` | `starting` ↔ `activation_starting_`, `actState` ↔ `activation_state_`, `pending` ↔ `pending_activation_callback_`, `reg1x`/`regEvdo`, the service properties; `cstate`, `disconnecting`, `inflight`, `replies` are the environment | `Activate`, `OnActivateReply`, `DisconnectDone` (then `DisconnectCleanup`), `OnActivationStateChangedSignal`, `StartModem` (with `UpdateStatus`), `OnRegistrationStateChangedSignal`, environment steps |
| `MemoryLog` | `part_000` | `log` ↔ `log_` (message sizes), `current` ↔ `current_size_bytes_`, `maximum` ↔ `maximum_size_bytes_`, `handler` ↔ the base/logging handler, `nested` ↔ `nested_message_handler`, `otherSaved` (another component's handler and what it replaced); `history` and `installed` are ghost state | `LOG` and `MLOG` (through `LogMessageInterceptor`, `MemoryLogMessage` and `Append`), `Clear`, `SetMaximumSize`, `FlushToDisk`, `InstallLogInterceptor`, `UninstallLogInterceptor`, and the other handler installed or removed |
| `ModemInfo` | `net/netlink_packet.h:177-255` | `iccidStore`, `operatorInfo`, `providerDb` ↔ the members of the same names (a database handle is the ordinal of its open call), `modemManagers` ↔ `modem_managers_` (each manager is the service it watches); `opens`, `dbs`, `closes` and `delivered` are ghost state; `running` is the Manager's state | `Start` (with `RegisterModemManager` three times), `Stop`, `Destroy` (the destructor), `OnDeviceInfoAvailable` |
| `Modem3gppProxy` | `mm1_modem_modem3gpp_proxy.cc:15-81` | `heap` (the live callback copies), `status` (unissued, in flight, failed at once, answered), `runs` (times each callback ran), `errorSet` (whether the caller's Error was filled in) | `Register`, `Scan` (the shared body `Issue`), `RegisterCallback`, `ScanCallback` (the shared body `Reply`) |
| `ServiceDirectory` | what the service directory promises (abstract), with no service objects | `epKey` (handle to key), `dir` (key to members and flags) | `Report`, `Forget`, `AddHidden`, `Favor` |
| `ProxyCallContract` | what an asynchronous proxy promises (abstract) | `callState`, `replies` | `Issue`, `FailAtOnce`, `Answer` |
| `WiMax` | the WiMax device, from the header and the unit tests | `proxy` ↔ `proxy_`, `pending` ↔ `pending_service_`, `selected` ↔ the Device's selected service, `status` ↔ `status_`, `networks` ↔ `networks_`, `timer` ↔ `connect_timeout_callback_`; `svcState` and `cleared` are the services' states and wiped passphrases; `connectsOut`, `enablesOut`, `disablesOut` are RPCs awaiting a reply; `reachedConnecting` is ghost state | `Start`, `Stop`, `OnEnableComplete`, `OnDisableComplete`, `OnNetworksChanged`, `ConnectTo`, `OnConnectComplete`, `OnStatusChanged`, `OnConnectTimeout`, `OnServiceStopped`, `OnDeviceVanished`; helpers `DropService`, `StartConnectTimeout` |
| `Metrics` | `part_001` | `devices` ↔ `devices_metrics_` (timers as running flags, `auto_connect_tries`), `svcMetrics` ↔ `services_metrics_`, `resumeTimer`, `lastTech`/`wasOnline` ↔ `last_default_technology_`/`was_online_`, `onlineTimer`, `dropTimer`, `termTimer` ↔ the time-online, time-to-drop and termination-action timers; `sent` is the samples of the last step | one action per Notify*/Register*/Reset* handler |

Each `MC*` module instantiates its module with model values and small
definitions. `MCCellular` composes two components in one run: it extends
`Modem3gppProxy` and takes `ModemInfo` as the named instance `MI` (both
define `Init`, `Next` and `TypeOK`); a step is a step of one of them with
the other unchanged.

### Modelling notes

- **Whole handlers.** An action is a whole handler.
  - `Append` includes its `ShrinkToTargetSize`.
  - `DisconnectDone` is the completion of `Cellular::Disconnect`, followed by `DisconnectCleanup`.
  - `NotifyServiceStateChanged` includes the transition timers, `SendServiceFailure` and the resume-to-ready read and reset.
  - `OnRegistrationStateChangedSignal` includes `Cellular::HandleNewRegistrationState`. That call creates the service (`OnServiceCreated`) or destroys it.
- **Abstracted data.** A message is its size. A timer is whether it is running. Elapsed time appears only where the code compares it with a maximum, as a nondeterministic `overlong` flag. A key-management method is a sequence of dash-separated tokens.
- **CDMA signals.** The activation and registration signals are guarded by the modem being started. The proxy (and so its signal connections) exists only between `InitProxies` in `StartModem` and `ReleaseProxies`.
- **Undefined behaviour.** In `WiFiEndpoint`, a BSSID shorter than six bytes is a read past the vector. It is a nondeterministic choice between a crash and carrying on.
- **Handler chain.** Nothing in the tree calls `InstallLogInterceptor`. The model's callers install only while the interceptor is not installed; installing twice is a hazard, see `PROJECT.json`. The other handler stands for any scoped handler: it is installed over the current one, put back only while it is on top, and does not chain.
- **ModemInfo's environment.** The Manager calls Start only after a Stop (or first), and Stop at any time. The destructor ends the run, so deadlock is not checked.
- **Proxy.** A call's method (Register or Scan) is fixed when the call is issued. The D-Bus layer either queues the call or throws synchronously. A queued call is later answered by a reply, an error or a timeout, all of which reach the same handler.
- **WiMax from its tests.** wimax.cc is not in the tree and `spec.md` does not mention WiMax. `WiMax` follows what `wimax_unittest.cc` asserts, and each action is mapped to the test it comes from. Where no test decides, the model takes the least it can: a successful Connect reply changes nothing, Disable's reply only runs the callback, and Stop leaves a selected service alone. Status Connected is not tested; it selects the pending service, sets it Configuring and stops the timeout, which is what the header's IsIdle comment ("connecting or connected") implies. Only a transition out of Connecting fails an attempt, as the tests show. Stop and ConnectTo run only while `proxy_` exists. The provider destroys the device after OnDeviceVanished, so that step ends the run.
- **Spec-modelled parts.** wifi.cc is not in the tree, so `WiFi` and `WiFiServices` follow `spec.md`. The unit tests of `part_005` decide where the spec is silent: for example, WPA, RSN and PSK share one grouping class. Where a test contradicts the spec, the model follows the test (see retention of hidden services below). Their map entries are marked `spec_modelled`, except where `wifi.h` itself states the behaviour. That is the connection protocol comment (lines 19-67) and the method comments of DisconnectFrom, the timers and SetPendingService. Those entries point at those lines.

## Runs

| Run | Checks | Bounds | Result |
|---|---|---|---|
| endpoint | TypeOK, SecurityIsStrongestAdvertised | all well-formed bags over 7 RSN/WPA dictionaries × 2 modes × Privacy | pass, 972 states |
| endpoint_crash | NeverCrashes | as endpoint | violation (finding 1) |
| services | RegTypeOK, EndpointInOneService, GroupingByKey, ImplementsDirectory | 2 BSSes whose reports change SSID and security, 1 hidden SSID, 3 services | pass, 9,021 states |
| wifi | TypeOK, SlotsDistinct, NetworkEntriesOwned, HiddenBSSJoinsHiddenService, PendingResolves | 2 BSSes (one hidden), 3 services, 2 network handles, 1 spontaneous signal queued, station reports `completed` and `associating` | pass, 329,103 states (3 to 4 minutes) |
| claimer | NoOrphanBlacklisting | 2 claimers, 3 devices | pass, 973 states |
| cdma | TypeOK, ServiceShowsActivationState, StartingOnlyWhileRequested, CallbackAtMostOnce, EveryActivateAnswered | 1 caller, 3 activation states, 2 errors, 2 registration states | pass, 840 states |
| cdma_lost | EveryActivateAnswered | 2 callers | violation (finding 2) |
| memlog | SizeAccounting, KeepsNewestThatFit, ChainIntact, EveryStatementRecordedOnce | sizes {1,3}, limits {0,2,4}, 4 messages, interceptor plus one other handler | pass, 4,557 states |
| metrics | SampleOnlyFromRunningTimer, DefaultServiceSamplesEndTheirPeriod | 1 device, 1 service, 2 auto-connect tries, 2 technologies | pass, 286,336 states |
| metrics_auto | AutoConnectTimedFromFirstTry | as metrics | violation (finding 3) |
| wimax | TypeOK, PendingGuardedByTimeout, FailureOnlyAfterOwnConnecting, PendingResolves | 2 services, 1 network path, up to 2 Connect replies outstanding, every status signal and reply at any time | pass, 68,832 states |
| cellular (`MCCellular`) | ModemInfoTypeOK, DbClosedExactlyOnce, OneManagerPerService, TypeOK, CallbackOwnedByPendingCall, ImplementsContract | ModemInfo with 3 Starts (each open may fail) and 2 links, interleaved with the proxy's 3 calls (each Register or Scan, throwing or queued, each reply an error or not) | pass, 87,040 states |

**Why the bounds suffice.** Each bound is the smallest that makes the interesting case happen:

- two BSSes, so one can move between services while the other stays;
- a queued signal, so a stale CurrentBSS can race ConnectTo;
- station reports `completed` and `associating`, so a report can move backwards and a drop from `completed` arms the reconnect timer. A `disconnected` report adds nothing here: it follows the CurrentBSS(NULL) event, which has already cleared `current_service_`;
- two callers, so one can overwrite the other;
- sizes 1 and 3 against limits 2 and 4, so a message fits exactly, partly or not at all;
- a limit of 0, so the log empties;
- two default-service technologies and no service, so that the default moves between two online technologies (no drop) and through offline (a drop);
- three Starts with a possibly failing open, so that a good handle follows a NULL one and Stop runs on both;
- three proxy calls, so that a Register and a Scan are in flight while a third fails at once;
- two WiMax services and two Connect replies in flight, so that a second attempt starts while signals and the reply of the first are still queued; one network path, since networks only feed the provider.

**What the properties say.**

- `SecurityIsStrongestAdvertised`: the endpoint's security is the strongest method advertised (802.1x > RSN-PSK > WPA-PSK > WEP > open). This is a reference definition checked against `ParseSecurity` over every bag.
- `PendingResolves`: every pending connection eventually stops pending.
- `NoOrphanBlacklisting`: no device is blacklisted that no claimer holds, and a destroyed claimer holds nothing.
- `CallbackAtMostOnce` and `EveryActivateAnswered`: each Activate caller gets exactly one reply.
- `KeepsNewestThatFit`: the log equals the longest suffix of the appended messages that fits the limit. This is a reference definition.
- `ChainIntact`: following each handler to the one it replaced reaches exactly the installed handlers and then NULL, without a cycle.
- `EveryStatementRecordedOnce`: an action property; an MLOG line is appended exactly once, and a LOG line exactly when the interceptor is the current handler. A line is modelled as its pieces (header, `memlog: ` prefix, text) with `message_start` an offset into them, so the MLOG half depends on `MemoryLogMessage::Init` recording `message_start_` before it streams the prefix.
- `DbClosedExactlyOnce`: every provider database handle is closed exactly once, except the one `provider_db_` still holds.
- `OneManagerPerService`: while running, one manager per modem-manager service; none after Stop.
- `CallbackOwnedByPendingCall`: the live callback copies are exactly those of calls in flight.
- `ImplementsDirectory`: a refinement; `WiFiServices` implements `ServiceDirectory` under the mapping `DirKeys`, `DirGroups` (the key of each endpoint; per key, the members and flags of its registered service). Numbered service objects, reused numbers, emptied hidden services kept dormant and regrouping on a security change never show as a directory step the abstract specification forbids.
- `ImplementsContract`: a refinement; `Modem3gppProxy` implements `ProxyCallContract`. Each call is answered exactly once, at once or by its callback, and every queued call is eventually answered.
- `PendingGuardedByTimeout`: a WiMax service is pending only while the connect timeout is scheduled.
- `FailureOnlyAfterOwnConnecting`: an action property; a status update fails the pending WiMax service (and wipes its passphrase) only if this attempt itself reached Connecting. ConnectTo resetting `status_` is what makes it hold: without the reset a Connecting reported before the attempt, followed by Scanning, fails it.
- `PendingResolves` (WiMax): every connection attempt eventually stops pending.
- `SampleOnlyFromRunningTimer`: an action property; no step sends a timer sample unless that timer was running before the step and is stopped after it. This includes the termination-action timer, whose second Started is ignored.
- `DefaultServiceSamplesEndTheirPeriod`: an action property; a time-online sample names the technology whose default period just ended, and a time-to-drop sample is sent only when an online spell ends, never on a switch between two online services.

Every property of a passing run has a mutant (`PROJECT.json`, "mutants"): a
plausible bug in the mapped code under which TLC finds the property violated.

## Fairness

- **WiFi.** Weak fairness on the dispatcher and on the pending and reconnect timers. The event loop runs every posted task and every expired timer. User requests and radio events get none.
- **CDMA.** Weak fairness on each proxy reply and on the completion of `Cellular::Disconnect`. Every D-Bus call carries a timeout (`kTimeoutActivate`) and is answered by a reply or an error. ModemManager's own signals and the user get none.
- **Proxy.** Weak fairness on each call's reply handler. Every call carries a timeout (`timeout` argument), so the connection dispatches a reply, an error or the timeout.
- **WiMax.** Weak fairness on the connect timeout only: the event loop runs a scheduled timer. The RPC device's signals, the Connect, Enable and Disable replies, the provider and the services get none, so `PendingResolves` rests on the timeout alone.
- **All other modules** check safety only.

## Findings

1. **`wifi_endpoint.cc:25-37, 105, 108`.**
   - A bag missing a required key dereferences `end()`.
   - An access-point or unknown mode assigns `NULL` to a `std::string`.
   - Both end the process. The file's own comment admits the first.
2. **`part_010:158`.**
   - A second `Activate` while connected overwrites `pending_activation_callback_`.
   - The first caller's D-Bus reply is never sent.
3. **`part_001:960`.**
   - The over-long auto-connect path returns without `AutoConnectMetricsReset`.
   - `auto_connect_tries` stays positive with the timer stopped.
   - All later auto-connect reports are lost until a manual connect.

### Observed, not run

- **Late Connect error (WiMax).** `OnConnectComplete` carries no attempt identity. The error reply of a Connect whose attempt already ended by timeout can arrive after the next `ConnectTo` and fail the new service. `MCWiMax` reaches this. No source says a late reply must be ignored, so it is a hazard, not a run.

- **Key management.** `wifi_endpoint.cc:146`: a network advertising only a key-management method that ends in neither `-eap` nor `-psk` (for example SAE) is classified `wep` or `none`. `spec.md` section 6 says such a BSS is never WEP or open. An invariant over the endpoint bags, checked by TLC, found it violated; that run is no longer kept.
- **Retention of emptied hidden services.** `spec.md` sections 3, 4.1 and 8 keep a service that loses its last endpoint only when it is hidden and favorite. The test `LoneBSSRemovedWhileConnectedToHidden` (`part_005:579-601`) keeps a hidden service that was never made a favorite (`ScanHidden`, lines 1073-1099, shows that favorites come only from `MakeFavorite`). `WiFiServices.Detach` and `ServiceDirectory` follow the test and keep every emptied hidden service. Only hidden favorites are probed by a scan, so such a service stays dormant.
- **Shared blacklist.** With two claimers of one device, one claimer's `Release` takes the name off the shared blacklist while the other still holds it (`device_claimer.cc:74`). No source says the claims should stack, so this is listed as a hazard, not as a run.

## Not modelled, and why

- **Excluded outright:**
  - headers without their implementation (RTNL, DHCP, VPN driver, netlink packet, stub device, no-out-of-credits detector);
  - mocks and unit tests;
  - the D-Bus interface XML;
  - the `set-mtu` script.
- **The protobuf-lite streams header** inside `mm1_modem_modem3gpp_proxy.cc` (lines 85-127): declarations only.
- **`ModemInfo` under `DISABLE_CELLULAR`** (Start and Stop empty), and the test-only setters.
- **`error.cc`.** A value type.
- **WiMax `Scan` and `DisconnectFrom`.** No test exercises them and the implementation is absent.
- **In modelled parts, left out:**
  - the WiFi bgscan properties, EAP, certification and suspend/resume paths;
  - CDMA signal quality, MEID and online-portal data;
  - the Metrics reporting that only formats and sends a sample (link monitor, 802.11 disconnect, cellular drop).

## Plan for later work

1. Extend `CDMAActivation` with `OnServiceCreated` and the online portal if a property needs them.

# Formal model of the Fry WiFi offloading services

The repository holds three daemons for OpenWrt routers, written in C on top of
libubox/uloop, and a small library they share. This directory models the parts
of them whose correctness depends on the order of events: TLA+ modules, TLC
configurations, and proofs checked by TLAPS.

Paths below are relative to `src/` of the repository.

## 1. The system

| Component | State it keeps | Operations | Hard behaviours | What makes it correct |
|---|---|---|---|---|
| **fry-config, configuration transaction** `apps/config/sync/sync.c`, `sync/rollback.c`, `renderer/renderer.c`, `scripts/openwrt/renderer_applier.uc` | on flash: global hash, five section hashes, a rollback copy of each section and of the whole configuration, UCI; in memory: cached section hashes, the lists of restarted and failed services | fetch, render, commit, restart, save hashes and copies, granular rollback, complete rollback, report | each of twenty steps may fail; the process may be killed between two files; it reloads itself in the middle; the server changes its mind | only what was running is kept as good; the cache is never stale; the report is true; hashes, UCI and services agree between rounds; the device converges |
| **fry-config, process** `apps/config/main.c`, `ubus.c`, `sync/token_manager.c` | a borrowed token, timers | token refresh every 10 s, sync task | the agent restarts, is off, or has an expired token itself | it comes back to a token it can use |
| **fry-collector, buffer** `apps/collector/collect.c` | entry pool, ring of pointers, one batch with its state, payload, retry count | enqueue, tick, send, retry, give up, cleanup | logs arrive while a batch is in flight; lost answers; full pool; stop during a retry | no entry leaks or is shared; what is retried is the batch; order; every log leaves; shutdown ends |
| **fry-collector, stream** `apps/collector/ubus.c`, `main.c` | UBUS connection, reconnect timer and tries, outstanding read request, stream, acceptance, token | reconnect, open and end of stream, token timer, 401, enabling and disabling acceptance | a file descriptor that arrives late; acceptance switched from five places; tries shared by two kinds of failure | never stranded without a timer; streaming comes back; nothing accepted before there was a token |
| **fry-agent, access token** `apps/agent/services/access_token.c` | token, expiry, file, task, callbacks | request, save, parse, schedule, notify | expiry against a late refresh; a damaged answer; delay overflow | the clients use the newest token |
| **fry-agent, MQTT client** `apps/agent/services/mqtt/mqtt.c` | client, its configuration copy, attempts | task, recover, reinit, token callback | recovery with stale credentials, exhausted attempts | reconnects with a valid token, or stops for a restart |
| **fry-agent, exit handling** `apps/agent/services/exit_handler.c` | table of cleanups, flag | register, request, run | signal inside a callback; table of ten | every requested exit takes place |
| **fry-agent, package update** `apps/agent/services/package_update.c`, `run_opkg_upgrade.sh` | marker, bundle, timers | check, download, verify, install, report at the next start | reboot or restart in the middle; report lost or sent twice; the agent removes itself | "completed" is true, nothing stays in progress, the offer is reached |
| **fry-agent, firmware upgrade** `apps/agent/services/firmware_upgrade.c` and three scripts | archive, extracted images, `firmware.bin`, all in `/tmp` | check or command, download, verification, memory, test, sysupgrade, report of each | what failed attempts leave in `/tmp`; a package update or a reboot beside it | what is written is what was announced; the wanted version is reached |
| **fry-agent, NDS events, site clients** `apps/agent/services/nds.c`, `site-clients.c`, `device-context.c`, `scripts/openwrt/nds-*` | FIFO or file, its descriptor, the list of clients let through | open, read, publish, handle a message of the site | a script that waits for a reader; lines cut by the buffer; files that outlive the process | no portal waits for ever; clients are let through in the order of their events; events are not lost |
| **fry-agent, certificates** `apps/agent/services/mqtt/cert.c`, `radsec_cert.c`, `lib/crypto/` | CA, key and certificate on flash, for two uses | download, check, new key, signature, retry | a stop between the key and its certificate; a server that changes its CA | the services run with certificates that fit keys and CAs |
| **fry-agent, diagnostic and end report** | LED and connectivity state | checks, exit requests | requests an exit nobody polls for | an unreachable agent restarts |
| **uloop scheduler** `lib/core/uloop_scheduler.c` | registry of tasks, next id | schedule once or repeating, cancel, shutdown | a callback cancels or schedules; ids wrap; shutdown from a signal handler | cancelled tasks do not run; tasks run once or for ever |
| **others** (registration, device info, status, monitoring, speed test, options, text processing of the scripts, HTTP wrappers) | none that outlives a run | request and publish | none of their own | see `PROJECT.json` |

Interactions. Everything runs in one thread per process, on the callbacks of
uloop: timers, file descriptors, UBUS messages. fry-collector and fry-config
ask fry-agent for its access token over UBUS. fry-config talks to the server
over HTTP, writes UCI through a ucode script and restarts the services
(fry-agent, fry-collector and itself among them) through their init scripts.
fry-collector reads the system log from logd over a file descriptor it gets
from UBUS, filters it and posts batches to the server. fry-agent refreshes its
token over HTTP, keeps an MQTT connection whose username is that token, and
publishes device and client state on it. openNDS runs a script for each client
that comes or goes, which writes to a FIFO of fry-agent; the agent publishes the
event to a topic of the site and lets those through that it hears of there,
itself included. Since a callback is never interrupted
by another one, concurrency means: a callback that runs between two others,
the server, the other daemons, init, signals, and power.

`PROJECT.json` lists under `components` every part with what is and is not
modelled, and under `hazards` the lines where this code can go wrong in a way
that a test would hardly reach.

## 2. Modules

| Module | Models | Role |
|---|---|---|
| `ConfigSync` | `apps/config/sync/*`, `renderer/*`, the renderer script | the configuration transaction, one action per stage of `config_sync_task` |
| `ConfigSyncProofs` | | theorems about it |
| `MCConfigSync` | | three sections, three configurations, fault sets |
| `LogPipeline` | | abstract specification: a bounded line of logs with a window that is sent and removed as a whole |
| `Collect` | `apps/collector/collect.c` | pool, ring, batch, HTTP state machine, shutdown; implements `LogPipeline` |
| `CollectProofs` | | it implements `LogPipeline`; types, accounting and order |
| `MCCollect` | | bounds of the run |
| `LogStream` | `apps/collector/ubus.c`, timers of `main.c` | connection, stream, token, acceptance |
| `Collector` | `apps/collector/*` | `Collect` and `LogStream` composed where the code composes them |
| `CollectorProofs` | | it implements `Collect`; theorems about the stream in it |
| `MCCollector` | | fault sets |
| `AccessToken` | `apps/agent/services/access_token.c` | the token in memory and on flash, refreshed with every outcome |
| `MqttClient` | `apps/agent/services/mqtt/mqtt.c` | session, credentials, task and recovery |
| `FryAgent` | `apps/agent/main.c`, `exit_handler.c`, `diagnostic.c` | both composed, with start, exit requests and restarts |
| `FryAgentProofs` | | theorems about it |
| `MCFryAgent` | | fault sets |
| `TaskSet` | | abstract specification: a set of pending tasks, one of which runs |
| `TaskRegistry` | `lib/core/uloop_scheduler.c` | list, timers, heap and ids; implements `TaskSet` |
| `TaskRegistryProofs` | | theorems about it |
| `MCTaskRegistry` | | three pieces of memory |
| `FryGateway` | `apps/agent/main.c` | `FryAgent` composed with the four modules below: the agent on a router |
| `NdsEvents` | `apps/agent/services/nds.c`, `scripts/openwrt/nds-binauth.sh` | events from openNDS through FIFO or file to the reads of the agent |
| `SiteClients` | `apps/agent/services/site-clients.c`, `device-context.c`, `scripts/openwrt/nds-set-preemptive-list.lua` | the topic of the site and the list of clients |
| `Enrolment` | `apps/agent/services/mqtt/cert.c`, `radsec_cert.c`, `lib/crypto/*` | certificates, from the download of the CA to the signature |
| `TokenLending` | `apps/config/sync/token_manager.c`, `apps/config/ubus.c`, `apps/agent/services/ubus_server.c` | the token fry-config borrows |
| `FryGatewayProofs` | | it implements `FryAgent`; types, the order of events, the certificates |
| `MCFryGateway` | | fault sets, one client |
| `PackageUpdate` | `apps/agent/services/package_update.c`, `run_opkg_upgrade.sh` | the update of the package by itself |
| `PackageUpdateProofs` | | theorems about it |
| `FirmwareUpgrade` | `apps/agent/services/firmware_upgrade.c`, `verify_firmware.sh`, `run_sysupgrade*.sh` | the chain from the check to sysupgrade |
| `Upgrades` | `commands.c`, `reboot.c`, both of the above | the two upgrades in one process and on one router; implements `PackageUpdate` |
| `UpgradesProofs` | | theorems about it |
| `MCPackageUpdate` | | three versions of each, fault sets |

### ConfigSync

One run of `config_sync_task` (sync.c:673-806) is a sequence of small steps,
`pc` says where it is: `Fetch` (global hash compared by the server, section
hashes loaded and compared), the renderer script (`ScriptAccepts`,
`ScriptFails`, one `CommitPackage` per package in the script's order), one
`RestartService` per affected service in the order of
`restart_services_production`, then `SaveSectionHash`, `SaveGlobalHash`,
`SaveSection`, `SaveConfig`, and, if services failed, `RollBackSection` per
failed service and `RestartRolledBack`; if the script failed, the script runs
again with the saved configuration and every service restarts. `Report` ends
the round. The three callers of the script share its actions; `job` says which
one it works for.

Steps are this small because `Crash` may come between any two of them: the
process is killed, or the router reboots, and the file being written may be
left empty. fry-config also restarts itself (`reloaded`): init ends the process
only when the callback returns, because uloop turns SIGTERM into the end of its
loop, so the memory is lost with `Report`.

A configuration is a function from sections to values, `Absent` where the
server sends no section. A hash is the value it is the hash of, so DJB2
collisions do not exist in the model. Files are the values in them, `None` for
a missing or empty file. `check_section_changed` treats an absent section as
unchanged; so does `Fetch`.

What UCI holds of a section is two variables: `uci`, the value rendered last, and
`stray`, the options that are there beside those of that value. `applyFryConfig` and
`applyOpenNdsConfig` delete the options of a section before they set its new ones
(`Cleared`); `applyWirelessConfig` does not, it only sets (renderer_applier.uc:131-152).
`Beside` is what is left: the options of the old value and the older stray ones that the
new value does not set again. A rollback uses the same script, so it leaves the options
that the failed configuration has added. `strayRunning` is what a service was started
with. Properties that say that a value is rendered or runs use `RendersAs` and `RunsAs`,
which also say where stray options may be: in wireless only.

`mayFail` is chosen once per behaviour and says which kinds of faults occur in
it; `faults` counts them against `MaxFaults`. It lets one run answer questions
under different assumptions, which the properties state as an antecedent.

History variable: `proven`, the values each service was ever started with.

Two faults come from elsewhere. `Written` lets a file on a full flash keep its old
content or end up empty, since no caller looks at the result. `ReplacePackage` is
what `run_opkg_upgrade.sh` does to this component: UCI and services go back to
the package's configuration (`Factory`), and hashes and copies stay on flash.

### Collect, LogPipeline

The pool is `used` and `msg`, the ring is `entries`, `head`, `tail`, `count`,
the batch the rest of the context. `Tick` is one call of
`collect_process_pending_batches`: the entries that
`collect_entries_for_batch` moves (`Moving`, `Taken`, `Drained`), then one step of
`collect_advance_http_state` (`Gather`, `Prepare`, `SendSucceeds`, `SendFails`,
`Wait`, `GiveUp`). `curl_easy_perform` blocks the only thread, hence a request
with its outcome is one step; the server may have taken the batch of a request
that fails. Whether the batch timeout has passed is a choice, which fairness
resolves in the end. After a signal `main` ticks once more and
`collect_cleanup` tries to send the batch, with the retries, and discards the
rest: `Stop`, `BeginFlush`, `Flush`, `Close`.

`LogPipeline` is what remains of it for the outside: accepted logs wait in a
line, a window at the front is fixed, sent any number of times, and removed as
a whole. The refinement mapping in `Collect` puts together batch and ring:
`waiting` is the logs of the batch followed by those of the ring, `window` the
length of the batch when it is being sent.

### LogStream, Collector

`connected`, `tries`, `armed` are `ubus_connected`, `reconnect_tries` and the
reconnect timer; `asked` is a read request whose file descriptor has not come
yet; `accept` is `accept_logs`. An action is a callback. `StartStreaming`,
`Enable` and `Disable` are the functions the callbacks share.

`Collector` uses both modules through INSTANCE. They meet in three places:
`log_stream_data_cb` enqueues only while `accept` holds (`ReadLog`); a batch
is sent only with a valid token; and the outcome of a request, with the number
of failures in a row, enables or disables acceptance (`Sent`).

### AccessToken, MqttClient, FryAgent

Tokens are numbered as the server issues them and expire in that order. The
agent has one token (`token`), the file it was saved to (`file`), the username
mosquitto has (`user`) and a copy of the configuration that the MQTT task made
when it started (`copy`). `Initialise` and `RefreshToken` have an outcome for
every early return of the code: no answer, an answer that is not saved, saved
but no token, and the answer that is not JSON and counts as parsed. Saving can fail in
two ways: the file cannot be opened, which is noticed and leaves the old token
(`NotSaved`), or it was emptied and flash is full, which nobody notices: the token is
used and the file holds none (`GoodAnswer` with `Junk`). `CutOff` is a process that
ends while it saves.

The services subscribe once, in `main`, after the client was connected and openNDS
restarted. A topic is recorded for later sessions only if its subscription could be
sent (mqtt.c:100-109): `recorded` says whether all were. In `Start` the connection may
end in between, because the broker refuses the token or the network drops it (`Ended`),
and any number of topics can then be missing. `resubscribe_mqtt` subscribes to what is
recorded, and an attempt that reached the broker may find the connection ended as well
(`Reconnected`); mosquitto's loop fails then, and the next recovery subscribes again.

A CONNECT carries the username of its moment (`offered`), and the answer
comes in a later loop: hence `asked` before `up`. Each attempt of
`mqtt_recover` is a step (`LightReconnect`, `Reinitialise`, `AttemptFails`,
`Exhausted`), because the network may come back while it sleeps; no callback
runs meanwhile, so `pc` stays in `recover`. `health` is the recovery that the
health check forces after five minutes without a success, which come in the
model as `TimePasses`. `FryAgent` adds the start (`Boot`, `StartServices`, or
`StartFails` when `main` gives up for want of certificates),
the diagnostics that request an exit, the end by a signal, and the network.

### FryGateway, NdsEvents, SiteClients, Enrolment, TokenLending

`FryGateway` extends `FryAgent` and adds what surrounds the agent; most of its
actions are an action of the agent together with one of its surroundings.
`StartAll` is `StartServices` with the subscription to the topic of the site,
`MqttLoop` is the MQTT task with the message it may deliver, `StopAll` and
`Reboot` say what each way to end leaves behind, and `Alone` is what concerns
nobody else. `mayFail` also says what there is on the router (`Kinds`): clients of a
portal, fry-config, a server that rotates its CA.

`NdsEvents`. The path in `/tmp` is absent, nothing, a FIFO or a regular file, because
the redirection of the script makes a regular file where the FIFO is missing,
and `mkfifo` answers EEXIST to both. The binauth script blocks on a FIFO without a
reader (`waiting`), and openNDS with it. `init_nds_client` opens the FIFO, has the
binauth script configured and openNDS restarted, which sends a deauthentication for
each client (`Restarted`), before the event loop reads anything. A line is two
pieces, since a read of 511 bytes may end in the middle of a line: `Read` takes any
number of pieces, and what is handled of a cut line is its head.

`SiteClients`. `Added` follows the Lua script: it replaces a list that is not empty.
The topic of the site is one of those that the start may miss.
`known` is a history variable: the last event of each client that was handled.

`Enrolment`. A certificate is the CA that signed it and whether it is of the key on
flash. The four stages of `main` are `stage`; `Spoilt` is what an attempt
leaves that fails or is interrupted, and it is used for both (`Fails`, `Ends`). The three
repetitions in a stage leave what the last one leaves, so a stage is one step.

`TokenLending`. Both callers of `sync_refresh_access_token` do the same; the call is
answered when the agent is in its event loop and holds a valid token.

### TaskRegistry, TaskSet

`heap` is the memory of tasks, `registry` the linked list, `armed` the timers
set in uloop. `internal_task_cb` is two steps, `Fire` and `Return`, and what it
copies before the callback is `running`; between the two the callback may
`Schedule` and `Cancel` anything, its own task included, and malloc may hand
out memory that was just freed. `Shutdown` is the cleanup that a signal starts;
after it the process ends without returning to the callback.

`TaskSet` has no memory: `pending`, which of it is `repeating`, and what is
`executing`. The mapping takes a piece of memory for the task in it, so that it
also holds when ids wrap. `recent` is a history variable: the ids handed out last, as many
as there are. `UniqueIds` says that no two of them are the same, whatever became of
their tasks: an id comes again after all others, and not before.

### PackageUpdate, FirmwareUpgrade, Upgrades

Every step of an update is an action, from the check (`Check`) to the report of
the new agent (`CheckCompletion`), because the agent may be killed and the
router may lose power in between. `script` is the background script, which
removes the package and installs the new one after the agent has returned to
its loop. `marker` is the file in `/tmp`. `told` is what the server knows. A
`Broken` marker is one that is empty: the comparison then reads an
uninitialized buffer, and either outcome is possible.

`FirmwareUpgrade` keeps what an attempt leaves in `/tmp`: the images extracted so far,
the sums, `firmware.bin`. The next attempt finds them. `Verify` says what the script
moves and what the agent makes of the first character it prints, which are two
conditions. The steps run one after the other in the callback of one task; a
command of the server, or the timer, begins them.

`Upgrades` has both in one process: an attempt of one runs to its end before the
other begins (`Free`), but the opkg script and sysupgrade run beside. A new
firmware brings a package with it, empties `/tmp`, and so does a reboot; the
planned reboot comes after the firmware check of the same start, because its timer
is longer (`RebootDue`).

## 3. What the runs check

| Run | Question | Properties | Result |
|---|---|---|---|
| `ConfigSync_safety` | any two faults of seven families (a full flash and a package update among them), a server that changes its mind twice, fresh and configured device, wireless merged | `TypeOK`, `CacheFresh`, `PersistedProven`, `ReportTruthful`, `Coherent`, `InSyncAfterRestarts`, `Converges` | hold |
| `ConfigSync_insync` | one restart fails and the server returns to the earlier configuration | `InSyncMeansRunning` | violated |
| `ConfigSync_rollbackhash` | one restart and one script fail | `HashesReflectRollback` | violated |
| `Collect_buffer` | logs arriving between any ticks, any outcome of any request, a stop at any time | `TypeOK`, `EntriesAccounted`, `NothingVanishes`, `LogsInOrder`, `Promise`, `Drains`, `ShutdownEnds` | hold |
| `Collector_recover` | buffer and stream together, any two faults | `TypeOK`, `AcceptHasToken`, `NotStranded`, `Recovers`, `Drains` | hold |
| `Collector_http` | failed requests alone, with a token that stays valid | `Recovers` | violated |
| `FryAgent_link` | the agent on its router: seven families of faults, any three of a family | `GatewayTypeOK`, `FileIsToken`, `SubscribedWhenUp`, `AttemptsStartOver`, `WelcomeIsRecent`, `CredentialsMatch`, `ComesBackInTime`, `PortalReleased`, `BorrowerServed` | hold |
| `FryAgent_stale` | one outage of more than five minutes | `ComesBack` | violated |
| `FryAgent_exit` | one outage | `RequestTaken` | violated |
| `FryGateway_fifo` | an exit in order while the portal has clients | `EventsKept` | violated |
| `TaskRegistry_set` | callbacks that schedule and cancel, ids that wrap | `TypeOK`, `TimersAreRegistered`, `MemoryAccounted`, `UniqueIds`, `Promise`, `EachRuns` | hold |
| `PackageUpdate_update` | both upgrades together, any three faults of 23 kinds | `UpgradesTypeOK`, `CompletedIsTrue`, `NotInProgressForEver`, `ReachesOffer`, `FlashesTheAnnounced`, `ReachesWanted` | hold |

The six violations:

* `InSyncMeansRunning`. After a partly failed configuration the successful
  services run the new one, but the global hash, which is what the server
  compares, is still the old one. If the server returns to the old
  configuration it says "not modified", and those services keep the abandoned
  one (sync.c:756-773).
* `HashesReflectRollback`. The same partial success saves section hashes. If a
  later script fails, the complete rollback restores the older whole
  configuration and restarts everything, but the section hashes on flash stay;
  `restore_previous_hashes` only forgets the ones in memory (rollback.c:439-466).
  When the newer value comes again its section counts as unchanged.
* `Recovers`. Three failed requests disable acceptance. When the buffer has
  drained no request is made any more whose success could enable it, and the
  token timer leaves a valid token alone (ubus.c:398-408, main.c:78-135).
* `ComesBack`. A new token reaches mosquitto and the configuration inside the
  client, but not the copy of the MQTT task. The recovery that the health check
  forces after five minutes without success takes the username from that copy
  (mqtt.c:265, 480). Once the token of the start has expired the broker refuses
  it, the next recovery repeats this, and since TCP connects, the attempts are
  never exhausted.
* `RequestTaken`. `request_cleanup_and_exit` sets a flag that `mqtt_task` alone
  reads, to end itself (mqtt.c:330-333). The process goes on without MQTT and
  procd sees nothing (exit_handler.c:122-126).
* `EventsKept`. An exit in order removes the FIFO. A client that comes or goes before
  the agent is back makes a regular file of the path (nds-binauth.sh:199), and the
  next agent takes EEXIST for its FIFO (nds.c:66-72). Each later event truncates the
  file and is written at its start, while the agent reads on behind it: the events
  are lost until the agent ends in order once more.

Bounds. `ConfigSync`: `wireless` (restarted first, only reloaded),
`fry-agent` (in the middle) and `fry-config` (last, restarts itself), because
the order of the loops and the self-restart are all that distinguishes
sections; `fry-collector` is treated exactly as `fry-agent` and `opennds` as
`wireless` by the code. Three configurations are needed so that two of them
differ in some sections only and one lacks a section; the server decides up to twice
(`Forward`), or may go back (`AnyTarget`) in the families that allow it. One value sets
one option, the other one more, and the image has one of its own, so that something can
be left over. Two faults are needed
for a failure in the rollback of a failure, three for a kill after that;
further faults repeat these with files the first ones left behind. `Collect`:
three entries and batches of two make the ring wrap, leave a partly filled
batch and a refused log possible; four logs are more than fit; two tries give
one retry. `MaxReceived` bounds how often answers are lost, not how often
requests fail. `Collector`: a buffer of one suffices, since the buffer has a run
of its own and only the outcome of its requests reaches the stream. `FryAgent`: three tokens
are the one of the start, one that replaces it and one that does not expire;
three attempts let a recovery fail, nearly exhaust and exhaust; three faults
allow an outage during the recovery of another one. `FryGateway`: seven families of
faults instead of all of them together, each with what it can disturb: the agent with
the faults of its token, requests, saves and kills; the agent with those of its
client, long outages, diagnostics and exits; a server that refuses certificates
and changes its CA, with kills, reboots and tokens that expire; a portal with orderly and
disorderly ends, with a site that is not known at the start and connections that are
lost, with reboots and outages; fry-config with
an agent that fails in the ways fry-config notices. One client and three events are enough to
come, go and come again, the shortest history in which an older event could be
handled after a newer one of the same client; two CAs, so that the one on flash can differ from the one that
signs. The last token does not
expire, because no client can stay connected if tokens expire faster than they
are refreshed. `TaskRegistry`: with three pieces of memory a callback can cancel
its own task and schedule two; three ids wrap within a few steps.
`Upgrades`: with three versions the server can change its mind during an
update and images of two of them be in `/tmp`; three faults are a failed attempt,
a failed second one and a reboot. Each property is checked with the faults its
antecedent allows (`ThreeSets`).

Fairness. `ConfigSync!FairSpec`: weak fairness of the steps of the task, which
is a repeating uloop task and whose steps follow each other in one callback;
none for faults, for the server, or for kills. `Collect!FairSpec`: the batch
timer is armed again at the end of its callback whatever happened (main.c:36-44),
a gathered batch gets old in the end, and the cleanup is a loop.
`Collector!FairSpec` adds the token timer and the reconnect timer while it
is armed, and logd's answer to a read request; `ExpiringSpec` adds that tokens
expire. No fairness says that a request succeeds. `FryAgent!FairSpec`: procd
respawns the agent without a limit (fry-agent.init: `respawn 3600 60 0`), an
outage ends, the timers of the two tasks are set by their callbacks, and uloop runs
due timers in the order of their times, so neither starves the other: strong
fairness of a token request that succeeds and of the broker's answer, since
faults are finitely many. `TaskRegistry!FairSpec`: for the same reason strong
fairness of every timer; callbacks return. `FryGateway!GatewayFairSpec` has the
assumptions of `FryAgent`, with the start as one busy thread (`Busy`): a process that
starts gets to the next stage or ends; nothing says that a request succeeds but the bound on
faults. It adds that fry-config asks again every ten seconds. `UpgradesFairSpec`: weak
fairness of what a thread does next (start, steps of an attempt, the write of
sysupgrade) and of the daily firmware check, which needs a day without a restart and
which updates of the package, being finitely many, do not prevent for ever; strong
fairness of the package check, of the script and of the planned reboot, whose timers
and processes may be interrupted and come back each time.

## 4. What is proved

`ConfigSyncProofs` proves for every set of sections and values, every set of
configurations, every way the server may change its mind, and any number of
faults. It assumes `ConfigSyncAssumption` (the special values are not values and a
configuration is a function of sections) and, for `InSyncIsRunning` alone,
`NeverReturns`, which says what `Decisions` means: a server that decides by it never
comes to an earlier configuration again.

* `TypeCorrect`: `Spec => []TypeOK`. `TypeOK` is not inductive: a value taken
  from a document or from the current configuration could be `Absent`.
  `ListsInv` adds that every list of sections a loop works on is within the
  sections that are present; `TypeInv` is both.
* `CacheIsFresh`: `Spec => []CacheFresh`, inductive relative to `TypeInv`.
* `StrayInvariance` (a lemma): stray options are in wireless only, and none of them is an
  option of the value they are beside, in UCI and in what runs. The three theorems on
  reports, hashes and being in sync take it from there (`RunsAsValue`): what the server
  set is rendered or runs, and nothing else does, but for stray wireless options.
* `OnlyProvenIsKept`: `Spec => []PersistedProven`. `PersistedProven` says that
  what is on flash was once running. To save the *whole* configuration after a
  success, one must know that the sections that were not restarted were running
  too. They were not restarted because their hash is unchanged; the hash is
  fresh (`CacheFresh`); and what a hash on flash stands for was running
  (`PersistedProven` itself). For the sections that were restarted, UCI must
  hold the fetched value at that time: `SyncInv` follows the document through
  the script into UCI, and `CurrentProven` says which sections of the current
  configuration were running. `ProvenInv` is the conjunction of all, with
  `SyncInv` and `CurrentProven` only where commits do not fail, and
  `FateIsFixed` keeps the two cases apart. A full flash and package updates are
  included: the memory need then not agree with the flash, and `MemoryStep` follows
  what was running instead of the hash.
* `ReportsAreTruthful`: `Spec => []ReportTruthful`. The report speaks of three
  kinds of transactions, and `TruthInv` has a part for each beside the stages
  (`StageInv`: which lists are filled when, and that a section is never both
  successful and failed). `SuccessInv`: a successful section stays rendered and
  running with the new value whatever the rollback of the others does, and is
  saved once the loops have passed it. `GranularInv`: the rollback touches failed
  sections only, each has its copy back in UCI or an error is on record
  (`Restored`), and without an error all of them run their copies. `CompleteInv`:
  the same of the saved configuration. Each has a step lemma of its own
  (`StageStep`, `SuccessStep`, `GranularStep`, `CompleteStep`), since each needs the
  others only before the step.
* `HashesCohere`: `Spec => []Coherent`. Between two transactions hash, copy, UCI
  and service of a section agree, and within one they do not. `Settled` lists
  what excuses a section (about to be changed, changed and not saved yet, to be
  rolled back); `KeptInv` says that flash gives the rollback what it needs: hash
  and copy agree, an unaffected section has the value of its hash
  (this is where `CacheFresh` enters), a configured device never lacks a copy,
  so its rollback has no error, and the saved configuration has the
  stored hashes as long as only scripts fail. The last part is what one failed
  restart breaks: `RollbackRestoresHashes` says that with one kind of fault the
  claim which `ConfigSync_rollbackhash` refutes with two does hold.
* `InSyncIsRunning`: `Spec => []InSyncAfterRestarts`. `AgreedInv`: the server is
  at the configuration of the global hash or later; what is being fetched is
  later; and the sections have the hashes of the global one unless the server has
  left it for ever, because the first section hash is overwritten only for a later
  decision. Equal hashes do not exclude stray wireless options of a configuration that was
  abandoned on the way, and the property does not claim it.

  An earlier form of this property claimed that all services run what the server
  wants, which held in the small run and could not be proved: a device without a
  copy of `fry-config` gets a configuration in which two restarts fail, of `fry-agent`
  (which stays down) and of `fry-config`. The granular rollback restarts nothing,
  because there is no copy of the latter. If the server's next decision has the
  old value for `fry-agent`, its hash is unchanged, it is not restarted, the
  transaction succeeds and the hashes are equal: in sync, with a service that is
  down. The property now says what holds: rendered, and running or stopped; running on
  a device that has a copy of every section.

`TaskRegistryProofs` proves for any memory and any number of ids:

* `TypeCorrect`, `TimersAgree`, `MemoryAgrees`, `IdsAreUnique`: the four invariants
  of the run. `IdsGoRound` says where in the round of ids each of the last ones was:
  the id handed out k tasks ago is k before the next one, across the wrap; from it
  follows `UniqueIds` (`RoundIsUnique`), and with it the types, timers and memory are
  inductive. What makes the step of
  `Return` work is that memory is allocated for the list *and* for the
  one-off task that runs (`Lingering`): malloc cannot give it to another task
  before `internal_task_cb` frees it, and a repeating task that was cancelled by
  its own callback is not freed again. `PushProperties` and
  `UnlinkedProperties` are the two lemmas about the list.
* `ImplementsTaskSet`: the refinement, `Spec => Promise`.

They assume `TaskRegistryAssumption`: there are at least two ids, and the special
values are not tasks or callbacks.

`CollectProofs` proves for any queue, batch size, number of retries and logs, from
`CollectAssumption`:

* `BufferTypes` (`TypeOK`), `PoolAccounted` (`EntriesAccounted`), `LogsAccounted`
  (`NothingVanishes`). One invariant serves all, `BufferInv`: the types; `RingOK`,
  the indices say which places of the ring are filled; `LineOK`, the pointers of batch
  and ring, read as one sequence (`Line`), are the entries taken from the pool, and
  their logs are ascending; `LogsOK`, every log that was offered is refused, dropped,
  delivered or in the pool; `BatchOK`, a batch that is under way has logs and its payload
  is theirs. The order of the logs makes the pointers distinct, so that returning
  the front of the line to the pool frees no entry that the rest still needs; that is what
  makes the accounting inductive, and why the proof is about `Line` rather
  than about its two parts. `GatherStep` has the wrap of the ring.
* `ImplementsPipeline`: `Spec => Promise`, the refinement of `LogPipeline`, with a
  lemma for each action (`EnqueuePromise`, `TickPromise`, `ClosePromise`).
* `ServerSeesOrder` (`LogsInOrder`), over the steps of the *pipeline* and
  therefore by the refinement: `Served` says that the line is ascending, that what was sent is older than what
  waits behind the window, and that of the window nothing was sent before what precedes it.

`CollectorProofs` proves for any buffer, any number of tries and any number of
faults, from `CollectorAssumption`, the assumptions of the two parts:
`BufferInCollector`, `Spec => Buffer!Spec` (stream and token leave the buffer alone or
offer it a log), hence `LogsInCollector` without another proof about the buffer;
`CollectorTypes` (`TypeOK`); `TokenBeforeLogs` (`AcceptHasToken`) and
`NeverStranded` (`NotStranded`). Together with the types of the stream the two are
inductive. `OutcomeStep` is the lemma about the composition: what the
HTTP state machine reports changes acceptance and stream, and neither connection,
tries nor timer, so nothing about the buffer, its types included, is needed.

`FryAgentProofs` proves for any number of tokens, attempts and faults:
`TypeCorrect`, `TokenOnFlash` (`FileIsToken`), `SessionsAreSubscribed`
(`SubscribedWhenUp`) and `AttemptsAreGivenBack` (`AttemptsStartOver`).
`SubscribedWhenUp` is not inductive, since the broker accepts a session some
steps after it was asked for: `SubscribedWhenAsked` says that it has all recorded topics
from then on. That all are recorded if the first token was accepted and connections
are not lost is `AllRecorded`; it stays true because tokens expire in order, so that a
token accepted now was accepted at the start (`RecordStep`). `TokenOnFlash` says that a restart never
comes back with an older token than the one that was used; with the one that was used unless flash was
full. `AnswerStep` treats every outcome of a token request once, for the
start (where the token before is the file's) and for the task.

`PackageUpdateProofs` proves `TypeCorrect` and `CompletedTruly`
(`CompletedIsTrue`) for any versions and faults. The invariant behind it is
`MarkerTells`: a marker that names the installed package is that of the attempt
announced last, and no agent has read it yet. It needs `NewerAnnounced` (what is
being prepared is not what runs) and `RunsInstalled`.

`UpgradesProofs` proves, for any versions, firmwares and faults:

* `ImplementsPackageUpdate`: `UpgradesSpec => Spec`. Every step of the composition is
  one of `PackageUpdate` or a stutter of it (`PackageStep`); `CompletedTrulyInUpgrades`
  follows without another proof.
* `UpgradesTypeCorrect` and `FlashedTruly` (`FlashesTheAnnounced`). The invariant
  behind them, `FInv`, says that from the verification on `firmware.bin` is
  the image of the attempt (`ImageOfAttempt`), that an attempt under way has not been reported as
  failed (`Untold`), and that what is being written is the candidate (`FlashingTells`).

`FryGatewayProofs` proves for any clients, events, tokens, attempts, CAs and faults:

* `ImplementsFryAgent`: `GatewaySpec => Spec`, and from it `AgentSafeOnGateway`: what
  `FryAgentProofs` shows of the agent holds on the router as well.
* `CredentialsAlwaysMatch` (`CredentialsMatch`). The invariant `EnrolInv` says
  what each finished stage leaves, that a later stage does not touch it, and that the
  client is only scheduled after all four. `EnrolStep` has the stages, `AloneStarts` the
  steps of the agent, which start nothing.
* `GatewayTypeCorrect` (`GatewayTypeOK`) and `WelcomedInOrder` (`WelcomeIsRecent`). That the list
  of the site follows the last event of each client needs the order of *all* events on
  their way, wherever they are. `Flow(low, mid)` in `RouterInv` cuts that way at two times:
  what was handled is no later than `low`, what is in messages lies between `low` and
  `mid`, what is in the FIFO or pipe buffer between `mid` and the last event that happened; each
  part is in order, a regular file holds the last event only, and only the last event waits in a
  script. The times are under a quantifier because they move: a read moves what it
  takes to the messages, a kill empties parts, and neither breaks the order. `Joined`,
  `JoinedInOrder`, `Rest` and `LinesRead` are the lemmas about sequences: what one read
  takes, where it cuts a line and what it leaves keep the order.

All rest on the named assumptions of the modules (`UpgradesAssumption`,
`FryGatewayAssumption`, `FryAgentAssumption`) and nothing else.

Every safety invariant and every refinement that a passing run checks is proved. Only
model-checkable with these tools: liveness (`Converges`,
`Drains`, `ShutdownEnds`, `Recovers`, `ComesBackInTime`, `EachRuns`,
`NotInProgressForEver`, `ReachesOffer`, `ReachesWanted`, `PortalReleased`,
`BorrowerServed`), since it needs fairness.

## 5. Observations about the code

Met while modelling; the model follows the code in each case.

* collect.c:529-534: the emergency treatment at four fifths of the queue calls
  for force after a tick has emptied the batch or found it in flight, and
  therefore starts a batch only from `HTTP_IDLE`; README.md:324 of the collector
  promises an urgent batch.
* ubus.c:219-224: if logd is not found, nothing tries again until the UBUS
  connection is lost. `Recovers` is conditional on it.
* ubus.c:154, 186, 260: ends of the stream use up reconnect tries, which only a
  lost connection gives back.
* collect.c:252-258 and main.c:78-135 of the collector: the token is looked at
  when it has expired, not before; README.md:171 of the collector says
  "before expiration". Attempts in between fail and count.
* renderer_applier.uc:267-276: a commit that fails is only a warning, and
  sync.c:740-741 then records and reports success. `PersistedProven` and
  `ReportTruthful` exclude this fault by their antecedent.
* rollback.c:791-796: on a device that has no copy of one of the failed
  sections, the granular rollback renders the other copies and restarts nothing.
  `Coherent` excludes devices that were never configured. A service that its failed
  restart took down then stays down, even through a later transaction that succeeds,
  if its value in that one is the old one (section 4, `InSyncIsRunning`).
* The same place: if the server sets a section back to a value that it had before,
  that service can stay down for ever. A failed restart stops it and its rollback fails,
  is not tried, or is cut short by a kill; its hash on flash is still that of the
  earlier value; the next decision has that value, so the section counts as unchanged, nothing restarts
  it, and the transaction succeeds. `Converges` is stated for any number of decisions of
  which none sets a section back (`NoSectionReturns`); TLC finds the violation as soon as
  one of two decisions does.
* renderer_applier.uc:131-152: wireless options are set over those that are there and
  never deleted, unlike those of the services (168-171) and of openNDS (196-199). An option that
  only a failed or replaced configuration had stays in UCI and runs on, through a rollback
  that reports success and through every later configuration that does not set it. After one
  failed restart and a server that returns, section hash and global hash are those of the old
  configuration, and the wireless network runs with the abandoned one's extra option.
* access_token.c:21-35: the results of `fprintf` and `fclose` are not looked at. On a full
  flash the old token is gone from the file, the new one is not in it, and the save counts
  as done. A restart then asks for another token, or has none if the server does not answer.
* mqtt.c:94-110 and main.c:111-250: a subscription that fails because the connection was
  refused or lost since CONNECT (openNDS is restarted in between) is not recorded. The topic,
  that of the site or that of the commands, is missing in every later session, until the
  agent restarts. The results of resubscriptions (194-197) are logged and dropped.
* config/ubus.c:172: a token of 256 bytes or more is refused, so that fry-config would never have one.
* mqtt.c:247-268: an attempt that fails leaves mosquitto with the username of the
  start; after a short outage the broker may refuse the client until the next
  token arrives.
* access_token.c:106-109: an answer that is not JSON counts as parsed; the clients
  are told of a token NULL. access_token.c:100-105: a bad answer makes the
  agent forget a token that is still valid.
* mqtt.c: if `init_mqtt` fails at the start there is no client that a recovery could
  reconnect, the attempts are exhausted, and MQTT is off until the agent restarts.
* exit_handler.c:101: some twenty cleanups are registered in a table of ten.
* uloop_scheduler.h:30 says that the loop ends when all watchers are gone, and
  docs/uloop_scheduler.md:78 when all tasks complete; `uloop_run` waits on.
  docs/uloop_scheduler.md:136 says ids are reused after tasks complete; they are
  not before 2^32 - 1 of them, and then they are whether or not the task has completed:
  a task that is registered for so long shares its id with a newer one, which
  `cancel_task` finds first.
* package_update.c:115: a failed installation is logged, not reported; the comment at
  378-380 says errors are reported to the backend. A failed download is
  reported twice (207, 421). A restart of the agent in the five seconds before the
  old package is removed takes the marker for a failure, and the success is
  never reported.
* run_opkg_upgrade.sh:16-26: between removal and installation the router has no agent;
  if the installation fails or power is lost, nobody tries again. The script
  also deletes the configuration of the three services, while fry-config keeps the
  hashes that say it was applied.
* package_update.c:318: the answer "no update" is a pointer to a local variable of
  the function that has returned. `NoUpdate` lets the task read what was written, crash,
  or announce an update that does not exist and find nothing to download.

* renderer.c:186-238, rollback.c:101 and sync.c:756: on a full flash a hash can be in
  memory and not on flash, or a hash and not its copy. `CacheFresh` and half of
  `ReportTruthful` exclude this; `PersistedProven` does not need to.
* After a package update (run_opkg_upgrade.sh:19) the sections of the three
  services are back to the defaults under hashes that say they were applied, until
  the server changes them. `Converges` excludes it.
* verify_firmware.sh:13-33: an archive whose sums do not match leaves its image in
  `extracted_files`. The image of the next version joins it, the verification finds
  two and fails, and so for every later version until the router reboots. The planned reboot is why
  `ReachesWanted` holds.
* nds-set-preemptive-list.lua:123 says "Multiple entries exist, just append the new
  entry", but the table it appends to is new, so an existing list is replaced by
  one entry.
* device-context.c, site-clients.c: if the site is not known at the start, the topic is
  not subscribed when it becomes known; the agent publishes events and hears none.
* site-clients.c: an event of a client that goes, lost for want of a connection, leaves the client
  on the list. `WelcomeIsRecent` is about the events that were handled.
* ubus_server.c: the task that would reconnect asks for a context that the cleanup has
  cleared; with ubusd gone the callbacks of the server are gone.
* registration.c:110-112: a registration file that was cut off is parsed to NULL, which is
  dereferenced. Every start ends there, and nothing removes the file.
* mqtt/cert.c:92: a certificate is looked at when the agent starts. One that expires,
  or whose CA the server has replaced, is noticed at the next start.

## 6. Not modelled, and why

Time: timers may fire at any time while they are armed, so durations, backoff
and order by deadline are out. Contents: parsing of logs and JSON, rendering of
UCI, filtering, statistics, logging. Development mode (`scripts/dev`). Memory
safety of the C code: hazards with an empty list of properties in
`PROJECT.json` say where it is relevant. The libraries libubus, libcurl, libuci,
mosquitto, OpenSSL are their results. Every HTTP request is taken to return:
http-requests.c:209-262 sets no timeout for curl, and one that never returned would stop the
only thread of a daemon. That is an assumption of the liveness properties. The list of
HTTP headers of the collector grows with every request (collect.c:259-281), which is memory and not modelled.
The length of a token (config/ubus.c:172).

Registration: it happens once in the life of a router, before anything that is
modelled. Power that fails while sysupgrade writes: the router does not come back.
`firmware_update_enabled = 0` and `reboot_enabled = 0`: with the first there is
nothing to model, without the second `ReachesWanted` does not hold. A site that changes while
the services hold the old one, and the other routers of a site, whose messages are
like the router's own. Lifetimes of certificates, and a CA file that cannot be opened.
The options of the three services (`config.c` of each): parsed once, their
validated ranges are assumptions. The UBUS client and the status objects of
the services: no method changes state. `lib/core/scheduler.c`: not
linked. Registration, diagnostics in detail, monitoring, speed test, time: a run starts
from nothing and leaves nothing.

## 7. Plan

1. (done) The configuration transaction with its invariants and proofs.
2. (done) The collector: buffer, abstract pipeline, stream, composition.
3. (done) `FryAgent`: access token, MQTT recovery, exit flag.
4. (done) `TaskRegistry`: the scheduler, with its refinement proved.
5. (done) `PackageUpdate`.
6. (done) A package update under hashes that stay, and a full flash, in `ConfigSync`.
7. (done) `FirmwareUpgrade`, `Upgrades`: both upgrades in one process.
8. (done) `NdsEvents`, `SiteClients`, `TokenLending`, `Enrolment`, composed in `FryGateway`.
9. A site that changes under NDS and the site clients; the registration file at the
   start; the table of cleanups and a second signal.

Theorems planned: what a run that is killed leaves to the next one in
`ConfigSync` (coherence after one crash); that `FirmwareUpgrade` leaves the agent
alone; step properties of `Collect` (a batch in flight does not change).

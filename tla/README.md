# TLA+ models of the Dock Two firmware

These modules describe the concurrent core of the firmware in `src/`: what its
FreeRTOS tasks do to each other through queues, event bits, semaphores, sockets
and unprotected members, and how an update survives failures. Each definition
is a translation of the source lines that `PROJECT.json` lists for it under
`map`. TLC checks small instances, TLAPS proves the main invariants for all
values of the constants.

## The system

| Component | State it keeps | Operations | Interacts with |
|---|---|---|---|
| Infrared service (`lib/service_ir/service_ir.cpp`) | `m_queue` (length 1), `m_eventgroup` (learning, repeat, stop), `m_currentSendCode`, `m_apiResponseQueue` | `send`, `sendGlobalCache`, `stopSend`, `startIrLearn`, `stopIrLearn`, `apiResponse`; tasks "IR send" and "IR learn" | called by the API loop and by each GlobalCache client task; answers over the response queue or directly on a socket; sets the dock state |
| GlobalCache server (`globalcache_server.cpp`) | counting semaphore, sockets | server task, one task per client, beacon task | IR service, dock state |
| Dock state (`lib/state`, `lib/mutex`) | `m_currentState`, `m_prevState`, two timeouts, a spin lock | `setState`, `getState`, `event`, `loop` | called from every task, drives the LED |
| LED control (`lib/led_control`) | event bits | `setState`, LED task | dock state |
| Network service (`lib/service_network`) | WiFi flag, reconnect counter, Ethernet flags | `handleLoop` (Arduino task), `WiFiEvent` (event task), `setWifiEnabled` | WiFi and Ethernet drivers, dock state, reboot |
| OTA service and Update library (`lib/service_ota`, `lib/Update`) | upload timeout; buffer, progress, error; header stages; flash partitions | upload callbacks of the web server; `begin`, `write`, `end`, `activate` | web server, flash, boot loader |
| API (`lib/service_api`), Bluetooth | authenticated client numbers | JSON requests over WebSocket, serial line, Bluetooth | everything above |
| Configuration (`lib/config`) | NVS values, one `Preferences` object | getters, setters, `reset` | called from the loop task and from the event task |
| Code and request parsers (`lib/util/ir_codes.hpp`, `globalcache.hpp`) | none | pure functions on texts | IR send task, GlobalCache clients |
| eFuse, log, mDNS, string utilities | none that is shared | pure functions | everything above |
| Start-up and loop (`src/main.cpp`) | charging pin, reset button | `setup`, `loop` | everything above |

What makes the code hard: there is one real lock in it (the spin lock of the
dock state, inherited from a single-core chip); all else relies on the order of
single calls. The Arduino loop task, the event task, the IR tasks, the LED task
and up to eight client tasks interleave between any two of them. Flash
operations fail and power goes away between them. Peers vanish, do not read and
come back. `PROJECT.json` lists under `hazards` what that can do, line by line,
and which property looks at it.

What makes each component correct, in one sentence each: an accepted IR request
is answered exactly once and a stop stops it; GlobalCache slots and descriptors
have exactly one owner; a part of a request is never taken for
another one, and a code for another code; the dock leaves events and timed states;
it shows what the charging pin says, honours a reset, and is open over Bluetooth
only while it has no network; an enabled WiFi
reconnects, gives way to Ethernet or reboots the dock; an upload either leaves
the dock on a complete firmware and says so, or leaves it as it was; settings
change only for a client with a token, and the answer says what was stored.

## Modules

| Module | Models | Notes |
|---|---|---|
| `IrSlot` | abstract | What IR sending promises: one slot, one answer per request, an outbox that drops when full. |
| `InfraredService` | sending, the learning bit, the response queue | Refines `IrSlot` (`OneSlotServer`). |
| `IrText` | `ir_codes.hpp`, `globalcache.hpp`, the parsing in `sendGlobalCache()` | Operators on sequences of tokens; no state. |
| `IrClient` | the request loop of `socket_task()`, the decoding in `send_ir_f()` | Extends `IrText`: a TCP stream cut anywhere, codes composed token by token. |
| `DockMutex` | `mutex.cpp` | Load and store of `GetMutex()` are two steps; the interrupt mask holds off tasks of the same core only. |
| `DockState` | `state.cpp`, request side of `led_control.cpp` | Extends `DockMutex`: its tasks run the lock's actions. |
| `GcServer` | `globalcache_server.cpp` and the socket answer of the IR send task | History variables `lost` and `orphans` count what no task will give back or close. |
| `DockUse` | `setup()` and `loop()` of `main.cpp`, and who else sets the dock state | A call of the state service is one step here, which `DockState` justifies. |
| `NetworkService` | `service_network.cpp`, end of `setup()` | The clock is reduced to "30 seconds are over". |
| `Firmware` | abstract | What an update promises: a complete firmware boots, a rejected upload costs nothing, "ok" is not a lie. |
| `OtaUpdate` | `service_ota.cpp`, `Updater.cpp`, header stages of the processors | Data is counted in units; a sector is three of them. Refines `Firmware` (`ImplementsFirmware`). |
| `ApiServer` | `service_api.cpp` with the setters of `config.cpp` | Values are valid or bad; the event task's reads are three steps. |
| `MC...` | instances for TLC | Sets for the constants; `GcServer`, `NetworkService`, `OtaUpdate`, `ApiServer` and `DockUse` need none. |
| `...Proofs` | theorems | Extend the component's module and TLAPS. |

State and actions keep the names of the code where TLA+ allows it. An action is
what a task does between two accesses to state that another task, a callback or
a power loss can see. `pc` variables say where in a function a task is.
Operators whose comment begins with "Mutant" are wrong variants of the
definition below them. They are used by no specification; each one, put in the
place of the right definition, must make a named property fail.

### How the models read the code

- *Infrared service.* `send()` is `SendCall` (the learning check), `SendCount`
  (`uxQueueMessagesWaiting`), `SendCompare`, then `SendRepeat` (202), an early
  return (429), or `SendClear`, `SendEnqueue`, `AssignBegin`, `AssignEnd`. The
  assignment of the `String` takes two steps: a reader in between, or after two
  overlapping writers, sees a value that may or may not equal any code. The send
  task peeks, transmits frame by frame with the repeat callback after each,
  answers and resets the queue. The callback's read of the bits and its
  clearing of the repeat bit are separate steps. The answer to a GlobalCache
  client goes to a blocking socket: `IrReply` either gets through or leaves the
  task `blocked` until `PeerMakesRoom`, for which there is no fairness. The
  history variable `overlapped` is set for good by a call that begins before
  another one is over; what depends on calls that follow each other says
  `~overlapped`.
- *Texts.* A text is a sequence of tokens, each a command name, a number, a
  separator, white space or junk; a number token has a value and stands for all
  its digits, so that the base (10 or 16) does not matter. `uint16_t` arithmetic
  is modulo 65536, with values that wrap (32768 pairs); a command above `ULLongMax`
  (`UINT64_MAX`, where `strtoull()` reports a range error) is refused. In `IrClient` a client of
  the stream is either the TCP client or one that composes a code, and `Recv`
  takes any prefix of what is on the wire: this is what TCP does to the requests.
  What a request asks for is written down next to it in `MCIrClient`, from the
  forms listed in `globalcache.hpp` and not from the parser; `KnownRequest` says
  the same for requests of any length, and TLC finds that it holds for all of
  the run's.
- *GlobalCache.* In `GcServer` a request is reduced to whether it is answered, goes to the IR
  service, or neither. `send()` on a socket blocks while the peer's buffer is
  full. `SocketsOwned` speaks about the tasks; the late "completeir" of the IR
  send task does go to a reused descriptor, and the model lets it.
- *Dock state.* The unlocked tail of `setState()` (LED, way out of the learning
  events) and the unlocked reset of the timeouts are steps of their own. `event()`
  has a tail of its own (`eventClear`, `eventSet`): it returns after the LED and
  does not go through the way out.
- *Dock in use.* `DockUse` follows the Arduino task through one function after
  the other; the read of a state and the `setState()` that depends on it are
  two steps. GlobalCache clients, the learn task and the Ethernet events set
  states between any two of them. `NetworkAndOta` is the only step that stands for
  whole services, with the states and restarts they may cause. `Restored` is what
  `rgb_test_stop` finds in its uninitialised, unlocked memory: any of the states
  given. `SetupWifi` may see a stored network as an empty one, which is what the
  unlocked getters yield while the event task has the configuration open
  (`misread` records it); how that comes about is in `ApiServer`.
- *Network.* `setup()` decides in two reads and switches in two steps, while the
  event task runs. A reboot starts everything over. The states of the dock are
  reduced to SETUP or not: a request leaves it (`LeaveSetup`), and
  `rgb_test_stop` (`service_api.cpp:376`) or the end of a timed state
  (`state.cpp:123`) may bring it back (`RestoreSetup`), after which `loop()` does
  not call `handleLoop()`.
- *OTA.* A power loss is possible in every step of an upload. Erasing and
  programming are separate and both can fail. ESP-IDF verifies the image in
  `esp_ota_set_boot_partition()`: that is taken from its documentation, is
  outside `src/`, and is the only thing assumed about it. What can
  reject an image (`Stages`) is the look at the device in the header line
  (`DEVICE`), the RFC 3161 processor's look at the same line (`INIT`), the signature
  (`RFC`) and, behind them (`POST`), the magic byte. `stage` and `blobAt` survive an
  upload that ends without a reboot, and the next one meets them so: `Head` is how
  many units of header the processors still take, `Ahead` what can still reject, and
  `Offered` the images that can come: of any size, rejected by something that is
  ahead or not at all. Nothing forces the second image to be
  rejected, and in `POST` it needs no header. `process_payload()` and
  `process_end()` of the processor that is installed accept everything. `Space` is
  the size of the partition; a write beyond it aborts (`Overfills`).
- *API and configuration.* A settings request is one step per field, and a
  setter three: `begin()` looks whether the object is open, opens it, `put...()`
  and `end()`. The event task does the same beside it, for a reading; what it
  reads belongs to `NetworkService`. `getToken()` of an "auth" message is taken
  apart in the same way (`GetToken`, `OpenToken`, `ReadDone`), and the client is
  compared with what was read: the stored token, or the default one when the
  object was closed, not opened or open elsewhere. `shown` and `misread` record by
  which of the two a client was let in last. `put...()` into the namespace of the setting
  succeeds; into any other, or none, the value is lost without a trace, as the
  result is not looked at. `Restart` is possible between any two steps and stands
  for `ESP.restart()` and for a power loss. The callbacks of the WebSocket
  library run inside `API::loop()`, hence no client comes or goes during a
  request.

## Runs

| Run | Shows | Bounds |
|---|---|---|
| `ir_tasks` | slot ownership, refinement of `IrSlot`, what repeats and stops mean, termination of repeats, draining of responses, with two caller tasks | serial line and Bluetooth (the broadcast client), one GlobalCache client, two codes of which one does not parse, repeat 1, response queue 1 |
| `ir_precheck` | violation: the pre-check does not suffice | same |
| `dock_state` | mutual exclusion, every call returns | loop and learn task on core 1; a plain, a timed and a pseudo state |
| `state_event` | violation: a pseudo state stays | two tasks |
| `dock_use` | Bluetooth, reset, charging state | pin levels below, between and above the two thresholds, a look at the pin every second pass, one state of each kind |
| `ir_texts` | the stream of requests, codes, arrays | two requests out of nine, both line ends; codes of 8 tokens out of 7, 13 out of 4 and 11 out of 3, a largest command of 65535 |
| `gc_server` | slots, descriptors, vanished clients | two slots, three task handles, three descriptors, one buffered answer |
| `network` | counter, recovery, forgiveness, SETUP left and restored | all five attempts, with and without credentials |
| `net_radio` | violation: WiFi works while disabled | same |
| `ota` | bytes, magic byte, answers, rejected images, termination, refinement of `Firmware` | sector 3, header 1 + 4, chunks up to 2, a partition of 12, uploads of 1, 2, 3, 10 and 14 units |
| `api` | token, stored values, answers, the shared `Preferences` object | one client number, nine fields of five commands |
| `api_events` | violation: a setter returns true and nothing is stored | one client number, the fields of `set_config` |

Why the bounds are enough. The IR races need two callers, and a third would
repeat the role of the second. A request without repeats is in no run: it is a
frame followed by a callback that finds nothing to do, which a request with one
repeat also ends in; the theorems hold for every repeat count. A response queue of one is full after one
response, the real one after five. Two slots with three handles let a slot be
reused while the task that gave it back still exists, and three descriptors let
one be reused while an answer for its former owner is pending. A sector of three
units with chunks of two makes chunks end before, at and across a sector
boundary; the sizes are an upload that is too short for the header check, one
that ends inside the header, one that is a full buffer, one with several sectors
of which the last is short, and one that is larger than the partition.
`MaxReconnects` has its real value.
Two requests are enough for one buffer to hold the end of the first and the
start of the second. A code of 8 tokens has one more than a complete one; 13
tokens are a PRONTO code with 7 values, one more than the shortest, and 11 a
`sendir` whose count underflows or is sufficient. A second pass between two looks
at the pin stands for the 4000: other requests and other tasks come in between
either way. 250 is charging for `setup()` and nothing for `loop()`.
`lost` and `unread` are bounded by the number of slots and by `SendBuffer`.
The nine fields of `api` hold at least one of each kind: adjusted or refused,
with and without a result, with a copy in a service, in either namespace, first
and last of a command; the fields left out repeat one of them. One client number
is used again as often as TLC likes, so that whoever has it inherits nothing; that
numbers do not get mixed up is for any set of them a theorem
(`ChangesAuthorized`). No run declares symmetry. The largest command of `ir_texts`
is 65535 instead of 2^64 - 1, and one of the numbers is beyond it.

`gc_server` does not check for deadlock: the server really stops once every slot
is lost and its clients have gone.

### Fairness

Weak fairness of a task's step says that FreeRTOS gives it the processor in the
end; each `Fairness` states it per task, never per branch that a peer decides.
Strong fairness is used in three places. `ApiResponse`: `API::loop()` polls the
response queue once per pass, and a pass serves finitely many requests. The lock
of `DockState`: a waiting task sleeps a tick between tries while the lock is
held for a few instructions, so it meets the lock free; and masking of
interrupts ends after three instructions. `UploadTimeout`: a client does not
begin uploads that it does not finish for ever. Peers, networks, the flash and
the clients owe nothing else. In particular no fairness makes the peer of a
GlobalCache answer read it: `Released` and `StopWins` are implications whose
premise is that the send task does not stay blocked for ever (`PeersRead`). In
`GcServer` nothing is claimed of the IR task for the same reason: one
peer that does not read stops IR sending for everybody. `RecoversOrReboots` ends
where SETUP is restored: there the code neither reconnects nor reboots.
`UploadsEnd` rests on the assumption about uploads, and so does not hold for a
client that goes on beginning them. `DockUse` has one assumption, `WF_vars(ArduinoTask)`:
`loop()` is called again and again and no other task of its core waits busily. It
has no power loss, since power losses without an end would keep everything from
happening.

## Proofs

`InfraredServiceProofs` strengthens `TypeOK` with `SlotOwned` and "a caller
inside `send()` has a message" (`CallHasMessage`): without the first, the reset
of the queue could not be mapped to a step of `IrSlot`; without the second the
enqueue would not be typed. From it follow `TypeCorrect`, `SlotIsOwned` and, step
by step, the refinement `ImplementsOneSlotServer`. A second invariant (`OneByOne`)
relates the one caller that is inside a call to queue, code and bits, as long as no
two calls have overlapped. Any number of API and GlobalCache clients may take
turns: a repeat is then counted for the code that is sent (`RepeatsOneByOne`), and a
stop ends the repeats (`StopOneByOne`). The pre-check has no theorem: with two
callers it does not suffice (`ir_precheck`).

`DockStateProofs` shows that on one core a task between load and store has its
core masked, so that the lock word cannot change under it. `StateIsGuarded`
carries this over: each step of `DockState` is a step of the lock or leaves it
alone. The assumption `OneCore` is the default configuration
(`lib/config/config.h:124-126`); `irlearn_core = 0` breaks it. `TypeCorrect`
needs no such assumption: what a task does after the lock depends on its own
argument (`ArgsFit`), whatever the others do to the lock.

`GcServerProofs` proves types, slot accounting and descriptor ownership
together. The inductive invariant is their conjunction, with types that do not
bound the semaphore: the bound follows from the accounting.

`OtaUpdateProofs` proves every safety property of an upload for all sizes. What
the runs check is not inductive: it needs which of `_error` and `_size` holds in
which place (`Control`), how much of the header is used up at each stage
(`HeaderAccounted`), that a stage that was passed did not reject the image
(`HeaderPassed`), and what the next answer will be (`Answers`). TLC agreed with
the four before they were proved. `RejectedSafe` needs `HeaderPassed`: no sector
is erased before all stages have accepted. An upload that meets
the processors where an earlier one left them is covered, as what they reject from
there on and not as what they would reject after a reset: "rejected" is what these
processors do, and the theorem says that it costs nothing. It does not say that
they reject what they should; a finding tells of the image that is accepted
without a signature.

`NetworkServiceProofs` proves the counter for every limit above one. With a limit
of one the dock would reboot with `m_wifiPrevState` still set; the assumption
`ReconnectsAssumption` excludes it, the code uses five. `TypeOK` is proved in two
parts there and in `OtaUpdateProofs` (`Flags`, `Values`), because the provers do
not mix flags with arithmetic.

`UpdatesImplementFirmware` maps every step of an upload to a step of `Firmware`
or a stutter. The inductive invariant of the safety properties is not enough
alone: it lacks that only a partition with its magic byte is about to be selected
and that after the selection nothing but the answer and the restart follow
(`Selection`).

`ApiServerProofs` shows that authenticated client numbers have shown the stored
token, or the default one to a `getToken()` that did not read the stored one, and
that whoever is served has done so or need not (`Entitled`); a disconnect that did
not forget the number would break it. `ConfigComesBack` is inductive as it stands.
`SavedRuns` proves `SavedIsLive` from `Matched`: what the request has saved so
far is, in the NVS and in the service, what it asked for. A field step changes the
values of its own field only, and outside of a request nothing counts as saved.
`AcceptedIsStored` and `RejectedIsNotStored` are about the answer at the end of a
request, and their invariants (`AnswerInv`, `RejectInv`) about every field on the
way there: what is done with is saved, lost, exempt, or its failure is in the answer; the token, which can be refused, comes before the fields that are stored
after it. The order of the fields is a relation (`Earlier`) and those still to be
done are a set, so that no recursive operator stands in the way.

`IrClientProofs` is about texts. For the buffers (`ArraysAlwaysFit`) the two loops
are shown to see the same separators, `countValuesInCStr()` modulo 65536 included;
the lengths of the PRONTO sequences are then compared with the bounds the code
checks, with the products that wrap. `HexCodesAlwaysParse` finds where each of the
four fields begins and ends and what `strtoul()` makes of it, in both directions.
Both follow from `CodeInv`: a result is that of the code as it stands. Assumed are
`NumbersAssumption` (a number token is a natural number and no separator) and
`LengthAssumption` (a code fits the `int16_t` index of the loops).

`NoPhantomRequest` needs positions. `StreamInv` says that for each request there
is a place where it starts in what is not read yet, or a place before the first
byte if it was cut or taken; that there its whole text and its line end are found;
that the name of a command stands nowhere else; and that what was done was asked
for by requests that are gone. `Recv` moves all places by what it takes, and only
a buffer that begins at a place can do anything (`HandledWasAsked`): that is why
dropping the rest of a buffer loses requests but invents none. Hypothesis is that
each request alone does what it asks for or nothing (`RequestsUnderstood`), and
`ClientAssumption`: no line end and no command's name inside a request.
`KnownRequestsDo` proves the former for every request that is written as
`globalcache.hpp` lists it (`KnownRequest`), a `sendir` of any length included: the
`parseGcRequest()` that finds the ID, the `sendGlobalCache()` that finds port and
repeat count, and the `globalcacheBufferToArray()` that skips three fields agree on
where the fields are. `KnownRequestsAreNoPhantoms` and `WholeRequestsAlwaysObeyed`
rest on it. TLC evaluates the assumptions, and `KnownRequest` for all requests of
`ir_texts`.

`DockUseProofs` proves `BluetoothIsClosed`. `SetupBluetooth` looks at the state
some steps after `SetupEthConnected`, `SetupEthLinkUp` or `SetupWifi` chose the
network, and other tasks set the state
in between. None of them sets SETUP, but the way out of a learning event restores
what was saved: the invariant (`SetupGone`) says that between the choice and the
look a configured dock whose credentials were read is not in SETUP, nor would a
pending way out restore it. The one exception is `misread`, and the theorem says
that it is the only one.

Three theorems say what the violations depend on. Each of these three runs finds a
race; the theorem of the same property says that without that overlap the property
holds, for all values of the constants, so that the race is the cause and the only
one. The restriction is a temporal formula beside the specification
(`Spec /\ []SwitchesApart => []WifiStaysOff`), not a change of the model.

| Run | Theorem | The overlap it excludes, and nothing else |
|---|---|---|
| `state_event` | `EventsLeftOneByOne` | two calls of the state service at a time (`OneCall`) |
| `net_radio` | `OffWithoutOverlap` | an Ethernet event that is handled while `setup()` is inside its last `setWifiEnabled()`, or during the two seconds of a reconnection (`SwitchesApart`) |
| `api_events` | `StoredUndisturbed` | the event task reads a setting between `begin()` and `end()` of a setter (`Undisturbed`); readings before and after may make `begin()` fail |

Their invariants are the sequential reading of the code: no event is saved as the
state to go back to, and one that is current has a task about to leave it
(`EventInv`); `m_wifiEnabled` is what the task that switches has set it to
(`SwitchInv`); a setter that looks at the result of `begin()` puts its value into
its own namespace (`StoreInv`, which needs that one field of `set_config` is looked
at a time, `CurrentIsOne`). TLC agreed with the three, on the instances of the
violation runs with the restriction as a constraint, which leaves between 742 and
27678 states.

`LockIsGivenBack` is about the lock once more: on any number of cores, and
so with `irlearn_core = 0` too, no call keeps the spin lock. It is the part of
`CallsReturn` that does not rest on fairness; a way out of `setState()` without
`ReleaseMutex()` would break it.

Only checked by TLC: all liveness properties (`Released`, `StopWins`,
`ResponsesDrain`, `CallsReturn`, `VanishedMakesRoom`, `RecoversOrReboots`, `ConnectionForgives`, `UploadsEnd`, `ResetIsHonoured`,
`ChargingFollowsPin`), which rest on fairness and are out of the prover's reach.
Every invariant, every action property and both refinements of the passing runs
have a theorem. Of requests that only want an answer, such as `getversion`,
`KnownRequest` asks no more than that they do not begin with the name of a command
that does something. A malformed request is not a `KnownRequest`; `NoPhantomRequest`
holds for clients that send it as long as it has no effect.

## What the models found

The findings in `PROJECT.json` quote the texts the code disagrees with. With a run
that shows them: the IR pre-check fails when two callers use it, and the loser then
clears the repeat and stop bits of the winner (`ir_precheck`), a learning event can
become permanent (`state_event`), WiFi can
work while it is disabled (`net_radio`), a setter of the configuration returns
true although a network event kept its value from being stored (`api_events`).
Each needs two tasks in the same place; the last three are proved not to happen
otherwise (see Proofs).

Without a run of their own, since the runs above or a reading of the mapped lines
show them: a getter of the configuration yields the default value when the event
task gets in between, so that a client is let in with the default token (`api`
reaches this, `misread`) and Bluetooth starts on a configured dock (`dock_use`,
`misread`); the digest of an image is never compared with the signed one; after an
upload that ended behind its signature the next image needs none (`ota`, stage
`POST`); a state set while LED_SETUP or IDENTIFY is
active makes the end of the timeout restore that timed state for good; failed
`accept()` calls use up the GlobalCache slots (`gc_server` reaches those states,
`lost`); `end(true)` of the Update library reports success after a failed last
write or an incomplete upload; a request behind a line feed is unknown; a
`sendir` code with too few fields passes the check of its length; a remote on the
charging pin keeps an unconfigured dock from being set up over Bluetooth. Some
ranges in comments differ from the code.

What `ImplementsFirmware` permits is worth a note: the dock may select the other
partition after an incomplete upload and answer "ok", if what is there is a
complete firmware, namely the old one.

Also seen while modelling, with no text that says otherwise: `set_logging` with
only `syslog_enabled` is applied and answered with 400, a failed log level is
answered with 200 when a syslog server follows it, and a `set_config` with a name
and a bad token is answered with 200 and an error text. `AcceptedMeansStored`
lists these exceptions. A power loss between the two writes of `setWifi()` leaves
a new SSID with an old password.

## Not modelled

Cryptography and ASN.1 parsing (third-party), PWM patterns and infrared timing
(data), log, eFuse, mDNS and the status page (no shared state), the beacon task
(stateless), the contents of JSON messages, LED brightness and mDNS updates of a
request, failing writes into an open NVS namespace, the wrap of `millis()` after
49 days. The web server, lwIP, the radio drivers and the boot loader are modelled
by how the code uses them; in particular the web server is assumed to call the
POST handler after `UPLOAD_FILE_END`.

The learning bit of the IR service and the states that go with it are in two
modules, each with its other half left open; so are LED bits (`DockState`) and the
reasons for setting states (`DockUse`). `rgb_test` has no memory in `DockUse`.
In the texts, digits are not taken apart, strings are not limited to the 1 KB of
`rx_buffer`, `malloc()` succeeds, and a `sendir` without an ID, for which the code
calls `atoi(NULL)`, is not among the requests.

## Plan

Done: `IrSlot`, `InfraredService`, `IrText`, `IrClient`, `DockMutex`,
`DockState`, `DockUse`, `GcServer`, `NetworkService`, `Firmware`, `OtaUpdate`,
`ApiServer`; proofs of their safety properties.

Next, in this order:

1. Answers of the IR service to client numbers that are used again.
2. Learning: state and bit set in two steps by two tasks, a client that leaves
   while learning is on.
3. Configuration ranges and clock arithmetic modulo 2^32 as operators.
4. An abstract specification of the configuration ("what was answered with 200
   survives a restart") that `ApiServer` is shown to implement.

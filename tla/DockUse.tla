------------------------------- MODULE DockUse -------------------------------
(***************************************************************************)
(* The dock in use: setup() and loop() of src/main.cpp, and every task     *)
(* that sets the one state of the dock for a reason of its own: the remote *)
(* on the charging pin, the reset button, the requests of API and          *)
(* Bluetooth clients, a GlobalCache client, IR learning, the network.      *)
(*                                                                         *)
(* DockState shows that a call of the state service runs alone up to its   *)
(* unlock; here that is one step.  The way out of a learning event comes   *)
(* after it and is a step of its own.  Left to other modules are the LED   *)
(* (DockState), the learning bit (InfraredService), the reconnection       *)
(* (NetworkService) and the bytes of an update (OtaUpdate).                *)
(***************************************************************************)
EXTENDS Naturals

CONSTANTS
  PinLevels,       \* what analogRead(CHARGE_SENSE_GPIO) returns
  ChargingPasses,  \* passes of loop() between two looks at the pin: 4000
  Commands,        \* the states requests set without more ado
  Colors,          \* the test states rgb_test is asked for
  LearnResults,    \* the events of learning that happen
  Restored         \* what rgb_test_stop may find in API::m_prevState: it is
                   \* not initialized, and read apart from the test for it

TestStates == {"TEST_LED_RED", "TEST_LED_GREEN", "TEST_LED_BLUE"}
Timed      == {"LED_SETUP", "IDENTIFY"}
Events     == {"IR_LEARN_OK", "IR_LEARN_FAILED"}

CommandStates == {"NORMAL_FULLYCHARGED", "NORMAL_LOWBATTERY", "NORMAL"} \cup Timed

States == {"NOT_SET", "SETUP", "CONNECTING", "CONN_SUCCESS", "NORMAL_CHARGING",
           "ERROR", "OTA", "IR_LEARNING"} \cup TestStates \cup Events \cup CommandStates

ASSUME PinAssumption == PinLevels \subseteq Nat /\ ChargingPasses \in Nat \ {0}
ASSUME StatesAssumption ==
  /\ Commands \subseteq CommandStates /\ Colors \subseteq TestStates
  /\ LearnResults \subseteq Events /\ Restored \subseteq States

VARIABLES
  at, ret,         \* where the Arduino task is in setup() or loop(), and
                   \* where it goes on after a request or an event
  counter,         \* of handleCharging()
  pin,             \* the level of the charging pin
  resetMarker,     \* the button was held for three seconds
  configured,      \* an SSID and a password are stored
  misread,         \* history: setup() did not see them, and started Bluetooth
  eth,             \* Ethernet: "down", "up", "ip"
  bluetooth,       \* the Bluetooth service runs
  currentState, prevState,
  timeout,         \* m_ledSetupTimeout and m_identifyTimeout # 0
  leaving          \* the learn task has to leave a learning event

stateVars == <<currentState, prevState, timeout>>
inputs    == <<pin, resetMarker, configured, eth>>
vars == <<at, ret, counter, inputs, misread, bluetooth, stateVars, leaving>>

(* setState() up to the unlock. *)
SetState(s) ==
  /\ currentState' = s
  /\ IF s \in Timed
       THEN /\ timeout' = [timeout EXCEPT ![s] = TRUE]
            /\ prevState' = IF s \in {prevState, currentState} THEN prevState ELSE currentState
       ELSE prevState' = currentState /\ UNCHANGED timeout

Init ==
  /\ at = "start" /\ ret = "start" /\ counter = 0
  /\ pin \in PinLevels /\ configured \in BOOLEAN
  /\ resetMarker = FALSE /\ eth = "down" /\ bluetooth = FALSE /\ misread = FALSE
  /\ currentState = "NOT_SET" /\ prevState = "NOT_SET"
  /\ timeout = [s \in Timed |-> FALSE]
  /\ leaving = FALSE

(* ESP.restart(): the flash and the pin stay as they are. *)
Restart ==
  /\ at = "restart"
  /\ at' = "start" /\ ret' = "start" /\ counter' = 0
  /\ UNCHANGED <<pin, configured>>
  /\ resetMarker' = FALSE /\ eth' = "down" /\ bluetooth' = FALSE /\ misread' = FALSE
  /\ currentState' = "NOT_SET" /\ prevState' = "NOT_SET"
  /\ timeout' = [s \in Timed |-> FALSE]
  /\ leaving' = FALSE

-----------------------------------------------------------------------------
(* setup().                                                                *)

Goto(from, to) == at = from /\ at' = to

SetupState ==
  /\ Goto("start", "pin")
  /\ SetState("SETUP")
  /\ UNCHANGED <<ret, counter, inputs, misread, bluetooth, leaving>>

(* Another threshold than in loop(). *)
SetupChargingPin ==
  /\ Goto("pin", "network")
  /\ IF pin > 200 THEN SetState("NORMAL_CHARGING") ELSE UNCHANGED stateVars
  /\ UNCHANGED <<ret, counter, inputs, misread, bluetooth, leaving>>

(* Which network?  Ethernet events may come between the two questions. *)
SetupEthConnected ==
  /\ at = "network"
  /\ IF eth = "ip" THEN at' = "bluetooth" /\ SetState("CONN_SUCCESS")
                   ELSE at' = "link" /\ UNCHANGED stateVars
  /\ UNCHANGED <<ret, counter, inputs, misread, bluetooth, leaving>>

SetupEthLinkUp ==
  /\ at = "link"
  /\ IF eth # "down" THEN at' = "bluetooth" /\ SetState("CONNECTING")
                     ELSE at' = "wifi" /\ UNCHANGED stateVars
  /\ UNCHANGED <<ret, counter, inputs, misread, bluetooth, leaving>>

(* Mutant: WiFi is left to handleLoop(). *)
SetupWifiWaits ==
  /\ Goto("wifi", "bluetooth")
  /\ misread' = FALSE
  /\ UNCHANGED <<ret, counter, inputs, bluetooth, stateVars, leaving>>

(* getWifiSsid() and getWifiPassword() share the Preferences object with   *)
(* the getters of the event task, which may have it open or close it       *)
(* before the value is read (ApiServer has the steps): a stored network is *)
(* then seen as an empty one.  connect() sets CONNECTING again, later.     *)
SetupWifi ==
  /\ at = "wifi"
  /\ \E stored \in {configured, FALSE} :
       /\ misread' = (stored # configured)
       /\ IF stored THEN at' = "connect" /\ SetState("CONNECTING")
                    ELSE at' = "bluetooth" /\ UNCHANGED stateVars
  /\ UNCHANGED <<ret, counter, inputs, bluetooth, leaving>>

SetupConnect ==
  /\ Goto("connect", "bluetooth")
  /\ SetState("CONNECTING")
  /\ UNCHANGED <<ret, counter, inputs, misread, bluetooth, leaving>>

SetupBluetooth ==
  /\ Goto("bluetooth", "charging")
  /\ bluetooth' = (currentState = "SETUP")
  /\ misread' = (misread /\ bluetooth')
  /\ UNCHANGED <<ret, counter, inputs, stateVars, leaving>>

Setup ==
  \/ SetupState \/ SetupChargingPin \/ SetupEthConnected \/ SetupEthLinkUp
  \/ SetupWifi \/ SetupConnect \/ SetupBluetooth

\* Before connect() no WiFi runs, and no client is served over it.
NoWifiYet == {"start", "pin", "network", "link", "wifi", "connect"}

-----------------------------------------------------------------------------
(* loop(): the charging pin.                                               *)

PinCheck ==
  IF pin > 300 /\ currentState # "NORMAL_CHARGING" THEN "setCharging"
  ELSE IF pin < 300 /\ currentState = "NORMAL_CHARGING" THEN "setNormal"
  ELSE "api"

(* Mutant: the counter is not set back. *)
HandleChargingOnce ==
  /\ at = "charging"
  /\ counter' = IF counter < ChargingPasses THEN counter + 1 ELSE counter
  /\ at' = IF counter' = ChargingPasses /\ counter # counter' THEN PinCheck ELSE "api"
  /\ UNCHANGED <<ret, inputs, misread, bluetooth, stateVars, leaving>>

(* Every so many passes a look at the pin and at the state ... *)
HandleCharging ==
  /\ at = "charging"
  /\ counter' = (counter + 1) % ChargingPasses
  /\ at' = IF counter' = 0 THEN PinCheck ELSE "api"
  /\ UNCHANGED <<ret, inputs, misread, bluetooth, stateVars, leaving>>

(* ... and the new state, over whatever was set since. *)
SetCharging ==
  /\ \/ Goto("setCharging", "api") /\ SetState("NORMAL_CHARGING")
     \/ Goto("setNormal", "api") /\ SetState("NORMAL")
  /\ UNCHANGED <<ret, counter, inputs, misread, bluetooth, leaving>>

-----------------------------------------------------------------------------
(* loop(): requests.  One of a WebSocket or serial client in api->loop(),  *)
(* and while the state is SETUP one over Bluetooth.                        *)

Request(to, step) ==
  /\ at \in {"api", "bluetoothRequest"}
  /\ ret' = IF at = "api" THEN "service" ELSE "reset"
  /\ at' = to
  /\ step

Unchanged == UNCHANGED <<counter, inputs, misread, bluetooth, leaving>>

NoRequest == Request(ret', UNCHANGED stateVars) /\ Unchanged

Command == \E s \in Commands : Request(ret', SetState(s)) /\ Unchanged

(* A color that is none of the three sets nothing. *)
RgbTest == \E s \in Colors : Request(ret', SetState(s)) /\ Unchanged

RgbTestStop == \E s \in Restored : Request(ret', SetState(s)) /\ Unchanged

(* startIrLearn() and stopIrLearn(): a state each, beside the bit. *)
IrReceive == \E s \in {"IR_LEARNING", "NORMAL"} : Request(ret', SetState(s)) /\ Unchanged

(* set_config with a network, reboot, and reset: the client has its answer *)
(* before the dock restarts.                                               *)
RestartRequest ==
  /\ Request("restart", UNCHANGED stateVars)
  /\ configured' \in BOOLEAN
  /\ UNCHANGED <<counter, pin, resetMarker, eth, misread, bluetooth, leaving>>

Requests ==
  \/ NoRequest \/ Command \/ RgbTest \/ RgbTestStop \/ IrReceive \/ RestartRequest

-----------------------------------------------------------------------------
(* loop(): services, the reset button and the timeouts.                    *)

(* In SETUP Bluetooth is the only service. *)
SetupService ==
  /\ at = "service"
  /\ currentState = "SETUP"
  /\ at' = IF bluetooth THEN "bluetoothRequest" ELSE "reset"
  /\ UNCHANGED <<ret, counter, inputs, misread, bluetooth, stateVars, leaving>>

(* Otherwise handleLoop() may reconnect or report a connection or give up, *)
(* and the web server may begin an update or end one.                      *)
NetworkAndOta ==
  /\ at = "service"
  /\ currentState # "SETUP"
  /\ at' = "reset" \/ ((configured \/ eth = "ip") /\ at' = "restart")
  /\ \/ UNCHANGED stateVars
     \/ configured /\ \E s \in {"CONNECTING", "CONN_SUCCESS"} : SetState(s)
     \/ (configured \/ eth = "ip") /\ SetState("OTA")
  /\ UNCHANGED <<ret, counter, inputs, misread, bluetooth, leaving>>

(* Mutant: the marker is looked at outside SETUP only. *)
ResetCheckOutsideSetup ==
  /\ Goto("reset", IF resetMarker /\ currentState # "SETUP" THEN "erase" ELSE "ledSetup")
  /\ IF resetMarker /\ currentState # "SETUP" THEN SetState("ERROR") ELSE UNCHANGED stateVars
  /\ UNCHANGED <<ret, counter, inputs, misread, bluetooth, leaving>>

ResetCheck ==
  /\ Goto("reset", IF resetMarker THEN "erase" ELSE "ledSetup")
  /\ IF resetMarker THEN SetState("ERROR") ELSE UNCHANGED stateVars
  /\ UNCHANGED <<ret, counter, inputs, misread, bluetooth, leaving>>

(* Config::reset() never comes back. *)
ConfigReset ==
  /\ Goto("erase", "restart")
  /\ configured' = FALSE
  /\ UNCHANGED <<ret, counter, pin, resetMarker, eth, misread, bluetooth, stateVars, leaving>>

(* State::loop() looks at one timeout after the other. *)
TimeoutCheck(s, next) ==
  /\ at = (IF s = "LED_SETUP" THEN "ledSetup" ELSE "identify")
  /\ \/ /\ timeout[s]
        /\ timeout' = [timeout EXCEPT ![s] = FALSE]
        /\ at' = "event" /\ ret' = next
     \/ at' = next /\ UNCHANGED <<ret, timeout>>
  /\ UNCHANGED <<counter, inputs, misread, bluetooth, currentState, prevState, leaving>>

TimeoutEvent ==
  /\ Goto("event", ret)
  /\ currentState' = prevState
  /\ UNCHANGED <<ret, counter, inputs, misread, bluetooth, prevState, timeout, leaving>>

StateLoop == TimeoutCheck("LED_SETUP", "identify") \/ TimeoutCheck("IDENTIFY", "charging") \/ TimeoutEvent

ArduinoTask ==
  Setup \/ HandleCharging \/ SetCharging \/ Requests
  \/ SetupService \/ NetworkAndOta \/ ResetCheck \/ ConfigReset \/ StateLoop \/ Restart

-----------------------------------------------------------------------------
(* The other tasks.                                                        *)

Others == UNCHANGED <<at, ret, counter, inputs, misread, bluetooth>>

Serving == eth = "ip" \/ (configured /\ at \notin NoWifiYet)

(* A GlobalCache client: blink, get_IRL and stop_IRL. *)
GcRequest ==
  /\ Serving
  /\ \E s \in {"IDENTIFY", "NORMAL", "IR_LEARNING"} : SetState(s)
  /\ Others /\ UNCHANGED leaving

(* learn_ir_f(): a code is learned or is not one, perhaps after the stop;  *)
(* setState() then leaves the event without the lock.                      *)
LearnEvent ==
  /\ Serving \/ at \notin NoWifiYet \cup {"bluetooth"}
  /\ ~leaving
  /\ \E s \in LearnResults : SetState(s)
  /\ leaving' = TRUE
  /\ Others

LearnLeave ==
  /\ leaving
  /\ currentState' = prevState
  /\ leaving' = FALSE
  /\ Others /\ UNCHANGED <<prevState, timeout>>

(* WiFiEvent(): Ethernet comes and goes; without it WiFi is tried. *)
EthEvent ==
  /\ at \notin {"start", "pin"}
  /\ \/ eth = "down" /\ eth' = "up" /\ UNCHANGED stateVars
     \/ eth = "up" /\ eth' = "ip" /\ SetState("CONN_SUCCESS")
     \/ eth # "down" /\ eth' = "down" /\ SetState("CONNECTING")
  /\ UNCHANGED <<at, ret, counter, pin, resetMarker, configured, misread, bluetooth, leaving>>

(* The remote is put on the dock or taken off, the button is held. *)
Environment ==
  /\ \/ pin' \in PinLevels /\ UNCHANGED resetMarker
     \/ resetMarker' = TRUE /\ UNCHANGED pin
  /\ UNCHANGED <<at, ret, counter, configured, eth, misread, bluetooth, stateVars, leaving>>

Next ==
  \/ ArduinoTask
  \/ GcRequest
  \/ LearnEvent \/ LearnLeave
  \/ EthEvent
  \/ Environment

(* The Arduino task runs on: no other task of its core waits busily. *)
Spec == Init /\ [][Next]_vars /\ WF_vars(ArduinoTask)

-----------------------------------------------------------------------------
(***************************************************************************)
(* Bluetooth takes requests without a token.  On a dock that has a WiFi    *)
(* network stored it runs only if setup() could not read it, or until the  *)
(* restart after it was stored: whatever the other tasks set between the   *)
(* choice of the network and the look at the state, "make sure Bluetooth   *)
(* is not running" (main.cpp:198).                                         *)
(***************************************************************************)
BluetoothUnconfigured == bluetooth /\ configured => at = "restart" \/ misread

(***************************************************************************)
(* A reset asked for with the button happens in every state of the dock,   *)
(* unless the dock restarts for another reason first.                      *)
(***************************************************************************)
ResetIsHonoured == resetMarker ~> at = "start"

(***************************************************************************)
(* "LED breathing to indicate charging" (states.h:22): whatever the other  *)
(* tasks set, a remote on the dock shows in the state in the end, and so   *)
(* does that it is gone.  A level of exactly 300 shows nothing.            *)
(***************************************************************************)
ChargingFollowsPin ==
  /\ pin > 300 ~> (currentState = "NORMAL_CHARGING" \/ pin <= 300)
  /\ pin < 300 ~> (currentState # "NORMAL_CHARGING" \/ pin >= 300)
=============================================================================

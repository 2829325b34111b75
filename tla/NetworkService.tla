--------------------------- MODULE NetworkService ---------------------------
(***************************************************************************)
(* lib/service_network/service_network.cpp with the end of setup() in      *)
(* src/main.cpp, on a board with Ethernet: which of the two networks the   *)
(* dock uses, and how it gets a lost WiFi back.                            *)
(*                                                                         *)
(* Two tasks share the members of the service without a lock: the Arduino  *)
(* task (the end of setup(), then handleLoop() in every pass of loop())    *)
(* and the event task, which runs WiFiEvent().  Both call setWifiEnabled() *)
(* or connect() and disconnect().  A failed reconnection counter reboots   *)
(* the dock, which starts all over.                                        *)
(*                                                                         *)
(* The states of DockState are cut down to SETUP and the others, the clock *)
(* to "the 30 seconds are over".  The Ethernet LED and SNTP are left out.  *)
(***************************************************************************)
EXTENDS Naturals

CONSTANTS
  MaxReconnects,   \* the failed attempts after which the dock reboots: 5
  Configured       \* are an SSID and a password stored?  A set of answers

ASSUME ReconnectsAssumption == MaxReconnects \in Nat \ {0, 1}
ASSUME ConfiguredAssumption == Configured \subseteq BOOLEAN

VARIABLES
  configured,          \* m_config holds an SSID and a password
  pc,                  \* where the Arduino task is
  enable,              \* what setup() passes to setWifiEnabled()
  evPc,                \* where the event task is
  eth,                 \* the Ethernet driver: "down", "up", "ip"
  ethLinkUp, ethConnected,         \* m_ethLinkUp, m_ethConnected
  wifiEnabled,         \* m_wifiEnabled
  radio,               \* the WiFi driver: "off", "trying", "connected"
  prevState,           \* m_wifiPrevState
  reconnectCount,      \* m_wifiReconnectCount
  checkDue,            \* millis() > m_wifiCheckTimedUl
  inSetup              \* the state of the dock is SETUP

ethVars  == <<eth, ethLinkUp, ethConnected>>
loopVars == <<prevState, reconnectCount, checkDue>>
vars == <<configured, pc, enable, evPc, ethVars, wifiEnabled, radio, loopVars,
          inSetup>>

Init ==
  /\ configured \in Configured
  /\ pc = "ethConnected?"
  /\ enable = FALSE
  /\ evPc = "idle"
  /\ eth = "down" /\ ethLinkUp = FALSE /\ ethConnected = FALSE
  /\ wifiEnabled = TRUE
  /\ radio = "off"
  /\ prevState = FALSE
  /\ reconnectCount = 0
  /\ checkDue = FALSE
  /\ inSetup \in BOOLEAN          \* setupChargingPin() may have left SETUP

-----------------------------------------------------------------------------
(* WiFi.begin() starts over, with or without a connection. *)
Begin == radio' = "trying"

Disconnect == radio' = "off"

(* The end of setup().  The state is set before setWifiEnabled(). *)
SetupEthConnected ==
  /\ pc = "ethConnected?"
  /\ IF ethConnected
       THEN pc' = "enable" /\ enable' = FALSE /\ inSetup' = FALSE
       ELSE pc' = "ethLinkUp?" /\ UNCHANGED <<enable, inSetup>>
  /\ UNCHANGED <<configured, evPc, ethVars, wifiEnabled, radio, loopVars>>

(* A getter that meets the event task in the shared Preferences object     *)
(* yields the default, an empty SSID.                                      *)
SetupEthLinkUp ==
  /\ pc = "ethLinkUp?"
  /\ pc' = "enable"
  /\ \E stored \in {configured, FALSE} :
       /\ enable' = (~ethLinkUp /\ stored)
       /\ inSetup' = (inSetup /\ ~ethLinkUp /\ ~stored)
  /\ UNCHANGED <<configured, evPc, ethVars, wifiEnabled, radio, loopVars>>

SetupEnable ==
  /\ pc = "enable"
  /\ wifiEnabled' = enable
  /\ pc' = "switch"
  /\ UNCHANGED <<configured, enable, evPc, ethVars, radio, loopVars, inSetup>>

SetupSwitch ==
  /\ pc = "switch"
  /\ IF enable THEN Begin /\ inSetup' = FALSE
               ELSE Disconnect /\ UNCHANGED inSetup
  /\ pc' = "loop"
  /\ UNCHANGED <<configured, enable, evPc, ethVars, wifiEnabled, loopVars>>

-----------------------------------------------------------------------------
(* handleLoop(): not while the dock is in SETUP or WiFi is disabled.       *)

HandlesLoop == pc = "loop" /\ ~inSetup /\ wifiEnabled

(* Mutants of LoopLost: the counter is never incremented; m_wifiPrevState  *)
(* is not reset; the limit is compared with >.                             *)
LoopLostUncounted ==
  /\ HandlesLoop
  /\ radio # "connected" /\ checkDue
  /\ Disconnect
  /\ prevState' = FALSE
  /\ pc' = "delay"
  /\ UNCHANGED <<configured, enable, evPc, ethVars, wifiEnabled, reconnectCount, checkDue, inSetup>>

LoopLostKeepsPrev ==
  /\ HandlesLoop
  /\ radio # "connected" /\ checkDue
  /\ reconnectCount' = reconnectCount + 1
  /\ IF reconnectCount' = MaxReconnects THEN pc' = "reboot" /\ UNCHANGED radio
                                        ELSE pc' = "delay" /\ Disconnect
  /\ UNCHANGED <<configured, enable, evPc, ethVars, wifiEnabled, prevState, checkDue, inSetup>>

LoopLostOneMore ==
  /\ HandlesLoop
  /\ radio # "connected" /\ checkDue
  /\ reconnectCount' = reconnectCount + 1
  /\ IF reconnectCount' > MaxReconnects
       THEN pc' = "reboot" /\ UNCHANGED <<radio, prevState>>
       ELSE pc' = "delay" /\ Disconnect /\ prevState' = FALSE
  /\ UNCHANGED <<configured, enable, evPc, ethVars, wifiEnabled, checkDue, inSetup>>

(* No connection after 30 seconds: reboot, or disconnect and wait 2 s ...  *)
LoopLost ==
  /\ HandlesLoop
  /\ radio # "connected" /\ checkDue
  /\ reconnectCount' = reconnectCount + 1
  /\ IF reconnectCount' = MaxReconnects
       THEN pc' = "reboot" /\ UNCHANGED <<radio, prevState>>
       ELSE pc' = "delay" /\ Disconnect /\ prevState' = FALSE
  /\ UNCHANGED <<configured, enable, evPc, ethVars, wifiEnabled, checkDue, inSetup>>

(* ... and connect again, without another look at m_wifiEnabled. *)
LoopReconnect ==
  /\ pc = "delay"
  /\ Begin
  /\ inSetup' = FALSE
  /\ checkDue' = FALSE
  /\ pc' = "loop"
  /\ UNCHANGED <<configured, enable, evPc, ethVars, wifiEnabled, prevState, reconnectCount>>

(* Mutant: the counter is not reset. *)
LoopConnectedKeepsCount ==
  /\ HandlesLoop
  /\ radio = "connected" /\ ~prevState
  /\ prevState' = TRUE
  /\ inSetup' = FALSE
  /\ UNCHANGED <<configured, pc, enable, evPc, ethVars, wifiEnabled, radio, reconnectCount, checkDue>>

LoopConnected ==
  /\ HandlesLoop
  /\ radio = "connected" /\ ~prevState
  /\ reconnectCount' = 0
  /\ prevState' = TRUE
  /\ inSetup' = FALSE
  /\ UNCHANGED <<configured, pc, enable, evPc, ethVars, wifiEnabled, radio, checkDue>>

(* ESP.restart(): drivers and members start over. *)
Reboot ==
  /\ pc = "reboot"
  /\ pc' = "ethConnected?"
  /\ enable' = FALSE
  /\ evPc' = "idle"
  /\ eth' = "down" /\ ethLinkUp' = FALSE /\ ethConnected' = FALSE
  /\ wifiEnabled' = TRUE
  /\ radio' = "off"
  /\ prevState' = FALSE
  /\ reconnectCount' = 0
  /\ checkDue' = FALSE
  /\ inSetup' \in BOOLEAN
  /\ UNCHANGED configured

ArduinoTask ==
  \/ SetupEthConnected \/ SetupEthLinkUp \/ SetupEnable \/ SetupSwitch
  \/ LoopLost \/ LoopReconnect \/ LoopConnected \/ Reboot

-----------------------------------------------------------------------------
(* WiFiEvent(), in the event task: one event at a time.                    *)

EthLinkUp ==
  /\ evPc = "idle" /\ eth = "down"
  /\ eth' = "up"
  /\ ethLinkUp' = TRUE
  /\ UNCHANGED <<configured, pc, enable, evPc, ethConnected, wifiEnabled, radio, loopVars, inSetup>>

EthGotIp ==
  /\ evPc = "idle" /\ eth = "up"
  /\ eth' = "ip"
  /\ ethConnected' = TRUE
  /\ evPc' = "disable"
  /\ UNCHANGED <<configured, pc, enable, ethLinkUp, wifiEnabled, radio, loopVars, inSetup>>

EthDisconnected ==
  /\ evPc = "idle" /\ eth # "down"
  /\ eth' = "down"
  /\ ethLinkUp' = FALSE
  /\ ethConnected' = FALSE
  /\ evPc' = "enable"
  /\ UNCHANGED <<configured, pc, enable, wifiEnabled, radio, loopVars, inSetup>>

(* setWifiEnabled(false), setState(CONN_SUCCESS) *)
EventDisable ==
  /\ evPc = "disable"
  /\ wifiEnabled' = FALSE
  /\ evPc' = "disconnect"
  /\ UNCHANGED <<configured, pc, enable, ethVars, radio, loopVars, inSetup>>

EventDisconnect ==
  /\ evPc = "disconnect"
  /\ Disconnect
  /\ inSetup' = FALSE
  /\ evPc' = "idle"
  /\ UNCHANGED <<configured, pc, enable, ethVars, wifiEnabled, loopVars>>

(* setWifiEnabled(true), which connects *)
EventEnable ==
  /\ evPc = "enable"
  /\ wifiEnabled' = TRUE
  /\ evPc' = "connect"
  /\ UNCHANGED <<configured, pc, enable, ethVars, radio, loopVars, inSetup>>

EventConnect ==
  /\ evPc = "connect"
  /\ Begin
  /\ inSetup' = FALSE
  /\ evPc' = "idle"
  /\ UNCHANGED <<configured, pc, enable, ethVars, wifiEnabled, loopVars>>

EventTask == EventDisable \/ EventDisconnect \/ EventEnable \/ EventConnect

EthEvent == EthLinkUp \/ EthGotIp \/ EthDisconnected

-----------------------------------------------------------------------------
(* The WiFi driver and the clock.                                          *)

WifiConnected ==
  /\ radio = "trying" /\ configured
  /\ radio' = "connected"
  /\ UNCHANGED <<configured, pc, enable, evPc, ethVars, wifiEnabled, loopVars, inSetup>>

WifiLost ==
  /\ radio = "connected"
  /\ radio' = "trying"
  /\ UNCHANGED <<configured, pc, enable, evPc, ethVars, wifiEnabled, loopVars, inSetup>>

ThirtySeconds ==
  /\ pc = "loop" /\ ~checkDue
  /\ checkDue' = TRUE
  /\ UNCHANGED <<configured, pc, enable, evPc, ethVars, wifiEnabled, radio, prevState, reconnectCount, inSetup>>

(* Another setState(): the remote is charging, or a client identifies the  *)
(* dock.                                                                   *)
LeaveSetup ==
  /\ pc = "loop" /\ inSetup
  /\ inSetup' = FALSE
  /\ UNCHANGED <<configured, pc, enable, evPc, ethVars, wifiEnabled, radio, loopVars>>

(* "rgb_test_stop" and the end of a timed state set the state that was     *)
(* saved before, which may be SETUP although the network has come up since.*)
RestoreSetup ==
  /\ pc = "loop" /\ ~inSetup
  /\ inSetup' = TRUE
  /\ UNCHANGED <<configured, pc, enable, evPc, ethVars, wifiEnabled, radio, loopVars>>

Next ==
  \/ ArduinoTask \/ EventTask \/ EthEvent
  \/ WifiConnected \/ WifiLost \/ ThirtySeconds \/ LeaveSetup \/ RestoreSetup

(* Both tasks run, and time passes; the networks owe nothing. *)
Fairness ==
  /\ WF_vars(ArduinoTask)
  /\ WF_vars(EventTask)
  /\ WF_vars(ThirtySeconds)

Spec == Init /\ [][Next]_vars /\ Fairness

-----------------------------------------------------------------------------
(* Types; the counter is compared with ==, so it must not pass the limit. *)
TypeOK ==
  /\ configured \in BOOLEAN
  /\ pc \in {"ethConnected?", "ethLinkUp?", "enable", "switch", "loop", "delay", "reboot"}
  /\ enable \in BOOLEAN
  /\ evPc \in {"idle", "disable", "disconnect", "enable", "connect"}
  /\ eth \in {"down", "up", "ip"}
  /\ ethLinkUp \in BOOLEAN
  /\ ethConnected \in BOOLEAN
  /\ wifiEnabled \in BOOLEAN
  /\ radio \in {"off", "trying", "connected"}
  /\ prevState \in BOOLEAN
  /\ reconnectCount \in 0..MaxReconnects
  /\ checkDue \in BOOLEAN
  /\ inSetup \in BOOLEAN

(***************************************************************************)
(* The counter counts attempts since the last connection handleLoop() saw: *)
(* it is 0 while m_wifiPrevState says connected, and the limit is reached  *)
(* only on the way into the reboot.                                        *)
(***************************************************************************)
CountsFailures ==
  /\ prevState => reconnectCount = 0
  /\ reconnectCount = MaxReconnects <=> pc = "reboot"

(***************************************************************************)
(* The dock does not stay offline silently: WiFi that is enabled gets a    *)
(* connection, or is disabled for Ethernet, or the dock reboots, unless a  *)
(* restored SETUP keeps loop() from calling handleLoop().                  *)
(***************************************************************************)
RecoversOrReboots ==
  (pc = "loop" /\ ~inSetup /\ wifiEnabled /\ radio # "connected") ~>
     (radio = "connected" \/ ~wifiEnabled \/ pc = "reboot" \/ inSetup)

(***************************************************************************)
(* A connection that lasts clears the attempts it took.                    *)
(***************************************************************************)
ConnectionForgives ==
  <>[](pc = "loop" /\ ~inSetup /\ wifiEnabled /\ radio = "connected")
    => <>[](reconnectCount = 0)

(***************************************************************************)
(* "Wifi disabled" (service_network.cpp:154): with no switch under way the *)
(* radio is off while m_wifiEnabled is false.                              *)
(***************************************************************************)
WifiStaysOff ==
  pc = "loop" /\ evPc = "idle" /\ ~wifiEnabled => radio = "off"
=============================================================================

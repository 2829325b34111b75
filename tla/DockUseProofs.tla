---------------------------- MODULE DockUseProofs ----------------------------
(***************************************************************************)
(* Bluetooth and the stored network, for any pin levels, any requests and  *)
(* any interleaving of the tasks of DockUse.                               *)
(*                                                                         *)
(* SetupBluetooth looks at the state some steps after setup() chose the    *)
(* network, and other tasks set the state in between.  None of them    *)
(* sets SETUP, but a task that leaves a learning event restores what was   *)
(* saved: the invariant therefore follows the saved state too.             *)
(***************************************************************************)
EXTENDS DockUse, TLAPS

Choosing == {"network", "link", "wifi"}
InSetup  == {"start", "pin", "connect", "bluetooth"} \cup Choosing

(* Before the look at the state no Bluetooth runs, and before the network  *)
(* nobody else sets a state.                                               *)
Early ==
  /\ at \in InSetup => ~bluetooth
  /\ at \in {"start", "pin"} => ~leaving /\ eth = "down"

(* What SETUP can come back from. *)
SetupGone ==
  /\ at \in Choosing /\ leaving => currentState # "SETUP"
  /\ at = "connect" => configured /\ ~misread
  /\ at \in {"connect", "bluetooth"} /\ configured /\ ~misread =>
       currentState # "SETUP" /\ (leaving => prevState # "SETUP")

Returns == at = "event" => ret \in {"identify", "charging"}

IInv == Early /\ SetupGone /\ Returns /\ BluetoothUnconfigured

(* Whatever state is set, the one saved was the current or the saved one.  *)
LEMMA SaveKeeps ==
  ASSUME NEW s, SetState(s)
  PROVE  currentState' = s /\ prevState' \in {currentState, prevState}
BY DEF SetState

(* setup() keeps the invariant: it ends in loop() with the answer to the   *)
(* question of Bluetooth.                                                  *)
LEMMA SetupKeeps == IInv /\ Setup => IInv'
<1> SUFFICES ASSUME IInv, Setup PROVE IInv'
  OBVIOUS
<1> USE DEF IInv, Early, SetupGone, Returns, BluetoothUnconfigured, InSetup, Choosing, inputs, Goto
<1>1. CASE SetupState
  BY <1>1, SaveKeeps DEF SetupState
<1>2. CASE SetupChargingPin
  BY <1>2, SaveKeeps DEF SetupChargingPin, stateVars
<1>3. CASE SetupEthConnected
  BY <1>3 DEF SetupEthConnected, SetState, Timed, stateVars
<1>6. CASE SetupEthLinkUp
  BY <1>6 DEF SetupEthLinkUp, SetState, Timed, stateVars
<1>7. CASE SetupWifi
  <2>1. PICK stored \in {configured, FALSE} :
          /\ misread' = (stored # configured)
          /\ IF stored THEN at' = "connect" /\ SetState("CONNECTING")
                       ELSE at' = "bluetooth" /\ UNCHANGED stateVars
    BY <1>7 DEF SetupWifi
  <2>2. CASE stored
    BY <1>7, <2>1, <2>2 DEF SetupWifi, SetState, Timed
  <2>3. CASE ~stored
    <3>1. configured => misread'
      BY <2>1, <2>3
    <3> QED
      BY <1>7, <2>1, <2>3, <3>1 DEF SetupWifi
  <2> QED
    BY <2>2, <2>3
<1>4. CASE SetupConnect
  BY <1>4 DEF SetupConnect, SetState, Timed
<1>5. CASE SetupBluetooth
  BY <1>5 DEF SetupBluetooth, stateVars
<1> QED
  BY <1>1, <1>2, <1>3, <1>4, <1>5, <1>6, <1>7 DEF Setup

(* loop() neither starts Bluetooth nor goes back into setup() without a    *)
(* restart, and it stores a network only when it is about to restart.      *)
LEMMA LoopKeeps ==
  IInv /\ (HandleCharging \/ SetCharging \/ Requests \/ SetupService \/ NetworkAndOta
           \/ ResetCheck \/ ConfigReset \/ StateLoop \/ Restart) => IInv'
<1> SUFFICES ASSUME IInv,
                    HandleCharging \/ SetCharging \/ Requests \/ SetupService \/ NetworkAndOta
                    \/ ResetCheck \/ ConfigReset \/ StateLoop \/ Restart
             PROVE  IInv'
  OBVIOUS
<1> USE DEF IInv, Early, SetupGone, Returns, BluetoothUnconfigured, InSetup, Choosing, inputs, Goto
<1>1. CASE HandleCharging
  <2>1. at' \in {"api", "setCharging", "setNormal"}
    BY <1>1 DEF HandleCharging, PinCheck
  <2> QED
    BY <1>1, <2>1 DEF HandleCharging, stateVars
<1>2. CASE SetCharging
  BY <1>2 DEF SetCharging
<1>3. CASE Requests
  <2>2. CASE NoRequest \/ Command \/ RgbTest \/ RgbTestStop \/ IrReceive
    BY <2>2 DEF NoRequest, Command, RgbTest, RgbTestStop, IrReceive, Request, Unchanged
  <2>3. CASE RestartRequest
    BY <2>3 DEF RestartRequest, Request
  <2> QED
    BY <1>3, <2>2, <2>3 DEF Requests
<1>4. CASE SetupService
  BY <1>4 DEF SetupService, stateVars
<1>5. CASE NetworkAndOta
  BY <1>5 DEF NetworkAndOta
<1>6. CASE ResetCheck
  BY <1>6 DEF ResetCheck
<1>7. CASE ConfigReset
  BY <1>7 DEF ConfigReset
<1>8. CASE StateLoop
  BY <1>8 DEF StateLoop, TimeoutCheck, TimeoutEvent
<1>9. CASE Restart
  BY <1>9 DEF Restart
<1> QED
  BY <1>1, <1>2, <1>3, <1>4, <1>5, <1>6, <1>7, <1>8, <1>9

(* The other tasks set states, none of them SETUP. *)
LEMMA OthersKeep ==
  IInv /\ (GcRequest \/ LearnEvent \/ LearnLeave \/ EthEvent \/ Environment) => IInv'
<1> SUFFICES ASSUME IInv, GcRequest \/ LearnEvent \/ LearnLeave \/ EthEvent \/ Environment
             PROVE  IInv'
  OBVIOUS
<1> USE DEF IInv, Early, SetupGone, Returns, BluetoothUnconfigured, InSetup, Choosing, inputs, Others
<1>1. CASE GcRequest
  <2>1. PICK s \in {"IDENTIFY", "NORMAL", "IR_LEARNING"} : SetState(s)
    BY <1>1 DEF GcRequest
  <2> QED
    BY <1>1, <2>1, SaveKeeps DEF GcRequest, Serving, NoWifiYet
<1>2. CASE LearnEvent
  <2>1. PICK s \in LearnResults : SetState(s)
    BY <1>2 DEF LearnEvent
  <2>2. s # "SETUP" /\ s \notin Timed
    BY StatesAssumption DEF Events, Timed
  <2>3. currentState' = s /\ prevState' = currentState
    BY <2>1, <2>2 DEF SetState
  <2> QED
    BY <1>2, <2>2, <2>3 DEF LearnEvent, Serving, NoWifiYet
<1>3. CASE LearnLeave
  BY <1>3 DEF LearnLeave
<1>4. CASE EthEvent
  BY <1>4, SaveKeeps DEF EthEvent, stateVars
<1>5. CASE Environment
  BY <1>5 DEF Environment, stateVars
<1> QED
  BY <1>1, <1>2, <1>3, <1>4, <1>5

LEMMA Inductive == Spec => []IInv
<1>1. Init => IInv
  BY DEF Init, IInv, Early, SetupGone, Returns, BluetoothUnconfigured
<1>2. IInv /\ [Next]_vars => IInv'
  <2>1. IInv /\ Next => IInv'
    BY SetupKeeps, LoopKeeps, OthersKeep DEF Next, ArduinoTask
  <2>2. IInv /\ UNCHANGED vars => IInv'
    BY DEF vars, inputs, stateVars, IInv, Early, SetupGone, Returns, BluetoothUnconfigured
  <2> QED
    BY <2>1, <2>2
<1> QED
  BY <1>1, <1>2, PTL DEF Spec

(***************************************************************************)
(* On a dock that has a network stored, Bluetooth, which takes requests    *)
(* without a token, runs only if setup() could not read the network, or in *)
(* the moment before a restart: in setup() (main.cpp:168-199) no other     *)
(* task can bring SETUP back between the choice of the network and the     *)
(* look at the state.  The clash of the getters is the one way to it.      *)
(***************************************************************************)
THEOREM BluetoothIsClosed == Spec => []BluetoothUnconfigured
<1>1. IInv => BluetoothUnconfigured
  BY DEF IInv
<1> QED
  BY <1>1, Inductive, PTL
=============================================================================

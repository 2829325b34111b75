------------------------ MODULE NetworkServiceProofs ------------------------
(***************************************************************************)
(* The count of failed reconnections, for every limit above one.  With a   *)
(* limit of one the first failure would reboot with m_wifiPrevState still  *)
(* set, and CountsFailures would not hold.                                 *)
(***************************************************************************)
EXTENDS NetworkService, TLAPS

USE ReconnectsAssumption

-----------------------------------------------------------------------------
(* TypeOK in two parts: the flags, and the rest.                           *)

Flags ==
  /\ configured \in BOOLEAN /\ enable \in BOOLEAN
  /\ ethLinkUp \in BOOLEAN /\ ethConnected \in BOOLEAN
  /\ wifiEnabled \in BOOLEAN /\ prevState \in BOOLEAN
  /\ checkDue \in BOOLEAN /\ inSetup \in BOOLEAN

Values ==
  /\ pc \in {"ethConnected?", "ethLinkUp?", "enable", "switch", "loop", "delay", "reboot"}
  /\ evPc \in {"idle", "disable", "disconnect", "enable", "connect"}
  /\ eth \in {"down", "up", "ip"}
  /\ radio \in {"off", "trying", "connected"}
  /\ reconnectCount \in 0..MaxReconnects

LEMMA TypeParts == TypeOK <=> Flags /\ Values
BY DEF TypeOK, Flags, Values

(* The counter stays within its type because it is at the limit only while *)
(* the dock reboots.                                                       *)
CountInv == Values /\ CountsFailures

LEMMA InitInvariant == Init => Flags /\ CountInv
<1> SUFFICES ASSUME Init PROVE Flags /\ CountInv
  OBVIOUS
<1>1. configured \in BOOLEAN
  BY ConfiguredAssumption DEF Init
<1>2. Flags
  BY <1>1 DEF Init, Flags
<1>3. CountInv
  BY DEF Init, CountInv, Values, CountsFailures
<1> QED
  BY <1>2, <1>3

LEMMA FlagsPreserved == Flags /\ [Next]_vars => Flags'
<1> SUFFICES ASSUME Flags, [Next]_vars PROVE Flags'
  OBVIOUS
<1> USE DEF Flags, ethVars, loopVars
<1>1. CASE SetupEthConnected
  BY <1>1 DEF SetupEthConnected
<1>2. CASE SetupEthLinkUp
  BY <1>2 DEF SetupEthLinkUp
<1>3. CASE SetupEnable
  BY <1>3 DEF SetupEnable
<1>4. CASE SetupSwitch
  BY <1>4 DEF SetupSwitch, Begin, Disconnect
<1>5. CASE LoopLost
  BY <1>5 DEF LoopLost, HandlesLoop, Disconnect
<1>6. CASE LoopReconnect
  BY <1>6 DEF LoopReconnect, Begin
<1>7. CASE LoopConnected
  BY <1>7 DEF LoopConnected, HandlesLoop
<1>8. CASE Reboot
  BY <1>8 DEF Reboot
<1>9. CASE EventDisable
  BY <1>9 DEF EventDisable
<1>10. CASE EventDisconnect
  BY <1>10 DEF EventDisconnect, Disconnect
<1>11. CASE EventEnable
  BY <1>11 DEF EventEnable
<1>12. CASE EventConnect
  BY <1>12 DEF EventConnect, Begin
<1>13. CASE EthLinkUp
  BY <1>13 DEF EthLinkUp
<1>14. CASE EthGotIp
  BY <1>14 DEF EthGotIp
<1>15. CASE EthDisconnected
  BY <1>15 DEF EthDisconnected
<1>16. CASE WifiConnected
  BY <1>16 DEF WifiConnected
<1>17. CASE WifiLost
  BY <1>17 DEF WifiLost
<1>18. CASE ThirtySeconds
  BY <1>18 DEF ThirtySeconds
<1>19. CASE LeaveSetup
  BY <1>19 DEF LeaveSetup
<1>20. CASE RestoreSetup
  BY <1>20 DEF RestoreSetup
<1>21. CASE UNCHANGED vars
  BY <1>21 DEF vars
<1> QED
  BY <1>1, <1>2, <1>3, <1>4, <1>5, <1>6, <1>7, <1>8, <1>9, <1>10,
     <1>11, <1>12, <1>13, <1>14, <1>15, <1>16, <1>17, <1>18, <1>19, <1>20,
     <1>21
     DEF Next, ArduinoTask, EventTask, EthEvent

LEMMA CountPreserved == CountInv /\ [Next]_vars => CountInv'
<1> SUFFICES ASSUME CountInv, [Next]_vars PROVE CountInv'
  OBVIOUS
<1> USE DEF CountInv, Values, CountsFailures, ethVars, loopVars
<1>1. CASE SetupEthConnected
  BY <1>1 DEF SetupEthConnected
<1>2. CASE SetupEthLinkUp
  BY <1>2 DEF SetupEthLinkUp
<1>3. CASE SetupEnable
  BY <1>3 DEF SetupEnable
<1>4. CASE SetupSwitch
  BY <1>4 DEF SetupSwitch, Begin, Disconnect
<1>5. CASE LoopLost
  BY <1>5 DEF LoopLost, HandlesLoop, Disconnect
<1>6. CASE LoopReconnect
  BY <1>6 DEF LoopReconnect, Begin
<1>7. CASE LoopConnected
  BY <1>7 DEF LoopConnected, HandlesLoop
<1>8. CASE Reboot
  BY <1>8 DEF Reboot
<1>9. CASE EventDisable
  BY <1>9 DEF EventDisable
<1>10. CASE EventDisconnect
  BY <1>10 DEF EventDisconnect, Disconnect
<1>11. CASE EventEnable
  BY <1>11 DEF EventEnable
<1>12. CASE EventConnect
  BY <1>12 DEF EventConnect, Begin
<1>13. CASE EthLinkUp
  BY <1>13 DEF EthLinkUp
<1>14. CASE EthGotIp
  BY <1>14 DEF EthGotIp
<1>15. CASE EthDisconnected
  BY <1>15 DEF EthDisconnected
<1>16. CASE WifiConnected
  BY <1>16 DEF WifiConnected
<1>17. CASE WifiLost
  BY <1>17 DEF WifiLost
<1>18. CASE ThirtySeconds
  BY <1>18 DEF ThirtySeconds
<1>19. CASE LeaveSetup
  BY <1>19 DEF LeaveSetup
<1>20. CASE RestoreSetup
  BY <1>20 DEF RestoreSetup
<1>21. CASE UNCHANGED vars
  BY <1>21 DEF vars
<1> QED
  BY <1>1, <1>2, <1>3, <1>4, <1>5, <1>6, <1>7, <1>8, <1>9, <1>10,
     <1>11, <1>12, <1>13, <1>14, <1>15, <1>16, <1>17, <1>18, <1>19, <1>20,
     <1>21
     DEF Next, ArduinoTask, EventTask, EthEvent

LEMMA Invariant == Spec => [](Flags /\ CountInv)
<1>1. Flags /\ CountInv /\ [Next]_vars => (Flags /\ CountInv)'
  BY FlagsPreserved, CountPreserved
<1> QED
  BY <1>1, InitInvariant, PTL DEF Spec

(***************************************************************************)
(* The counter never passes the limit it is compared with by ==.           *)
(***************************************************************************)
THEOREM TypeCorrect == Spec => []TypeOK
BY Invariant, TypeParts, PTL DEF CountInv

(***************************************************************************)
(* A connection that handleLoop() has seen clears the count, and the dock  *)
(* reboots exactly when the count is full.                                 *)
(***************************************************************************)
THEOREM FailuresCounted == Spec => []CountsFailures
BY Invariant, PTL DEF CountInv
-----------------------------------------------------------------------------
(* The event task is not in the middle of a switch while the Arduino task  *)
(* does its own: the last call of setup(), or the way from disconnect() to *)
(* connect() of a reconnection.                                            *)
SwitchesApart == evPc # "idle" => pc \notin {"switch", "delay"}

(* m_wifiEnabled is what the task that switches has set it to. *)
SwitchInv ==
  /\ WifiStaysOff
  /\ pc = "switch" => wifiEnabled = enable
  /\ pc = "delay" => wifiEnabled
  /\ evPc = "connect" => wifiEnabled
  /\ evPc = "disconnect" => ~wifiEnabled

LEMMA SwitchPreserved ==
  ASSUME SwitchesApart, SwitchesApart', SwitchInv, [Next]_vars
  PROVE  SwitchInv'
<1> USE DEF SwitchesApart, SwitchInv, WifiStaysOff, ethVars, loopVars
<1>1. CASE SetupEthConnected
  BY <1>1 DEF SetupEthConnected
<1>2. CASE SetupEthLinkUp
  BY <1>2 DEF SetupEthLinkUp
<1>3. CASE SetupEnable
  BY <1>3 DEF SetupEnable
<1>4. CASE SetupSwitch
  <2>1. CASE enable
    BY <1>4, <2>1 DEF SetupSwitch, Begin
  <2>2. CASE ~enable
    BY <1>4, <2>2 DEF SetupSwitch, Disconnect
  <2> QED
    BY <2>1, <2>2
<1>5. CASE LoopLost
  BY <1>5 DEF LoopLost, HandlesLoop, Disconnect
<1>6. CASE LoopReconnect
  BY <1>6 DEF LoopReconnect, Begin
<1>7. CASE LoopConnected
  BY <1>7 DEF LoopConnected, HandlesLoop
<1>8. CASE Reboot
  BY <1>8 DEF Reboot
<1>9. CASE EventDisable \/ EventDisconnect
  BY <1>9 DEF EventDisable, EventDisconnect, Disconnect
<1>10. CASE EventEnable \/ EventConnect
  BY <1>10 DEF EventEnable, EventConnect, Begin
<1>11. CASE EthEvent
  BY <1>11 DEF EthEvent, EthLinkUp, EthGotIp, EthDisconnected
<1>12. CASE WifiConnected \/ WifiLost
  BY <1>12 DEF WifiConnected, WifiLost
<1>13. CASE ThirtySeconds \/ LeaveSetup \/ RestoreSetup
  BY <1>13 DEF ThirtySeconds, LeaveSetup, RestoreSetup
<1>14. CASE UNCHANGED vars
  BY <1>14 DEF vars
<1> QED
  BY <1>1, <1>2, <1>3, <1>4, <1>5, <1>6, <1>7, <1>8, <1>9, <1>10, <1>11, <1>12, <1>13, <1>14
     DEF Next, ArduinoTask, EventTask

(***************************************************************************)
(* Disabled WiFi goes on the air again only if an Ethernet event comes     *)
(* between the assignment and the call of setWifiEnabled() at the end of   *)
(* setup(), or in the two seconds of a reconnection: where the switches of *)
(* the two tasks stay apart, the radio is off while m_wifiEnabled is       *)
(* false, whatever else the networks and the state of the dock do.         *)
(***************************************************************************)
THEOREM OffWithoutOverlap == Spec /\ []SwitchesApart => []WifiStaysOff
<1>1. Init => SwitchInv
  BY DEF Init, SwitchInv, WifiStaysOff
<1>2. SwitchInv => WifiStaysOff
  BY DEF SwitchInv
<1> QED
  BY <1>1, <1>2, SwitchPreserved, PTL DEF Spec
=============================================================================

------------------------- MODULE MCInfraredService -------------------------
(***************************************************************************)
(* Instances of InfraredService for TLC: the loop task with the serial and *)
(* Bluetooth requests, and one GlobalCache client.                         *)
(***************************************************************************)
EXTENDS InfraredService

CONSTANTS gc1, a, b

NoWsClient  == {}
OneGcClient == {gc1}
OneCode     == {a}
TwoCodes    == {a, b}
BadCodeB    == {b}
NoBadCode   == {}
OneRepeat   == {1}
=============================================================================

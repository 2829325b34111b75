------------------------------ MODULE ApiServer ------------------------------
(***************************************************************************)
(* lib/service_api/service_api.cpp with the setters of lib/config: who may *)
(* change the dock, what of a request is stored, and what the client is    *)
(* told.                                                                   *)
(*                                                                         *)
(* API::loop() runs in the Arduino loop task; the callbacks of the         *)
(* WebSocket server run inside it, so a request is over before the next    *)
(* callback.  A power loss can separate any two of its writes to the NVS,  *)
(* and so can the event task: the network events read settings, through    *)
(* the one Preferences object that all of Config shares without a lock.    *)
(* What the event task does with a value is NetworkService's.              *)
(*                                                                         *)
(* A value is "a", a valid one, or "bad", one that is out of range or too  *)
(* long; some setters adjust a bad value.  Commands that only set the dock *)
(* state or drive the IR service are those of DockState and                *)
(* InfraredService; mDNS, LED brightness, the target of the log and the    *)
(* getters of the loop task but that of the token are left out.            *)
(***************************************************************************)
EXTENDS Sequences, FiniteSets, Naturals

CONSTANTS
  Nums,      \* client numbers of the WebSocket server, used over and over
  Serial,    \* the serial line or Bluetooth: id -1, always authorized
  Fields,    \* the settings that clients of the instance ask for
  Nobody

ASSUME NumsAssumption == Serial \notin Nums /\ Nobody \notin Nums \cup {Serial}

(* The fields of a command, in the order the code looks at them. *)
FieldsOf ==
  [set_config     |-> <<"name", "token", "wifi">>,
   set_brightness |-> <<"status_led", "eth_led">>,
   test_mode      |-> <<"testmode">>,
   set_logging    |-> <<"log_level", "syslog_server", "syslog_enabled">>,
   set_sntp       |-> <<"ntp_servers", "ntp_enabled">>,
   set_ir_config  |-> <<"learn_core", "learn_prio", "send_core", "send_prio">>]

Commands == DOMAIN FieldsOf
FieldSet(c) == {FieldsOf[c][i] : i \in DOMAIN FieldsOf[c]}

\* No two commands share a field.
Earlier(f, g) ==
  \E c \in Commands : \E i, j \in DOMAIN FieldsOf[c] :
    i < j /\ FieldsOf[c][i] = f /\ FieldsOf[c][j] = g

\* Adjusted instead of refused: cut, clamped or set to the default.
Adjusted == {"name", "status_led", "eth_led", "learn_core", "learn_prio",
             "send_core", "send_prio"}
\* Flags have no bad value.
Flags == {"testmode", "syslog_enabled", "ntp_enabled"}

\* The namespace of a setting.
PartOf(f) == IF f = "wifi" THEN "wifi" ELSE "general"

\* Setters that do not look at the result of Preferences::begin().
Unchecked == {"name", "status_led", "eth_led"}

\* Settings a running service has a copy of.
Copied == {"log_level", "learn_prio", "send_prio"}

VARIABLES
  open,       \* client numbers in use
  auth,       \* m_authWsClients
  token,      \* the stored token
  pc,         \* where the loop task is
  by,         \* who asked
  cmd, asked, \* the settings command and its fields with their values
  todo,       \* those of the fields it has not yet looked at
  ok,         \* the local variable ok
  code,       \* the code of the response, 0 before it is sent
  told,       \* the response has an error text
  saved,      \* the fields this request has stored,
  failed,     \* those whose setter returned false,
  lost,       \* and those whose setter did not, but that are not stored
  stored, live,   \* the Copied settings in the NVS and in their service
  wifi,       \* the stored SSID and password
  pref,       \* the namespace m_preferences has open, or "closed"
  evt,        \* the event task: the namespace it is about to open, "reads"
              \* after its begin(), or "away"
  shown,      \* who was let in last with the stored token (history)
  misread     \* who was let in last with the default token, because
              \* getToken() did not read the stored one (history)

session == <<open, auth, shown, misread>>
request == <<cmd, asked, todo, ok, code, told, saved, failed, lost>>
nvs     == <<token, stored, wifi>>
config  == <<pref, evt>>
vars == <<session, pc, by, request, nvs, live, config>>

Default == [f \in Copied |-> "default"]
NoWifi  == [ssid |-> "default", password |-> "default"]

Init ==
  /\ open = {} /\ auth = {} /\ shown = {} /\ misread = {}
  /\ token = "default"
  /\ pc = "idle" /\ by = Nobody
  /\ cmd = "none" /\ asked = <<>> /\ todo = {}
  /\ ok = FALSE /\ code = 0 /\ told = FALSE
  /\ saved = {} /\ failed = {} /\ lost = {}
  /\ stored = Default /\ live = Default
  /\ wifi = NoWifi
  /\ pref = "closed" /\ evt = "away"

-----------------------------------------------------------------------------
(* Connections.                                                            *)

Connected(n) ==
  /\ pc = "idle" /\ n \notin open
  /\ open' = open \cup {n}
  /\ UNCHANGED <<auth, shown, misread, pc, by, request, nvs, live, config>>

(* Mutant: a client that leaves stays authenticated. *)
DropKeepsAuth(n) ==
  /\ open' = open \ {n}
  /\ shown' = shown \ {n}
  /\ misread' = misread \ {n}
  /\ UNCHANGED auth

\* WStype_DISCONNECTED, of a client that left or is sent away.
Drop(n) ==
  /\ open' = open \ {n}
  /\ auth' = auth \ {n}
  /\ shown' = shown \ {n}
  /\ misread' = misread \ {n}

(* A client leaves, or is sent away for an invalid token, a fragment or a  *)
(* binary message, authenticated or not.                                   *)
Disconnected(n) ==
  /\ pc = "idle" /\ n \in open
  /\ Drop(n)
  /\ UNCHANGED <<pc, by, request, nvs, live, config>>

(* An "auth" message: the client's token is compared with that of          *)
(* Config::getToken(), which opens the shared Preferences object, unless   *)
(* it is open already, reads and closes it.                                *)
GetToken(s) ==
  /\ pc = "idle" /\ s \in open \cup {Serial}
  /\ by' = s
  /\ pc' = IF pref = "closed" THEN "tokenOpening" ELSE "tokenOpened"
  /\ UNCHANGED <<session, request, nvs, live, config>>

\* Nobody looks whether the NVS could be opened.
OpenToken ==
  /\ pc = "tokenOpening"
  /\ pref' \in {pref, "general"}
  /\ pc' = "tokenOpened"
  /\ UNCHANGED <<session, by, request, nvs, live, evt>>

\* In a closed or in another namespace there is no token.
ReadToken == IF pref = "general" THEN token ELSE "default"

\* getString() and end().
ReadDone ==
  /\ pc = "tokenOpened"
  /\ pref' = "closed"
  /\ pc' = "idle" /\ by' = Nobody
  /\ UNCHANGED <<request, nvs, live, evt>>

TokenAccepted ==
  /\ ReadDone
  /\ LET client == {by} \ {Serial}
     IN  /\ auth' = auth \cup client
         /\ IF ReadToken = token
              THEN shown' = shown \cup client /\ misread' = misread \ client
              ELSE misread' = misread \cup client /\ shown' = shown \ client
  /\ UNCHANGED open

\* A WebSocket client is sent away.
TokenRefused ==
  /\ ReadDone
  /\ IF by = Serial THEN UNCHANGED session ELSE Drop(by)

Authentication == OpenToken \/ TokenAccepted \/ TokenRefused

-----------------------------------------------------------------------------
(* Requests.  Those that change nothing here are no steps: get_sysinfo,    *)
(* which needs no token, ping, get_ir_config, and what is answered with    *)
(* 401, 400 or 500 before a command is run.                                *)

(* processWsRequest() looks the client up; the other sources are trusted. *)
Authorized(s) == s = Serial \/ s \in auth

(* set_sntp and set_ir_config start with ok = true. *)
SettingsRequest(s) ==
  /\ pc = "idle" /\ Authorized(s)
  /\ \E c \in Commands : \E fs \in SUBSET (FieldSet(c) \cap Fields) :
       /\ c = "test_mode" => fs = FieldSet(c)
       /\ cmd' = c
       /\ asked' \in {a \in [fs -> {"a", "bad"}] : \A f \in fs \cap Flags : a[f] = "a"}
       /\ todo' = fs
       /\ ok' = (c \in {"set_sntp", "set_ir_config"})
  /\ by' = s
  /\ pc' = "fields"
  /\ UNCHANGED <<session, code, told, saved, failed, lost, nvs, live, config>>

-----------------------------------------------------------------------------
(* The fields of a settings command, one after the other.                  *)

Valid(f) == asked[f] = "a" \/ f \in Adjusted

(* Mutant: the answer to set_sntp depends on its last field only. *)
OkAfterLast(f, outcome) ==
  CASE f \in {"name", "status_led", "eth_led"} -> TRUE
    [] f \in {"syslog_enabled", "wifi"} -> ok
    [] f \in FieldSet("set_ir_config") -> ok /\ outcome = "saved"
    [] f \in {"token", "log_level"} /\ outcome = "refused" -> ok
    [] OTHER -> outcome = "saved"

(* Mutant: ok is not set for the name. *)
OkAfterNotName(f, outcome) ==
  CASE f \in {"status_led", "eth_led"} -> TRUE
    [] f \in {"syslog_enabled", "wifi", "name"} -> ok
    [] f \in FieldSet("set_sntp") \cup FieldSet("set_ir_config") -> ok /\ outcome = "saved"
    [] f \in {"token", "log_level"} /\ outcome = "refused" -> ok
    [] OTHER -> outcome = "saved"

(* The variable ok after a field that was "saved", "failed" or "refused".  *)
(* The first three have no result; that of enableSyslog() is not used.     *)
OkAfter(f, outcome) ==
  CASE f \in {"name", "status_led", "eth_led"} -> TRUE
    [] f \in {"syslog_enabled", "wifi"} -> ok
    [] f \in FieldSet("set_sntp") \cup FieldSet("set_ir_config") -> ok /\ outcome = "saved"
    [] f \in {"token", "log_level"} /\ outcome = "refused" -> ok
    [] OTHER -> outcome = "saved"

\* The credentials are looked at only if nothing before them was bad.
WifiSkipped == DOMAIN asked \cap {"name", "token"} # {} /\ ~ok

(* Mutant: a priority is stored as it was given. *)
KeptRaw(f) == asked[f]

(* What is stored of a setting, and what the running service takes: both   *)
(* clamp a priority.                                                       *)
Kept(f)  == IF asked[f] = "a" THEN "a" ELSE "max"
Taken(f) == IF asked[f] = "a" THEN "a" ELSE "max"

Current(f) == f \in todo /\ \A g \in todo : ~Earlier(g, f)

\* Neither refused nor skipped: its setter is called.
Wanted(f) == Valid(f) /\ (f = "wifi" => ~WifiSkipped)

\* The next field is looked at.
Done(f, outcome) ==
  /\ todo' = todo \ {f}
  /\ ok' = OkAfter(f, outcome)
  /\ UNCHANGED <<session, by, cmd, asked, evt>>

\* The service gets the value whether it was stored or not.
Takes(f) == live' = IF f \in Copied THEN [live EXCEPT ![f] = Taken(f)] ELSE live

(* Only the token and the credentials come with an error text. *)
Refuse(f) ==
  /\ pc = "fields" /\ Current(f)
  /\ ~Valid(f) /\ (f = "wifi" => ~WifiSkipped)
  /\ Done(f, "refused")
  /\ told' = (told \/ f \in {"token", "wifi"})
  /\ UNCHANGED <<pc, code, saved, failed, lost, nvs, live, pref>>

SkipWifi(f) ==
  /\ pc = "fields" /\ Current(f)
  /\ f = "wifi" /\ WifiSkipped
  /\ Done(f, "skipped")
  /\ UNCHANGED <<pc, code, told, saved, failed, lost, nvs, live, pref>>

-----------------------------------------------------------------------------
(* A setter: Preferences::begin(), which looks whether it is open before   *)
(* it opens the NVS, put...(), end().                                      *)

BeginSetter(f) ==
  /\ pc = "fields" /\ Current(f) /\ Wanted(f)
  /\ pref = "closed"
  /\ pc' = "opening"
  /\ UNCHANGED <<session, by, request, nvs, live, config>>

Open(f) ==
  /\ pc = "opening" /\ Current(f)
  /\ pref' = PartOf(f)
  /\ pc' = "opened"
  /\ UNCHANGED <<session, by, request, nvs, live, evt>>

\* begin() is false: it was open already, or the NVS could not be opened.
BeginFalse(f) ==
  /\ Current(f) /\ Wanted(f)
  /\ pc = "opening" \/ (pc = "fields" /\ pref # "closed")

Fail(f) ==
  /\ BeginFalse(f) /\ f \notin Unchecked
  /\ Done(f, "failed")
  /\ failed' = failed \cup {f}
  /\ told' = (told \/ f = "wifi")
  /\ Takes(f)
  /\ pc' = "fields"
  /\ UNCHANGED <<code, saved, lost, nvs, pref>>

GoOn(f) ==
  /\ BeginFalse(f) /\ f \in Unchecked
  /\ pc' = "opened"
  /\ UNCHANGED <<session, by, request, nvs, live, config>>

(* Mutant: a setter that could not put its value returns without end(). *)
PutEndMissing(f) ==
  /\ pc = "opened" /\ Current(f) /\ f # "wifi"
  /\ Done(f, "saved")
  /\ Takes(f)
  /\ pref' = IF f = "log_level" THEN pref ELSE "closed"
  /\ pc' = "fields"
  /\ UNCHANGED <<code, told, failed, wifi>>

\* put...() and end(); what put...() returns is not looked at.
PutEnd(f) ==
  /\ pc = "opened" /\ Current(f) /\ f # "wifi"
  /\ Done(f, "saved")
  /\ Takes(f)
  /\ pref' = "closed"
  /\ pc' = "fields"
  /\ UNCHANGED <<code, told, failed, wifi>>

Save(f) ==
  /\ PutEnd(f) /\ pref = PartOf(f)
  /\ saved' = saved \cup {f}
  /\ token' = IF f = "token" THEN "a" ELSE token
  /\ stored' = IF f \in Copied THEN [stored EXCEPT ![f] = Kept(f)] ELSE stored
  /\ UNCHANGED lost

(* The event task has closed the namespace or opened another: the value is *)
(* not stored, or where nobody reads it.                                   *)
Lose(f) ==
  /\ PutEnd(f) /\ pref # PartOf(f)
  /\ lost' = lost \cup {f}
  /\ UNCHANGED <<saved, token, stored>>

\* One half of the credentials: a power loss or an event can come between.
PutWifi(part) ==
  /\ wifi' = IF pref = "wifi" THEN [wifi EXCEPT ![part] = "a"] ELSE wifi
  /\ lost' = IF pref = "wifi" THEN lost ELSE lost \cup {"wifi"}
  /\ UNCHANGED <<token, stored>>

PutSsid ==
  /\ pc = "opened" /\ Current("wifi")
  /\ PutWifi("ssid")
  /\ pc' = "password"
  /\ UNCHANGED <<session, by, cmd, asked, todo, ok, code, told, saved, failed, live, config>>

(* The new credentials are answered, and used after the reboot. *)
PutPassword ==
  /\ pc = "password" /\ Current("wifi")
  /\ PutWifi("password")
  /\ Done("wifi", "saved")
  /\ saved' = IF "wifi" \in lost' THEN saved ELSE saved \cup {"wifi"}
  /\ code' = 200
  /\ pref' = "closed"
  /\ pc' = "goodbye"
  /\ UNCHANGED <<told, failed, live>>

FieldStep ==
  \/ \E f \in Fields :
       \/ Refuse(f) \/ SkipWifi(f)
       \/ BeginSetter(f) \/ Open(f) \/ Fail(f) \/ GoOn(f) \/ Save(f) \/ Lose(f)
  \/ PutSsid \/ PutPassword

-----------------------------------------------------------------------------
(* The event task reads a setting: the brightness of the Ethernet LED, the *)
(* SNTP flag, the WiFi credentials.                                        *)

EventBegin(part) ==
  /\ evt = "away"
  /\ evt' = IF pref = "closed" THEN part ELSE "reads"
  /\ UNCHANGED <<session, pc, by, request, nvs, live, pref>>

EventOpen ==
  /\ evt \in {"general", "wifi"}
  /\ pref' = evt
  /\ evt' = "reads"
  /\ UNCHANGED <<session, pc, by, request, nvs, live>>

EventEnd ==
  /\ evt = "reads"
  /\ pref' = "closed"
  /\ evt' = "away"
  /\ UNCHANGED <<session, pc, by, request, nvs, live>>

EventTask == EventBegin("general") \/ EventBegin("wifi") \/ EventOpen \/ EventEnd

-----------------------------------------------------------------------------
Answer ==
  /\ pc = "fields" /\ todo = {}
  /\ code' = IF ok THEN 200 ELSE IF cmd = "set_ir_config" THEN 500 ELSE 400
  /\ pc' = "answered"
  /\ UNCHANGED <<session, by, cmd, asked, todo, ok, told, saved, failed, lost, nvs, live, config>>

\* The request and its local variables are gone.
Forget ==
  /\ by' = Nobody /\ cmd' = "none" /\ asked' = <<>> /\ todo' = {}
  /\ ok' = FALSE /\ code' = 0 /\ told' = FALSE
  /\ saved' = {} /\ failed' = {} /\ lost' = {}

Return ==
  /\ pc = "answered"
  /\ Forget
  /\ pc' = "idle"
  /\ UNCHANGED <<session, nvs, live, config>>

-----------------------------------------------------------------------------
(* Reboot and reset.                                                       *)

RebootRequest(s) ==
  /\ pc = "idle" /\ Authorized(s)
  /\ by' = s
  /\ pc' = "goodbye"
  /\ UNCHANGED <<session, request, nvs, live, config>>

(* The command, or the reset button (resetMarker), which answers nobody.   *)
(* This client is disconnected, but all of them are before anyone could    *)
(* notice.                                                                 *)
ResetRequest(s) ==
  /\ pc = "idle" /\ (s = Nobody \/ Authorized(s))
  /\ by' = s
  /\ pc' = "clearGeneral"
  /\ UNCHANGED <<session, request, nvs, live, config>>

(* Config::reset() clears one namespace after the other, unless the event  *)
(* task is in the way, and then erases the partition.                      *)
ClearGeneral ==
  /\ pc = "clearGeneral"
  /\ \/ token' = "default" /\ stored' = Default
     \/ UNCHANGED <<token, stored>>
  /\ pref' = "closed"
  /\ pc' = "clearWifi"
  /\ UNCHANGED <<session, by, request, wifi, live, evt>>

ClearWifi ==
  /\ pc = "clearWifi"
  /\ wifi' \in {wifi, NoWifi}
  /\ pref' = "closed"
  /\ pc' = "erase"
  /\ UNCHANGED <<session, by, request, token, stored, live, evt>>

Erase ==
  /\ pc = "erase"
  /\ token' = "default" /\ stored' = Default /\ wifi' = NoWifi
  /\ pc' = "goodbye"
  /\ UNCHANGED <<session, by, request, live, config>>

(* ESP.restart(), or a power loss at any time: connections, requests and   *)
(* members are gone; services read their settings.                         *)
Restart ==
  /\ open' = {} /\ auth' = {} /\ shown' = {} /\ misread' = {}
  /\ Forget
  /\ pc' = "idle"
  /\ live' = stored
  /\ pref' = "closed" /\ evt' = "away"
  /\ UNCHANGED nvs

-----------------------------------------------------------------------------
Next ==
  \/ \E n \in Nums : Connected(n) \/ Disconnected(n)
  \/ \E s \in Nums \cup {Serial} :
       GetToken(s) \/ SettingsRequest(s) \/ RebootRequest(s)
  \/ Authentication
  \/ \E s \in Nums \cup {Serial, Nobody} : ResetRequest(s)
  \/ FieldStep \/ Answer \/ Return
  \/ ClearGeneral \/ ClearWifi \/ Erase \/ Restart
  \/ EventTask

Spec == Init /\ [][Next]_vars

-----------------------------------------------------------------------------
(***************************************************************************)
(* What is stored, or running until the next boot, changes only for the    *)
(* serial line, Bluetooth, the reset button, or a client that on this      *)
(* connection has shown the stored token, or the default one to a          *)
(* getToken() that the event task disturbed or that could not open the     *)
(* NVS: a number that is used again starts without either.                 *)
(***************************************************************************)
ChangesNeedToken ==
  [][nvs' # nvs \/ (live' # live /\ pc' # "idle")
       => by \in shown \cup misread \cup {Serial}
          \/ (by = Nobody /\ pc \in {"clearGeneral", "clearWifi", "erase"})]_vars

(***************************************************************************)
(* A 200 without an error text means that all that was asked for is stored *)
(* or was lost to the event task.  The exceptions are settings whose       *)
(* setter has no result or whose result is not looked at, and a log level  *)
(* next to a syslog server, whose result replaces that of the level.       *)
(***************************************************************************)
AcceptedMeansStored ==
  pc = "answered" /\ code = 200 /\ ~told =>
    DOMAIN asked \subseteq
      saved \cup lost \cup {"name", "status_led", "eth_led", "syslog_enabled"}
            \cup (IF "syslog_server" \in DOMAIN asked THEN {"log_level"} ELSE {})

(***************************************************************************)
(* A set_config that is answered with 400 has stored nothing, unless the   *)
(* NVS failed: a bad token keeps the WiFi credentials from being stored    *)
(* and used.                                                               *)
(***************************************************************************)
RejectedStoresNothing ==
  pc = "answered" /\ cmd = "set_config" /\ code = 400 /\ failed = {} => saved = {}

(***************************************************************************)
(* What was saved is what runs: the service and the configuration agree on *)
(* the value, and it is the same after the next boot.                      *)
(***************************************************************************)
SavedIsLive ==
  pc = "answered" => \A f \in saved \cap Copied : live[f] = stored[f]

(***************************************************************************)
(* Whoever calls begin() for whom, the shared Preferences object is closed *)
(* in the end: it is open only while somebody has an end() before him.  If *)
(* it stayed open, every later setter would fail until the next boot.      *)
(***************************************************************************)
ConfigComesBack ==
  pref # "closed" => evt = "reads" \/ pc \in {"tokenOpened", "opened", "password"}

(***************************************************************************)
(* "Returns true if the values were stored" (config.h:46) and "Returns     *)
(* true if the token was stored" (config.h:54).                            *)
(***************************************************************************)
TrueMeansStored == lost \cap {"wifi", "token"} = {}
=============================================================================

--------------------------- MODULE ApiServerProofs ---------------------------
(***************************************************************************)
(* Who may change the dock, what an answer says of what is stored, and     *)
(* that the configuration is never left open, for any number of client     *)
(* numbers and any set of fields.                                          *)
(***************************************************************************)
EXTENDS ApiServer, TLAPS

Setting  == {"fields", "opening", "opened", "password"}
Clearing == {"clearGeneral", "clearWifi", "erase"}

(* Authenticated clients have shown a token that passed, and nobody comes  *)
(* or goes while a request is worked on.                                   *)
Entitled ==
  /\ auth \subseteq shown \cup misread
  /\ pc \in Setting => by \in shown \cup misread \cup {Serial}
  /\ pc \in Clearing => by \in shown \cup misread \cup {Serial, Nobody}

\* The steps that write neither the NVS nor a running service.
Harmless ==
  \/ \E n \in Nums : Connected(n) \/ Disconnected(n)
  \/ \E s \in Nums \cup {Serial} : GetToken(s) \/ SettingsRequest(s) \/ RebootRequest(s)
  \/ Authentication
  \/ \E s \in Nums \cup {Serial, Nobody} : ResetRequest(s)
  \/ Answer \/ Return \/ EventTask \/ UNCHANGED vars

LEMMA NextSplits ==
  ASSUME [Next]_vars
  PROVE  Harmless \/ FieldStep \/ ClearGeneral \/ ClearWifi \/ Erase \/ Restart
BY DEF Next, Harmless

LEMMA FieldStepKeeps ==
  ASSUME FieldStep
  PROVE  /\ pc \in Setting /\ pc' \in Setting \cup {"goodbye"}
         /\ UNCHANGED <<session, by>>
BY DEF FieldStep, Refuse, SkipWifi, BeginSetter, Open, BeginFalse, Fail, GoOn, Save, Lose,
   PutEnd, PutSsid, PutPassword, Done, Setting

Reading == pc \in {"tokenOpening", "tokenOpened"}

LEMMA AuthenticationKeeps ==
  ASSUME Authentication
  PROVE  /\ Reading /\ pc' \in {"tokenOpened", "idle"}
         /\ pref' = "closed" \/ pc' = "tokenOpened"
         /\ auth' \subseteq shown' \cup misread' \/ ~(auth \subseteq shown \cup misread)
         /\ UNCHANGED <<request, nvs, live, evt>>
BY DEF Authentication, OpenToken, TokenAccepted, TokenRefused, ReadDone, Drop, Reading, session

LEMMA HarmlessKeeps ==
  ASSUME Harmless
  PROVE  UNCHANGED <<nvs, live>>
<1> USE DEF nvs
<1>1. ASSUME NEW n \in Nums, Connected(n) \/ Disconnected(n)
      PROVE  UNCHANGED <<nvs, live>>
  BY <1>1 DEF Connected, Disconnected
<1>2. ASSUME NEW s \in Nums \cup {Serial, Nobody},
             GetToken(s) \/ SettingsRequest(s) \/ RebootRequest(s) \/ ResetRequest(s)
      PROVE  UNCHANGED <<nvs, live>>
  BY <1>2 DEF GetToken, SettingsRequest, RebootRequest, ResetRequest
<1>3. CASE Answer \/ Return \/ UNCHANGED vars
  BY <1>3 DEF Answer, Return, vars
<1>4. CASE EventTask
  BY <1>4 DEF EventTask, EventBegin, EventOpen, EventEnd
<1>5. CASE Authentication
  BY <1>5, AuthenticationKeeps
<1> QED
  BY <1>1, <1>2, <1>3, <1>4, <1>5 DEF Harmless

LEMMA EntitledStep == Entitled /\ [Next]_vars => Entitled'
<1> SUFFICES ASSUME Entitled, [Next]_vars PROVE Entitled'
  OBVIOUS
<1> USE DEF Entitled, session, Setting, Clearing
<1>1. CASE Harmless
  <2>1. ASSUME NEW n \in Nums, Connected(n) \/ Disconnected(n)
        PROVE  Entitled'
    BY <2>1 DEF Connected, Disconnected, Drop
  <2>2. ASSUME NEW s \in Nums \cup {Serial}, GetToken(s) \/ SettingsRequest(s) \/ RebootRequest(s)
        PROVE  Entitled'
    BY <2>2 DEF GetToken, SettingsRequest, RebootRequest, Authorized
  <2>3. ASSUME NEW s \in Nums \cup {Serial, Nobody}, ResetRequest(s) PROVE Entitled'
    BY <2>3 DEF ResetRequest, Authorized
  <2>4. CASE Answer \/ Return \/ UNCHANGED vars
    BY <2>4 DEF Answer, Return, vars
  <2>5. CASE EventTask
    BY <2>5 DEF EventTask, EventBegin, EventOpen, EventEnd
  <2>6. CASE Authentication
    BY <2>6, AuthenticationKeeps
  <2> QED
    BY <1>1, <2>1, <2>2, <2>3, <2>4, <2>5, <2>6 DEF Harmless
<1>2. CASE FieldStep
  BY <1>2, FieldStepKeeps
<1>3. CASE ClearGeneral \/ ClearWifi \/ Erase
  BY <1>3 DEF ClearGeneral, ClearWifi, Erase
<1>4. CASE Restart
  BY <1>4 DEF Restart
<1> QED
  BY <1>1, <1>2, <1>3, <1>4, NextSplits

(***************************************************************************)
(* The configuration changes only for the serial line, Bluetooth, the      *)
(* button, or a client that on this connection has shown the stored token, *)
(* or the default one to a getter that did not read the stored one,        *)
(* however the event task and the loop task overlap in it.                 *)
(***************************************************************************)
THEOREM ChangesAuthorized == Spec => ChangesNeedToken
<1>1. Init => Entitled
  BY DEF Init, Entitled, Setting, Clearing
<1>2. Entitled /\ [Next]_vars =>
        (nvs' # nvs \/ (live' # live /\ pc' # "idle")
           => by \in shown \cup misread \cup {Serial} \/ (by = Nobody /\ pc \in Clearing))
  <2> SUFFICES ASSUME Entitled, [Next]_vars,
                      nvs' # nvs \/ (live' # live /\ pc' # "idle")
               PROVE  pc \in Setting \cup Clearing
    BY DEF Entitled
  <2>1. ~Harmless
    BY HarmlessKeeps
  <2>2. ~Restart
    BY DEF Restart, nvs
  <2>3. CASE FieldStep
    BY <2>3, FieldStepKeeps
  <2>4. CASE ClearGeneral \/ ClearWifi \/ Erase
    BY <2>4 DEF ClearGeneral, ClearWifi, Erase, Clearing
  <2> QED
    BY <2>1, <2>2, <2>3, <2>4, NextSplits
<1> QED
  BY <1>1, <1>2, EntitledStep, PTL DEF Spec, ChangesNeedToken, Clearing

-----------------------------------------------------------------------------
(***************************************************************************)
(* However the event task and the loop task overlap in begin() and end(),  *)
(* the shared Preferences object does not stay open.                       *)
(***************************************************************************)
THEOREM ConfigIsClosed == Spec => []ConfigComesBack
<1> USE DEF ConfigComesBack, config
<1>1. Init => ConfigComesBack
  BY DEF Init
<1>2. ConfigComesBack /\ [Next]_vars => ConfigComesBack'
  <2> SUFFICES ASSUME ConfigComesBack, [Next]_vars PROVE ConfigComesBack'
    OBVIOUS
  <2>1. CASE Harmless
    <3>1. ASSUME NEW n \in Nums, Connected(n) \/ Disconnected(n)
          PROVE  ConfigComesBack'
      BY <3>1 DEF Connected, Disconnected
    <3>2. ASSUME NEW s \in Nums \cup {Serial, Nobody},
                 GetToken(s) \/ SettingsRequest(s) \/ RebootRequest(s) \/ ResetRequest(s)
          PROVE  ConfigComesBack'
      BY <3>2 DEF GetToken, SettingsRequest, RebootRequest, ResetRequest
    <3>3. CASE Answer \/ Return \/ UNCHANGED vars
      BY <3>3 DEF Answer, Return, vars
    <3>4. CASE EventTask
      BY <3>4 DEF EventTask, EventBegin, EventOpen, EventEnd
    <3>5. CASE Authentication
      BY <3>5, AuthenticationKeeps
    <3> QED
      BY <2>1, <3>1, <3>2, <3>3, <3>4, <3>5 DEF Harmless
  <2>2. CASE FieldStep
    BY <2>2 DEF FieldStep, Refuse, SkipWifi, BeginSetter, Open, BeginFalse, Fail, GoOn, Save,
       Lose, PutEnd, PutSsid, PutPassword, Done
  <2>3. CASE ClearGeneral \/ ClearWifi \/ Erase \/ Restart
    BY <2>3 DEF ClearGeneral, ClearWifi, Erase, Restart
  <2> QED
    BY <2>1, <2>2, <2>3, NextSplits
<1> QED
  BY <1>1, <1>2, PTL DEF Spec

-----------------------------------------------------------------------------
(* What a request has saved is, in the NVS and in the service, what it     *)
(* asked for; outside of a request nothing is saved.                       *)
Matched ==
  /\ stored \in [Copied -> {"default", "a", "max"}]
  /\ live \in [Copied -> {"default", "a", "max"}]
  /\ pc \in Setting \cup {"answered"} =>
       \A f \in saved \cap Copied : stored[f] = Kept(f) /\ live[f] = Taken(f)
  /\ pc = "idle" \/ Reading => saved = {}

LEMMA FieldStepMatched == Matched /\ FieldStep => Matched'
<1> SUFFICES ASSUME Matched, FieldStep PROVE Matched'
  OBVIOUS
<1> USE DEF Matched, Reading, Setting, nvs, config, Kept, Taken
<1>1. ASSUME NEW f \in Fields, Refuse(f) \/ SkipWifi(f) \/ BeginSetter(f) \/ Open(f) \/ GoOn(f)
      PROVE  Matched'
  BY <1>1 DEF Refuse, SkipWifi, BeginSetter, Open, GoOn, BeginFalse, Done, request
<1>2. ASSUME NEW f \in Fields, Fail(f) PROVE Matched'
  <2>1. /\ UNCHANGED <<stored, asked, saved>> /\ pc \in Setting /\ pc' = "fields"
        /\ live' = IF f \in Copied THEN [live EXCEPT ![f] = Taken(f)] ELSE live
    BY <1>2 DEF Fail, BeginFalse, Done, Takes
  <2> QED
    BY <2>1
<1>3. ASSUME NEW f \in Fields, Save(f) PROVE Matched'
  <2>1. /\ UNCHANGED asked /\ pc \in Setting /\ pc' = "fields"
        /\ saved' = saved \cup {f}
        /\ live' = IF f \in Copied THEN [live EXCEPT ![f] = Taken(f)] ELSE live
        /\ stored' = IF f \in Copied THEN [stored EXCEPT ![f] = Kept(f)] ELSE stored
    BY <1>3 DEF Save, PutEnd, Done, Takes
  <2> QED
    BY <2>1
<1>4. ASSUME NEW f \in Fields, Lose(f) PROVE Matched'
  <2>1. /\ UNCHANGED <<stored, asked, saved>> /\ pc \in Setting /\ pc' = "fields"
        /\ live' = IF f \in Copied THEN [live EXCEPT ![f] = Taken(f)] ELSE live
    BY <1>4 DEF Lose, PutEnd, Done, Takes
  <2> QED
    BY <2>1
<1>5. CASE PutSsid \/ PutPassword
  <2>1. "wifi" \notin Copied
    BY DEF Copied
  <2>2. /\ UNCHANGED <<stored, live, asked>> /\ pc \in Setting
        /\ pc' \in {"password", "goodbye"} /\ saved' \subseteq saved \cup {"wifi"}
    BY <1>5 DEF PutSsid, PutPassword, PutWifi, Done
  <2> QED
    BY <2>1, <2>2
<1> QED
  BY <1>1, <1>2, <1>3, <1>4, <1>5 DEF FieldStep

LEMMA HarmlessMatched == Matched /\ Harmless => Matched'
<1> SUFFICES ASSUME Matched, Harmless PROVE Matched'
  OBVIOUS
<1> USE DEF Matched, Reading, Setting, nvs, Kept, Taken, request
<1>1. ASSUME NEW n \in Nums, Connected(n) \/ Disconnected(n)
      PROVE  Matched'
  BY <1>1 DEF Connected, Disconnected
<1>2. ASSUME NEW s \in Nums \cup {Serial}, SettingsRequest(s) PROVE Matched'
  <2>1. pc = "idle" /\ pc' = "fields" /\ UNCHANGED <<stored, live, saved>>
    BY <1>2 DEF SettingsRequest
  <2> QED
    BY <2>1
<1>3. ASSUME NEW s \in Nums \cup {Serial, Nobody},
             GetToken(s) \/ RebootRequest(s) \/ ResetRequest(s)
      PROVE  Matched'
  BY <1>3 DEF GetToken, RebootRequest, ResetRequest
<1>4. CASE Answer \/ Return \/ UNCHANGED vars
  BY <1>4 DEF Answer, Return, Forget, vars
<1>5. CASE EventTask
  BY <1>5 DEF EventTask, EventBegin, EventOpen, EventEnd
<1>6. CASE Authentication
  BY <1>6, AuthenticationKeeps
<1> QED
  BY <1>1, <1>2, <1>3, <1>4, <1>5, <1>6 DEF Harmless

(***************************************************************************)
(* What was saved is what runs: for any fields, in any order, with any of  *)
(* the setters failing, the configuration and the service clamp a value in *)
(* the same way and never disagree on it.                                  *)
(***************************************************************************)
THEOREM SavedRuns == Spec => []SavedIsLive
<1>1. Init => Matched
  BY DEF Init, Matched, Reading, Setting, Default
<1>2. Matched /\ [Next]_vars => Matched'
  <2>1. Matched /\ (ClearGeneral \/ ClearWifi \/ Erase \/ Restart) => Matched'
    BY DEF Matched, Reading, ClearGeneral, ClearWifi, Erase, Restart, Forget, Setting, Default,
       nvs, request
  <2> QED
    BY <2>1, NextSplits, FieldStepMatched, HarmlessMatched
<1>3. Matched => SavedIsLive
  BY DEF Matched, SavedIsLive, Kept, Taken
<1> QED
  BY <1>1, <1>2, <1>3, PTL DEF Spec

-----------------------------------------------------------------------------
(* What the answer says of a settings command, at each of its fields.      *)

Exempt == {"name", "status_led", "eth_led", "syslog_enabled"}
            \cup (IF "syslog_server" \in DOMAIN asked THEN {"log_level"} ELSE {})

Working == pc \in Setting \cup {"answered"}

\* The fields have been looked at in their order up to now.
InOrder ==
  /\ cmd \in Commands /\ todo \subseteq DOMAIN asked /\ DOMAIN asked \subseteq FieldSet(cmd)
  /\ \A g \in DOMAIN asked \ todo : \A f \in todo : ~Earlier(f, g)

\* No later field has made up for one that is not stored.
Accounted ==
  /\ \A f \in (DOMAIN asked \ todo) \ Exempt : f \in saved \cup lost \/ ~ok \/ told
  /\ cmd = "set_logging" /\ "log_level" \in todo => ~ok

AnswerInv ==
  /\ ok \in BOOLEAN
  /\ Working => InOrder /\ Accounted
  /\ pc = "answered" => todo = {} /\ (code = 200 => ok)

\* A set_config that is going to be rejected has stored nothing.
RejectInv ==
  /\ Working /\ cmd = "set_config" /\ failed = {} /\ ~ok => saved = {}
  /\ pc = "answered" /\ cmd = "set_config" /\ code = 400 => ~ok
  /\ pc = "idle" \/ Reading => saved = {}

LEMMA FieldSets ==
  /\ Commands = {"set_config", "set_brightness", "test_mode", "set_logging", "set_sntp",
                 "set_ir_config"}
  /\ FieldSet("set_config") = {"name", "token", "wifi"}
  /\ FieldSet("set_brightness") = {"status_led", "eth_led"}
  /\ FieldSet("test_mode") = {"testmode"}
  /\ FieldSet("set_logging") = {"log_level", "syslog_server", "syslog_enabled"}
  /\ FieldSet("set_sntp") = {"ntp_servers", "ntp_enabled"}
  /\ FieldSet("set_ir_config") = {"learn_core", "learn_prio", "send_core", "send_prio"}
<1>1. /\ FieldsOf["set_config"] = <<"name", "token", "wifi">>
      /\ FieldsOf["set_brightness"] = <<"status_led", "eth_led">>
      /\ FieldsOf["test_mode"] = <<"testmode">>
      /\ FieldsOf["set_logging"] = <<"log_level", "syslog_server", "syslog_enabled">>
      /\ FieldsOf["set_sntp"] = <<"ntp_servers", "ntp_enabled">>
      /\ FieldsOf["set_ir_config"] = <<"learn_core", "learn_prio", "send_core", "send_prio">>
  BY DEF FieldsOf
<1>2. ASSUME NEW a, NEW b, NEW c, NEW d
      PROVE  /\ DOMAIN <<a>> = {1} /\ DOMAIN <<a, b>> = {1, 2}
             /\ DOMAIN <<a, b, c>> = {1, 2, 3} /\ DOMAIN <<a, b, c, d>> = {1, 2, 3, 4}
  OBVIOUS
<1>3. ASSUME NEW a, NEW b, NEW c, NEW d
      PROVE  /\ {<<a>>[i] : i \in {1}} = {a}
             /\ {<<a, b>>[i] : i \in {1, 2}} = {a, b}
             /\ {<<a, b, c>>[i] : i \in {1, 2, 3}} = {a, b, c}
             /\ {<<a, b, c, d>>[i] : i \in {1, 2, 3, 4}} = {a, b, c, d}
  OBVIOUS
<1>4. Commands = {"set_config", "set_brightness", "test_mode", "set_logging", "set_sntp",
                  "set_ir_config"}
  BY DEF Commands, FieldsOf
<1> QED
  BY <1>1, <1>2, <1>3, <1>4 DEF FieldSet

LEMMA EarlierFields ==
  /\ Earlier("name", "token") /\ Earlier("name", "wifi") /\ Earlier("token", "wifi")
  /\ Earlier("log_level", "syslog_server") /\ Earlier("log_level", "syslog_enabled")
<1>1. /\ FieldsOf["set_config"] = <<"name", "token", "wifi">>
      /\ FieldsOf["set_logging"] = <<"log_level", "syslog_server", "syslog_enabled">>
      /\ "set_config" \in Commands /\ "set_logging" \in Commands
  BY DEF FieldsOf, Commands
<1>2. ASSUME NEW c \in Commands, NEW x, NEW y, NEW z, FieldsOf[c] = <<x, y, z>>
      PROVE  Earlier(x, y) /\ Earlier(x, z) /\ Earlier(y, z)
  <2>1. /\ DOMAIN FieldsOf[c] = {1, 2, 3}
        /\ FieldsOf[c][1] = x /\ FieldsOf[c][2] = y /\ FieldsOf[c][3] = z
    BY <1>2
  <2> QED
    BY <2>1 DEF Earlier
<1> QED
  BY <1>1, <1>2

LEMMA DoneInOrder ==
  ASSUME InOrder, NEW f, Current(f), NEW outcome, Done(f, outcome)
  PROVE  InOrder'
BY DEF InOrder, Current, Done

(* A field that sets ok again comes before every field the answer is about. *)
LEMMA DoneAccounted ==
  ASSUME InOrder, Accounted, ok \in BOOLEAN,
         NEW f, Current(f), NEW outcome, Done(f, outcome),
         saved \subseteq saved', lost \subseteq lost', told => told',
         f \in Exempt \cup saved' \cup lost' \/ told' \/ ~ok'
  PROVE  Accounted'
<1> USE DEF InOrder, Accounted, Current
<1>1. f \in DOMAIN asked /\ todo' = todo \ {f} /\ asked' = asked /\ cmd' = cmd
  BY DEF Done
<1>2. Exempt' = Exempt
  BY <1>1 DEF Exempt
<1>3. ASSUME NEW g \in (DOMAIN asked \ todo) \ Exempt, ~ok PROVE ~ok'
  <2>1. ~Earlier(f, g) /\ g # f
    OBVIOUS
  <2>2. cmd = "set_logging" => f # "log_level"
    BY <2>1, EarlierFields, FieldSets DEF Exempt
  <2> QED
    BY <1>3, <2>1, <2>2, EarlierFields, FieldSets DEF Exempt, Done, OkAfter
<1>4. \A g \in (DOMAIN asked \ todo') \ Exempt : g \in saved' \cup lost' \/ ~ok' \/ told'
  BY <1>1, <1>3
<1>5. cmd = "set_logging" /\ "log_level" \in todo' => ~ok'
  <2>1. SUFFICES ASSUME cmd = "set_logging", "log_level" \in todo, f # "log_level" PROVE FALSE
    BY <1>1
  <2> QED
    BY <2>1, EarlierFields, FieldSets
<1> QED
  BY <1>1, <1>2, <1>4, <1>5

LEMMA FieldStepAnswer ==
  ASSUME AnswerInv, FieldStep
  PROVE  AnswerInv'
<1> USE DEF AnswerInv, Working, Setting
<1>0. ASSUME NEW f, NEW outcome, Done(f, outcome)
      PROVE  (ok \in BOOLEAN => ok' \in BOOLEAN) /\ UNCHANGED <<asked, cmd>> /\ todo' = todo \ {f}
  BY <1>0 DEF Done, OkAfter
<1>1. ASSUME NEW f \in Fields, Refuse(f) PROVE AnswerInv'
  <2>1. /\ pc = "fields" /\ pc' = "fields" /\ Current(f) /\ Done(f, "refused")
        /\ UNCHANGED <<saved, lost>> /\ (told => told')
    BY <1>1 DEF Refuse
  <2>2. f \in FieldSet(cmd) /\ cmd \in Commands
    BY <2>1 DEF InOrder, Current
  <2>3. f \in Exempt \/ told' \/ ~ok'
    <3>1. CASE f \in {"token", "wifi"}
      BY <1>1, <3>1 DEF Refuse
    <3>2. CASE f \in Adjusted \cup Flags
      <4>1. ~Valid(f) /\ f \notin Adjusted
        BY <1>1 DEF Refuse, Valid
      <4>2. CASE f = "syslog_enabled"
        BY <4>2 DEF Exempt
      <4>3. CASE f \in {"testmode", "ntp_enabled"}
        BY <2>1, <4>3, FieldSets DEF Done, OkAfter
      <4> QED
        BY <3>2, <4>1, <4>2, <4>3 DEF Flags
    <3>3. CASE f = "log_level"
      <4>1. cmd = "set_logging"
        BY <2>2, <3>3, FieldSets
      <4>2. ~ok
        BY <2>1, <3>3, <4>1 DEF Accounted, Current
      <4> QED
        BY <2>1, <3>3, <4>2, FieldSets DEF Done, OkAfter
    <3>4. CASE f \in {"syslog_server", "ntp_servers"}
      BY <2>1, <3>4, FieldSets DEF Done, OkAfter
    <3> QED
      BY <2>2, <3>1, <3>2, <3>3, <3>4, FieldSets DEF Adjusted, Flags
  <2> QED
    BY <1>0, <2>1, <2>3, DoneInOrder, DoneAccounted
<1>2. ASSUME NEW f \in Fields, SkipWifi(f) PROVE AnswerInv'
  <2>1. /\ pc = "fields" /\ pc' = "fields" /\ Current(f) /\ Done(f, "skipped")
        /\ UNCHANGED <<saved, lost, told>> /\ f = "wifi" /\ ~ok
    BY <1>2 DEF SkipWifi, WifiSkipped
  <2>2. ~ok'
    BY <2>1 DEF Done, OkAfter
  <2> QED
    BY <1>0, <2>1, <2>2, DoneInOrder, DoneAccounted
<1>3. ASSUME NEW f \in Fields, Fail(f) PROVE AnswerInv'
  <2>1. /\ pc \in Setting /\ pc' = "fields" /\ Current(f) /\ Done(f, "failed")
        /\ UNCHANGED <<saved, lost>> /\ (told => told') /\ (f = "wifi" => told')
        /\ f \notin Unchecked
    BY <1>3 DEF Fail, BeginFalse
  <2>2. f \in Exempt \/ told' \/ ~ok'
    <3>1. CASE f \in {"syslog_enabled", "wifi"}
      BY <2>1, <3>1 DEF Exempt
    <3>2. CASE f \notin {"syslog_enabled", "wifi"}
      BY <2>1, <3>2 DEF Done, OkAfter, Unchecked
    <3> QED
      BY <3>1, <3>2
  <2> QED
    BY <1>0, <2>1, <2>2, DoneInOrder, DoneAccounted
<1>4. ASSUME NEW f \in Fields, Save(f) \/ Lose(f) PROVE AnswerInv'
  <2>1. /\ pc \in Setting /\ pc' = "fields" /\ Current(f) /\ Done(f, "saved")
        /\ saved \subseteq saved' /\ lost \subseteq lost' /\ f \in saved' \cup lost'
        /\ UNCHANGED told
    BY <1>4 DEF Save, Lose, PutEnd
  <2> QED
    BY <1>0, <2>1, DoneInOrder, DoneAccounted
<1>5. ASSUME NEW f \in Fields, BeginSetter(f) \/ Open(f) \/ GoOn(f)
      PROVE  AnswerInv'
  <2>1. pc \in Setting /\ pc' \in Setting /\ UNCHANGED request
    BY <1>5 DEF BeginSetter, Open, GoOn, BeginFalse
  <2> QED
    BY <2>1 DEF request, InOrder, Accounted, Exempt
<1>6. CASE PutSsid
  <2>1. /\ pc \in Setting /\ pc' \in Setting /\ lost \subseteq lost'
        /\ UNCHANGED <<cmd, asked, todo, ok, told, saved>>
    BY <1>6 DEF PutSsid, PutWifi
  <2> QED
    BY <2>1 DEF InOrder, Accounted, Exempt
<1>7. CASE PutPassword
  BY <1>0, <1>7 DEF PutPassword
<1> QED
  BY <1>1, <1>2, <1>3, <1>4, <1>5, <1>6, <1>7 DEF FieldStep

LEMMA HarmlessAnswer ==
  ASSUME AnswerInv, Harmless
  PROVE  AnswerInv'
<1> USE DEF AnswerInv, Working, Setting, request
<1>1. ASSUME NEW n \in Nums, Connected(n) \/ Disconnected(n)
      PROVE  AnswerInv'
  BY <1>1 DEF Connected, Disconnected
<1>2. ASSUME NEW s \in Nums \cup {Serial}, SettingsRequest(s)
      PROVE  AnswerInv'
  <2>1. /\ cmd' \in Commands /\ DOMAIN asked' = todo' /\ todo' \subseteq FieldSet(cmd')
        /\ ok' = (cmd' \in {"set_sntp", "set_ir_config"})
    BY <1>2 DEF SettingsRequest
  <2>2. pc' = "fields"
    BY <1>2 DEF SettingsRequest
  <2>3. ok' \in BOOLEAN /\ (cmd' = "set_logging" => ~ok')
    <3>1. ASSUME NEW x, NEW c, NEW b, x = (c \in b) PROVE x \in BOOLEAN
      BY <3>1, SMT
    <3>2. ASSUME NEW x, NEW c, NEW b, x = (c \in b), c \notin b PROVE ~x
      BY <3>2, Zenon
    <3> QED
      BY <2>1, <3>1, <3>2
  <2>4. InOrder'
    BY <2>1 DEF InOrder
  <2>5. Accounted'
    BY <2>1, <2>3 DEF Accounted
  <2> QED
    BY <2>2, <2>3, <2>4, <2>5
<1>3. ASSUME NEW s \in Nums \cup {Serial, Nobody},
             GetToken(s) \/ RebootRequest(s) \/ ResetRequest(s)
      PROVE  AnswerInv'
  BY <1>3 DEF GetToken, RebootRequest, ResetRequest
<1>4. CASE Answer
  <2>1. /\ pc = "fields" /\ pc' = "answered" /\ todo = {} /\ (code' = 200 => ok)
        /\ UNCHANGED <<cmd, asked, todo, ok, told, saved, lost>>
    BY <1>4 DEF Answer
  <2> QED
    BY <2>1 DEF InOrder, Accounted, Exempt
<1>5. CASE Return
  BY <1>5 DEF Return, Forget
<1>6. CASE UNCHANGED vars
  BY <1>6 DEF vars, InOrder, Accounted, Exempt
<1>7. CASE EventTask
  BY <1>7 DEF EventTask, EventBegin, EventOpen, EventEnd, InOrder, Accounted, Exempt
<1>8. CASE Authentication
  BY <1>8, AuthenticationKeeps DEF Reading
<1> QED
  BY <1>1, <1>2, <1>3, <1>4, <1>5, <1>6, <1>7, <1>8 DEF Harmless

LEMMA AnswerInvariant == Spec => []AnswerInv
<1>1. Init => AnswerInv
  BY DEF Init, AnswerInv, Working, Setting
<1>2. AnswerInv /\ [Next]_vars => AnswerInv'
  <2>1. AnswerInv /\ (ClearGeneral \/ ClearWifi \/ Erase \/ Restart)
          => AnswerInv'
    BY DEF AnswerInv, Working, Setting, ClearGeneral, ClearWifi, Erase, Restart, Forget, request
  <2> QED
    BY <2>1, NextSplits, FieldStepAnswer, HarmlessAnswer
<1> QED
  BY <1>1, <1>2, PTL DEF Spec

(***************************************************************************)
(* A 200 without an error text accounts for every field, whatever fields   *)
(* came together, whichever setters failed and whatever the event task did *)
(* in between: ok is one variable for all fields of a command, and no      *)
(* later field covers up for an earlier one but for the exceptions that    *)
(* AcceptedMeansStored names.                                              *)
(***************************************************************************)
THEOREM AcceptedIsStored == Spec => []AcceptedMeansStored
<1>1. AnswerInv => AcceptedMeansStored
  BY DEF AnswerInv, Working, Accounted, Exempt, AcceptedMeansStored
<1> QED
  BY <1>1, AnswerInvariant, PTL

LEMMA FieldStepReject ==
  ASSUME AnswerInv, RejectInv, FieldStep
  PROVE  RejectInv'
<1> USE DEF RejectInv, Reading, Working, Setting
<1>1. ASSUME NEW f \in Fields, Refuse(f) \/ SkipWifi(f) PROVE RejectInv'
  <2>1. /\ pc = "fields" /\ pc' = "fields" /\ UNCHANGED <<cmd, saved, failed>>
        /\ Current(f) /\ f # "name"
        /\ IF f = "wifi" THEN \E outcome : Done(f, outcome) ELSE Done(f, "refused")
    BY <1>1 DEF Refuse, SkipWifi, Done, Valid, Adjusted
  <2>2. cmd = "set_config" => f \in {"token", "wifi"}
    BY <2>1, FieldSets DEF AnswerInv, InOrder, Current
  <2>3. cmd = "set_config" => UNCHANGED ok
    BY <2>1, <2>2, FieldSets DEF Done, OkAfter
  <2> QED
    BY <2>1, <2>3
<1>2. ASSUME NEW f \in Fields, BeginSetter(f) \/ Open(f) \/ GoOn(f) PROVE RejectInv'
  <2>1. pc \in Setting /\ pc' \in Setting /\ UNCHANGED request
    BY <1>2 DEF BeginSetter, Open, GoOn, BeginFalse
  <2> QED
    BY <2>1 DEF request
<1>3. ASSUME NEW f \in Fields, Fail(f) PROVE RejectInv'
  BY <1>3 DEF Fail
<1>4. ASSUME NEW f \in Fields, Save(f) \/ Lose(f) PROVE RejectInv'
  <2>1. /\ pc \in Setting /\ pc' = "fields" /\ Done(f, "saved") /\ Current(f)
        /\ UNCHANGED cmd /\ f # "wifi"
    BY <1>4 DEF Save, Lose, PutEnd, Done
  <2>2. cmd = "set_config" => f \in {"name", "token"}
    BY <2>1, FieldSets DEF AnswerInv, InOrder, Current
  <2>3. cmd = "set_config" => ok'
    BY <2>1, <2>2, FieldSets DEF Done, OkAfter
  <2> QED
    BY <2>1, <2>3
<1>5. CASE PutSsid
  BY <1>5 DEF PutSsid
<1>6. CASE PutPassword
  BY <1>6 DEF PutPassword
<1> QED
  BY <1>1, <1>2, <1>3, <1>4, <1>5, <1>6 DEF FieldStep

LEMMA HarmlessReject ==
  ASSUME AnswerInv, RejectInv, Harmless
  PROVE  RejectInv'
<1> USE DEF RejectInv, Reading, Working, Setting, request
<1>1. ASSUME NEW n \in Nums, Connected(n) \/ Disconnected(n)
      PROVE  RejectInv'
  BY <1>1 DEF Connected, Disconnected
<1>2. ASSUME NEW s \in Nums \cup {Serial, Nobody},
             GetToken(s) \/ SettingsRequest(s) \/ RebootRequest(s) \/ ResetRequest(s)
      PROVE  RejectInv'
  BY <1>2 DEF GetToken, SettingsRequest, RebootRequest, ResetRequest
<1>3. CASE Answer
  BY <1>3 DEF Answer
<1>4. CASE Return \/ UNCHANGED vars
  BY <1>4 DEF Return, Forget, vars
<1>5. CASE EventTask
  BY <1>5 DEF EventTask, EventBegin, EventOpen, EventEnd
<1>6. CASE Authentication
  BY <1>6, AuthenticationKeeps
<1> QED
  BY <1>1, <1>2, <1>3, <1>4, <1>5, <1>6 DEF Harmless

(***************************************************************************)
(* A set_config that is answered with 400 has stored nothing unless a      *)
(* setter failed: a bad token keeps the credentials from being stored.  A  *)
(* name is stored in any case, and makes the answer a 200.                 *)
(***************************************************************************)
THEOREM RejectedIsNotStored == Spec => []RejectedStoresNothing
<1>1. Init => RejectInv
  BY DEF Init, RejectInv, Reading, Working, Setting
<1>2. AnswerInv /\ RejectInv /\ [Next]_vars => RejectInv'
  <2>1. RejectInv /\ (ClearGeneral \/ ClearWifi \/ Erase \/ Restart) => RejectInv'
    BY DEF RejectInv, Reading, Working, Setting, ClearGeneral, ClearWifi, Erase, Restart, Forget,
       request
  <2> QED
    BY <2>1, NextSplits, FieldStepReject, HarmlessReject
<1>3. RejectInv => RejectedStoresNothing
  BY DEF RejectInv, Working, RejectedStoresNothing
<1> QED
  BY <1>1, <1>2, <1>3, AnswerInvariant, PTL DEF Spec
-----------------------------------------------------------------------------
(* The event task reads no setting between begin() and end() of a setter.  *)
Undisturbed == pc \in {"opening", "opened", "password"} => evt = "away"

(* The setters that look at the result of begin() have their namespace     *)
(* open when they put a value.                                             *)
StoreInv ==
  /\ TrueMeansStored
  /\ pc = "opened" => \A f \in {"token", "wifi"} : Current(f) => pref = PartOf(f)
  /\ pc = "password" => pref = "wifi"

\* The field that is looked at is one, for the fields of set_config.
LEMMA CurrentIsOne ==
  ASSUME InOrder, NEW f, Current(f), NEW g \in {"token", "wifi"}, Current(g)
  PROVE  f = g
<1>1. cmd = "set_config" /\ f \in {"name", "token", "wifi"}
  BY FieldSets DEF InOrder, Current
<1> QED
  BY <1>1, EarlierFields DEF Current

LEMMA FieldStepStores ==
  ASSUME AnswerInv, StoreInv, FieldStep
  PROVE  StoreInv'
<1> USE DEF StoreInv, TrueMeansStored
<1>1. pc \in Setting => InOrder
  BY DEF AnswerInv, Working
<1>2. ASSUME NEW f \in Fields, Refuse(f) \/ SkipWifi(f) \/ BeginSetter(f) \/ Fail(f)
      PROVE  StoreInv'
  BY <1>2 DEF Refuse, SkipWifi, BeginSetter, Fail, request
<1>3. ASSUME NEW f \in Fields, Open(f) PROVE StoreInv'
  <2>1. /\ pc = "opening" /\ pc' = "opened" /\ Current(f) /\ pref' = PartOf(f)
        /\ UNCHANGED <<todo, lost>>
    BY <1>3 DEF Open, request
  <2>2. \A g \in {"token", "wifi"} : Current(g) => f = g
    BY <1>1, <2>1, CurrentIsOne DEF Setting
  <2> QED
    BY <2>1, <2>2 DEF Current
<1>4. ASSUME NEW f \in Fields, GoOn(f) PROVE StoreInv'
  <2>1. /\ pc \in Setting /\ pc' = "opened" /\ Current(f) /\ f \in Unchecked
        /\ UNCHANGED <<todo, lost>>
    BY <1>4 DEF GoOn, BeginFalse, Setting, request
  <2>2. \A g \in {"token", "wifi"} : ~Current(g)
    BY <1>1, <2>1, CurrentIsOne DEF Unchecked
  <2> QED
    BY <2>1, <2>2 DEF Current
<1>5. ASSUME NEW f \in Fields, Save(f) PROVE StoreInv'
  BY <1>5 DEF Save, PutEnd
<1>6. ASSUME NEW f \in Fields, Lose(f) PROVE StoreInv'
  <2>1. /\ pc = "opened" /\ pc' = "fields" /\ Current(f) /\ f # "wifi" /\ pref # PartOf(f)
        /\ lost' = lost \cup {f}
    BY <1>6 DEF Lose, PutEnd
  <2>2. f # "token"
    BY <2>1
  <2> QED
    BY <2>1, <2>2
<1>7. CASE PutSsid
  <2>1. pref = "wifi"
    BY <1>7 DEF PutSsid, PartOf
  <2> QED
    BY <1>7, <2>1 DEF PutSsid, PutWifi, config
<1>8. CASE PutPassword
  BY <1>8 DEF PutPassword, PutWifi
<1> QED
  BY <1>2, <1>3, <1>4, <1>5, <1>6, <1>7, <1>8 DEF FieldStep

LEMMA HarmlessStores ==
  ASSUME Undisturbed, StoreInv, Harmless
  PROVE  StoreInv'
<1> USE DEF Undisturbed, StoreInv, TrueMeansStored, request, config
<1>1. ASSUME NEW n \in Nums, Connected(n) \/ Disconnected(n)
      PROVE  StoreInv'
  BY <1>1 DEF Connected, Disconnected
<1>2. ASSUME NEW s \in Nums \cup {Serial, Nobody},
             GetToken(s) \/ SettingsRequest(s) \/ RebootRequest(s) \/ ResetRequest(s)
      PROVE  StoreInv'
  BY <1>2 DEF GetToken, SettingsRequest, RebootRequest, ResetRequest
<1>3. CASE Answer \/ Return
  BY <1>3 DEF Answer, Return, Forget
<1>4. CASE UNCHANGED vars
  BY <1>4 DEF vars, Current
<1>5. ASSUME NEW part, EventBegin(part) PROVE StoreInv'
  BY <1>5 DEF EventBegin, Current
<1>6. CASE EventOpen \/ EventEnd
  <2>1. pc \notin {"opened", "password"} /\ UNCHANGED <<pc, lost>>
    BY <1>6 DEF EventOpen, EventEnd
  <2> QED
    BY <2>1
<1>7. CASE Authentication
  BY <1>7, AuthenticationKeeps
<1> QED
  BY <1>1, <1>2, <1>3, <1>4, <1>5, <1>6, <1>7 DEF Harmless, EventTask

(***************************************************************************)
(* A setter that returns true has stored the token or the credentials      *)
(* unless the event task reads a setting between its begin() and its       *)
(* end(), whatever else the event task reads and whoever asks for what:    *)
(* the two tasks that share one Preferences object are the only cause.     *)
(***************************************************************************)
THEOREM StoredUndisturbed == Spec /\ []Undisturbed => []TrueMeansStored
<1>1. Init => StoreInv
  BY DEF Init, StoreInv, TrueMeansStored
<1>2. Undisturbed /\ AnswerInv /\ StoreInv /\ [Next]_vars => StoreInv'
  <2>1. StoreInv /\ (ClearGeneral \/ ClearWifi \/ Erase \/ Restart) => StoreInv'
    BY DEF StoreInv, TrueMeansStored, ClearGeneral, ClearWifi, Erase, Restart, Forget, request
  <2> QED
    BY <2>1, NextSplits, FieldStepStores, HarmlessStores
<1>3. StoreInv => TrueMeansStored
  BY DEF StoreInv
<1> QED
  BY <1>1, <1>2, <1>3, AnswerInvariant, PTL DEF Spec
=============================================================================

------------------------------- MODULE IrClient -------------------------------
(***************************************************************************)
(* What a client's text makes the dock do.                                 *)
(*                                                                         *)
(* A GlobalCache client writes requests to a TCP stream; socket_task()     *)
(* takes what one recv() returns, obeys the first request in it and drops  *)
(* the rest.  An API client sends a code in one of three formats, which    *)
(* send_ir_f() turns into the numbers it hands to the IR library.          *)
(***************************************************************************)
EXTENDS IrText

CONSTANTS
  Requests,    \* requests a client sends: the text and what it asks for
  LineEnds,    \* what clients end a request with
  MaxAsked,    \* bound: requests of one client
  Tokens,      \* per format: what codes are made of
  MaxTokens    \* bound: per format, the length of a code

Formats == {"UNFOLDED_CIRCLE", "PRONTO", "GLOBAL_CACHE"}

\* The commands that do something beside their answer.
Commands == {"sendir", "stopir", "blink", "get_IRL", "stop_IRL"}

StreamTokens == UNION {Range(s) : s \in {r.text : r \in Requests} \cup LineEnds}

ASSUME CommandsFit == Commands \cap LongWords = {}

(* A request asks for one thing at most, holds no line end and is no other *)
(* request in its middle: parameters are not named like commands.          *)
ASSUME ClientAssumption ==
  /\ \A r \in Requests :
       /\ r.text \in Seq(StreamTokens)
       /\ \A m \in DOMAIN r.text : r.text[m] # "CR" /\ (m # 1 => r.text[m] \notin Commands)
       /\ r.asks = <<>> \/ r.asks = <<Head(r.asks)>>
  /\ \A e \in LineEnds :
       /\ e \in Seq(StreamTokens) /\ e # <<>> /\ e[1] = "CR"
       /\ \A m \in DOMAIN e : e[m] \notin Commands
  /\ DOMAIN Tokens = Formats /\ DOMAIN MaxTokens = Formats

\* The index of the loops that read a code is an int16_t; the WebSocket library
\* takes messages of up to 15 KB, which ArduinoJson does not copy.
ASSUME LengthAssumption ==
  \A f \in Formats : MaxTokens[f] \in Nat /\ MaxTokens[f] < 32768

-----------------------------------------------------------------------------
(* The forms of the requests that do something, as a client writes them:   *)
(* what each of them asks for, said without the parser.                    *)

\* <command>,<module>:<port>
Addressed(s) ==
  /\ Len(s) >= 5
  /\ s[1] \in Commands /\ s[2] = Comma /\ s[4] = ":"
  /\ s[3] = "1" /\ s[3] \in Numbers /\ NumberOf[s[3]] = 1
  /\ s[5] \in Numbers /\ NumberOf[s[5]] \in 1 .. 15

\* sendir,<module>:<port>,<ID>,<freq>,<repeat>,<offset>,<on1>,<off1>,...
SendirRequest(s, commas) ==
  /\ Addressed(s) /\ s[1] = "sendir"
  /\ commas >= 8 /\ Len(s) = 2 * commas + 3 /\ Len(s) < Word
  /\ \A k \in 2 .. commas : s[2 * k + 2] = Comma /\ s[2 * k + 3] \in Numbers
  /\ NumberOf[s[11]] \in 1 .. 50

\* Everything from the frequency on, as the IR library gets it.
SendirValues(s, commas) == [m \in 1 .. commas - 2 |-> NumberOf[s[2 * m + 7]] % Word]

KnownRequest(r) ==
  \/ /\ r.text = <<>> \/ r.text[1] \notin Commands
     /\ r.asks = <<>>
  \/ \E commas \in 8 .. Len(r.text) :
       /\ SendirRequest(r.text, commas)
       /\ r.asks = <<<<"sendGC", NumberOf[r.text[5]], NumberOf[r.text[7]],
                      SendirValues(r.text, commas)>>>>
  \/ /\ Addressed(r.text) /\ Len(r.text) = 5 /\ r.text[1] = "stopir"
     /\ r.asks = <<<<"stopSend">>>>
  \/ /\ r.text = <<"blink">> \/ r.text = <<"blink", Comma, "1">>
     /\ r.asks = <<<<"setState", "IDENTIFY">>>>
  \/ r.text = <<"blink", Comma, "0">> /\ r.asks = <<<<"setState", "NORMAL">>>>
  \/ r.text = <<"get_IRL">> /\ r.asks = <<<<"startIrLearn">>>>
  \/ r.text = <<"stop_IRL">> /\ r.asks = <<<<"stopIrLearn">>>>

VARIABLES
  client,     \* "tcp", or the format of an API client's code
  asked,      \* the requests of the TCP client, in the order it sent them
  wire,       \* what of them the dock has not read yet
  rx,         \* rx_buffer
  done,       \* what socket_task() had the services do
  code,       \* the API client's code
  result      \* what send_ir_f() made of it

vars == <<client, asked, wire, rx, done, code, result>>

NoResult == [ok |-> FALSE, allocated |-> 0, array |-> <<>>]

Init ==
  /\ client \in {"tcp"} \cup Formats
  /\ asked = <<>> /\ wire = <<>> /\ rx = <<>> /\ done = <<>>
  /\ code = <<>>
  /\ result = NoResult

-----------------------------------------------------------------------------
(* GlobalCache clients.                                                    *)

Ask(r, lineEnd) ==
  /\ client = "tcp"
  /\ Len(asked) < MaxAsked
  /\ asked' = Append(asked, r)
  /\ wire' = wire \o r.text \o lineEnd
  /\ UNCHANGED <<client, rx, done, code, result>>

(* sendGlobalCache(), and what the IR task makes of the request: the       *)
(* repeat count takes the second place of the array.                       *)
Sendir(request, id) ==
  LET sent  == sendGlobalCache(request)
      codes == globalCacheBufferToArray(request)
  IN IF sent.error # 0 \/ ~codes.ok THEN <<>>
     ELSE <<<<"sendGC", sent.port, id, [codes.array EXCEPT ![2] = sent.repeat]>>>>

Blink(param) ==
  CASE param \in {NoParam, <<"1">>} -> <<<<"setState", "IDENTIFY">>>>
    [] param = <<"0">>              -> <<<<"setState", "NORMAL">>>>
    [] OTHER                        -> <<>>

(* What a well-formed request does beside its answer; the answer is the    *)
(* Reply of GcServer.                                                      *)
Obey(request) ==
  LET req == parseGcRequest(request)
  IN IF req.error # 0 THEN <<>>
     ELSE CASE req.command = <<"sendir">>   -> Sendir(request, NumberAt(req.param, 1))
            [] req.command = <<"stopir">>   -> <<<<"stopSend">>>>
            [] req.command = <<"blink">>    -> Blink(req.param)
            [] req.command = <<"get_IRL">>  -> <<<<"startIrLearn">>>>
            [] req.command = <<"stop_IRL">> -> <<<<"stopIrLearn">>>>
            [] OTHER -> <<>>

(* Mutant: the error 020 or 016 is sent, and the request handled. *)
HandleGoesOn(buffer) ==
  LET end == Find(buffer, "CR", 1)
  IN Obey(IF end = 0 THEN buffer ELSE SubSeq(buffer, 1, end - 1))

(* Up to the first carriage return; without one it is an error, and        *)
(* nothing but white space is ignored.                                     *)
Handle(buffer) ==
  LET end     == Find(buffer, "CR", 1)
      request == SubSeq(buffer, 1, end - 1)
  IN IF end = 0 \/ FirstOf(request, 1) = 0 THEN <<>> ELSE Obey(request)

(* One pass of socket_task(): whatever recv() returns, whole requests or   *)
(* not; what is behind the first one is gone with the buffer.              *)
Recv ==
  /\ client = "tcp"
  /\ \E n \in 1 .. Len(wire) :
       /\ rx' = SubSeq(wire, 1, n)
       /\ wire' = From(wire, n + 1)
  /\ done' = done \o Handle(rx')
  /\ UNCHANGED <<client, asked, code, result>>

(* recv() returns 0 or less; the next client gets a task of its own. *)
Leave ==
  /\ client = "tcp"
  /\ asked' = <<>> /\ wire' = <<>> /\ rx' = <<>> /\ done' = <<>>
  /\ UNCHANGED <<client, code, result>>

-----------------------------------------------------------------------------
(* API clients.                                                            *)

(* The client composes its code; a number takes all digits there are. *)
Compose(token) ==
  /\ client \in Formats
  /\ Len(code) < MaxTokens[client]
  /\ token \in Numbers /\ code # <<>> => Last(code) \notin Numbers
  /\ code' = Append(code, token)
  /\ result' = NoResult
  /\ UNCHANGED <<client, asked, wire, rx, done>>

Decoded(format, message) ==
  CASE format = "UNFOLDED_CIRCLE" -> buildIRHexData(message)
    [] format = "PRONTO"          -> prontoBufferToArray(message, prontoSeparator(message))
    [] format = "GLOBAL_CACHE"    -> globalCacheBufferToArray(message)

(* send_ir_f() with a repeat count of 0, which overrides nothing. *)
SendIr ==
  /\ client \in Formats
  /\ result' = Decoded(client, code)
  /\ UNCHANGED <<client, asked, wire, rx, done, code>>

Next ==
  \/ \E r \in Requests, e \in LineEnds : Ask(r, e)
  \/ Recv
  \/ Leave
  \/ client \in Formats /\ \E token \in Tokens[client] : Compose(token)
  \/ SendIr

Spec == Init /\ [][Next]_vars

-----------------------------------------------------------------------------
(***************************************************************************)
(* No phantom request: however the stream is cut into recv() buffers, what *)
(* the dock does was asked for, in this order and as a whole.  Requests    *)
(* may be lost, since one buffer is one request, but a part of a request   *)
(* is never taken for another one.                                         *)
(***************************************************************************)
ExecutedWereSent ==
  \E from \in [DOMAIN done -> DOMAIN asked] :
    /\ \A i, j \in DOMAIN done : i < j => from[i] < from[j]
    /\ \A i \in DOMAIN done : asked[from[i]].asks = <<done[i]>>

(***************************************************************************)
(* A request that arrives alone in a buffer is obeyed: parseGcRequest(),   *)
(* sendGlobalCache() and globalCacheBufferToArray(), which each take the   *)
(* text apart on their own, agree on where its fields are.                 *)
(***************************************************************************)
WholeRequestsObeyed ==
  [][\A r \in Requests, e \in LineEnds :
       rx' = r.text \o e /\ Len(wire') < Len(wire) => done' = done \o r.asks]_vars

Semicolons(c) == {m \in DOMAIN c : c[m] = Semicolon}

(* A text "<protocol>;<hex-ir-code>;<bits>;<repeat-count>": its separators  *)
(* are at i, j and k, and the protocol number, which junk may follow, is    *)
(* at p.  White space may stand before each number.  The command has 64     *)
(* bits, the number of bits 16 and the repeat count is 20 at most.          *)
HexFields(c, p, i, j, k) ==
  /\ p < i /\ i < j /\ j < k /\ k < Len(c)
  /\ Semicolons(c) = {i, j, k}
  /\ \A m \in {p, j - 1, k - 1, Len(c)} : c[m] \in Numbers
  /\ \A m \in DOMAIN c \ (p .. i) : m \in {j - 1, j, k - 1, k, Len(c)} \/ c[m] \in White
  /\ NumberOf[c[p]] # 0
  /\ NumberOf[c[j - 1]] <= ULLongMax
  /\ NumberOf[c[k - 1]] \in 1 .. Word - 1
  /\ NumberOf[c[Len(c)]] <= 20

(***************************************************************************)
(* buildIRHexData() takes exactly "<protocol>;<hex-ir-code>;<bits>;        *)
(* <repeat-count>" (ir_codes.hpp:57), apart from junk behind the protocol  *)
(* number and white space before a number, and reads each field from its   *)
(* own place.                                                              *)
(***************************************************************************)
HexCodesParse ==
  client = "UNFOLDED_CIRCLE" /\ result # NoResult =>
    /\ result.ok =>
         \E i, j, k \in Semicolons(code) : \E p \in 1 .. i - 1 : HexFields(code, p, i, j, k)
    /\ \A i, j, k \in Semicolons(code) : \A p \in 1 .. i - 1 : HexFields(code, p, i, j, k) =>
         result = [ok |-> TRUE, protocol |-> NumberOf[code[p]], command |-> NumberOf[code[j - 1]],
                   bits |-> NumberOf[code[k - 1]], repeat |-> NumberOf[code[Len(code)]]]

(***************************************************************************)
(* The buffer is measured by one loop and filled by another: the second    *)
(* never writes behind what the first one counted, and a PRONTO code that  *)
(* is accepted has both of its sequences, one after the other, inside.     *)
(***************************************************************************)
ArraysFit ==
  client \in {"PRONTO", "GLOBAL_CACHE"} =>
    /\ Len(result.array) <= result.allocated
    /\ client = "PRONTO" /\ result.ok =>
         LET pairs == [i \in 3 .. 4 |-> (2 * result.array[i]) % Word]
         IN pairs[3] # 0 \/ pairs[4] # 0 => 4 + pairs[3] + pairs[4] <= Len(result.array)
=============================================================================

--------------------------- MODULE InfraredService ---------------------------
(***************************************************************************)
(* lib/service_ir/service_ir.cpp: how an IR code gets from a client to the *)
(* emitters.                                                               *)
(*                                                                         *)
(* Several FreeRTOS tasks meet here without a lock.  The Arduino loop task *)
(* (Api: WebSocket, serial and Bluetooth requests) and one socket task per *)
(* connected GlobalCache client call send() and stopSend().  The "IR send" *)
(* task transmits the one message in m_queue and the "IR learn" task       *)
(* captures codes; both answer over m_apiResponseQueue, which Api drains.  *)
(* Callers talk to the send task through m_queue, m_currentSendCode and    *)
(* the repeat and stop bits of m_eventgroup.  One action is what a task    *)
(* does between two accesses of that shared state.                         *)
(*                                                                         *)
(* Early returns of send() that change nothing (500, 503 while learning,   *)
(* 400, the GlobalCache codes 2..6, and 429) are calls that leave the      *)
(* caller "idle"; the ones taken before the first shared access but the    *)
(* learning bit are steps that change no variable.                         *)
(***************************************************************************)
EXTENDS Naturals, Sequences

CONSTANTS
  Api,           \* the Arduino loop task
  GcClients,     \* GlobalCache socket tasks; each is its own client
  WsClients,     \* WebSocket client numbers, clientId >= 0
  Broadcast,     \* clientId -1: serial and Bluetooth requests, learned codes
  Codes,         \* IR codes
  BadCodes,      \* the ones the send task fails to parse
  Repeats,       \* values of the repeat parameter
  ResponseCap,   \* length of m_apiResponseQueue
  NoMessage      \* m_queue is empty

Callers    == {Api} \cup GcClients
ApiClients == WsClients \cup {Broadcast}

ASSUME CallersAssumption ==
  /\ Api \notin GcClients
  /\ GcClients \cap ApiClients = {}
ASSUME DataAssumption ==
  /\ BadCodes \subseteq Codes
  /\ {"none", "writing", "garbled"} \cap Codes = {}
  /\ Repeats \subseteq Nat
  /\ ResponseCap \in Nat \ {0}

Messages == [client : ApiClients \cup GcClients, code : Codes, repeat : Repeats]

ASSUME NoMessageAssumption == NoMessage \notin Messages

VARIABLES
  pc,               \* where each caller is inside send() or stopSend()
  msg,              \* the message each caller asks to send
  queue,            \* m_queue, of length 1
  learning,         \* IR_LEARNING_BIT
  repeatBit,        \* IR_REPEAT_BIT
  stopBit,          \* IR_REPEAT_STOP_BIT
  currentSendCode,  \* m_currentSendCode, a String no lock protects
  irPc,             \* where the send task is
  current,          \* its pIrMsg
  repeat,           \* its repeat counter
  seen,             \* the bits repeatCallback has read
  responses,        \* m_apiResponseQueue
  learnPc,          \* where the learn task is
  stopAsked,        \* history: stopSend() during the current message
  repeatFor,        \* history: the code the pending repeat was accepted for
  overlapped        \* history: a call was begun before another was over

callerVars == <<pc, msg>>
bitVars    == <<repeatBit, stopBit>>
taskVars   == <<irPc, current, repeat, seen>>
history    == <<stopAsked, repeatFor, overlapped>>
vars == <<callerVars, queue, learning, bitVars, currentSendCode, taskVars,
          responses, learnPc, history>>

NoBits == [repeat |-> FALSE, stop |-> FALSE]

Response(client, kind) == [client |-> client, kind |-> kind]

(***************************************************************************)
(* What a caller can ask for: the loop task serves the WebSocket clients   *)
(* and the serial and Bluetooth interfaces, a socket task only its own     *)
(* client, and sendGlobalCache() refuses a repeat below 1.                 *)
(***************************************************************************)
MessagesFrom(c) ==
  IF c = Api THEN {m \in Messages : m.client \in ApiClients}
             ELSE {m \in Messages : m.client = c /\ m.repeat > 0}

Init ==
  /\ pc = [c \in Callers |-> "idle"]
  /\ msg = [c \in Callers |-> NoMessage]
  /\ queue = NoMessage
  /\ learning = FALSE
  /\ repeatBit = FALSE
  /\ stopBit = FALSE
  /\ currentSendCode = "none"
  /\ irPc = "peek"
  /\ current = NoMessage
  /\ repeat = 0
  /\ seen = NoBits
  /\ responses = <<>>
  /\ learnPc = "wait"
  /\ stopAsked = "no"
  /\ repeatFor = "none"
  /\ overlapped = FALSE

-----------------------------------------------------------------------------
(* send(), as run by caller c.                                             *)

Goto(c, step) == pc' = [pc EXCEPT ![c] = step]

Return(c) ==
  /\ Goto(c, "idle")
  /\ msg' = [msg EXCEPT ![c] = NoMessage]

NoteOverlap(c) ==
  overlapped' = (overlapped \/ \E d \in Callers \ {c} : pc[d] # "idle")

(* send() returns early while IR_LEARNING_BIT is set. *)
SendCall(c) ==
  /\ pc[c] = "idle"
  /\ ~learning
  /\ \E m \in MessagesFrom(c) : msg' = [msg EXCEPT ![c] = m]
  /\ Goto(c, "count")
  /\ NoteOverlap(c)
  /\ UNCHANGED <<queue, learning, bitVars, currentSendCode, taskVars, responses, learnPc, stopAsked, repeatFor>>

(* The pre-check: is a message waiting in m_queue? *)
SendCount(c) ==
  /\ pc[c] = "count"
  /\ Goto(c, IF queue = NoMessage THEN "clear" ELSE "compare")
  /\ UNCHANGED <<msg, queue, learning, bitVars, currentSendCode, taskVars, responses, learnPc, history>>

(* m_currentSendCode == code.  Read during or after clashing writes, the   *)
(* String may or may not equal the code.                                   *)
TornCode == currentSendCode \in {"writing", "garbled"}

(* Mutant: the comparison is gone. *)
SendCompareAnyCode(c) ==
  /\ pc[c] = "compare"
  /\ IF msg[c].repeat > 0 THEN Goto(c, "setRepeat") /\ UNCHANGED msg
                          ELSE Return(c)
  /\ UNCHANGED <<queue, learning, bitVars, currentSendCode, taskVars, responses, learnPc, history>>

SendCompare(c) ==
  /\ pc[c] = "compare"
  /\ \/ /\ msg[c].repeat > 0
        /\ currentSendCode = msg[c].code \/ TornCode
        /\ Goto(c, "setRepeat")
        /\ UNCHANGED msg
     \/ /\ msg[c].repeat = 0 \/ currentSendCode # msg[c].code
        /\ Return(c)                                      \* 429
  /\ UNCHANGED <<queue, learning, bitVars, currentSendCode, taskVars, responses, learnPc, history>>

(* Accept the call as a repeat of the code being sent: 202. *)
SendRepeat(c) ==
  /\ pc[c] = "setRepeat"
  /\ repeatBit' = TRUE
  /\ repeatFor' = msg[c].code
  /\ Return(c)
  /\ UNCHANGED <<queue, learning, stopBit, currentSendCode, taskVars, responses, learnPc, stopAsked, overlapped>>

(* "new code, clear repeat flags" *)
SendClear(c) ==
  /\ pc[c] = "clear"
  /\ repeatBit' = FALSE
  /\ stopBit' = FALSE
  /\ repeatFor' = "none"
  /\ Goto(c, "enqueue")
  /\ UNCHANGED <<msg, queue, learning, currentSendCode, taskVars, responses, learnPc, stopAsked, overlapped>>

SendEnqueue(c) ==
  /\ pc[c] = "enqueue"
  /\ IF queue = NoMessage
       THEN queue' = msg[c] /\ Goto(c, "assign") /\ UNCHANGED msg
       ELSE Return(c) /\ UNCHANGED queue                  \* 429
  /\ UNCHANGED <<learning, bitVars, currentSendCode, taskVars, responses, learnPc, history>>

(* m_currentSendCode = code: not atomic, and two callers may be at it. *)
OthersWriting(c) == \E d \in Callers \ {c} : pc[d] = "assigning"

AssignBegin(c) ==
  /\ pc[c] = "assign"
  /\ currentSendCode' = IF OthersWriting(c) THEN "garbled" ELSE "writing"
  /\ Goto(c, "assigning")
  /\ UNCHANGED <<msg, queue, learning, bitVars, taskVars, responses, learnPc, history>>

AssignEnd(c) ==
  /\ pc[c] = "assigning"
  /\ currentSendCode' \in
       IF currentSendCode = "writing" THEN {msg[c].code}
       ELSE IF OthersWriting(c) THEN {"garbled"}
       ELSE {msg[c].code, "garbled"}
  /\ Return(c)                                            \* 0
  /\ UNCHANGED <<queue, learning, bitVars, taskVars, responses, learnPc, history>>

-----------------------------------------------------------------------------
(* stopSend() and the learning switch.                                     *)

StopSend(c) ==
  /\ pc[c] = "idle"
  /\ stopBit' = TRUE
  /\ stopAsked' = IF queue # NoMessage /\ stopAsked = "no" THEN "asked" ELSE stopAsked
  /\ NoteOverlap(c)
  /\ Goto(c, "stopClear")
  /\ UNCHANGED <<msg, queue, learning, repeatBit, currentSendCode, taskVars, responses, learnPc, repeatFor>>

StopClear(c) ==
  /\ pc[c] = "stopClear"
  /\ repeatBit' = FALSE
  /\ repeatFor' = "none"
  /\ Goto(c, "idle")
  /\ UNCHANGED <<msg, queue, learning, stopBit, currentSendCode, taskVars, responses, learnPc, stopAsked, overlapped>>

(* startIrLearn() and stopIrLearn(), as far as this component sees them.   *)
SwitchLearning(c) ==
  /\ pc[c] = "idle"
  /\ learning' \in BOOLEAN
  /\ UNCHANGED <<callerVars, queue, bitVars, currentSendCode, taskVars, responses, learnPc, history>>

Caller(c) ==
  \/ SendCall(c) \/ SendCount(c) \/ SendCompare(c) \/ SendRepeat(c)
  \/ SendClear(c) \/ SendEnqueue(c) \/ AssignBegin(c) \/ AssignEnd(c)
  \/ StopSend(c) \/ StopClear(c) \/ SwitchLearning(c)

-----------------------------------------------------------------------------
(* The IR send task, send_ir_f().                                          *)

(* Mutant: the message is received, not peeked. *)
IrPeekReceives ==
  /\ irPc = "peek"
  /\ queue # NoMessage
  /\ queue' = NoMessage
  /\ current' = queue
  /\ repeat' = queue.repeat
  /\ irPc' = IF queue.code \in BadCodes THEN "reply" ELSE "frame"
  /\ UNCHANGED <<callerVars, learning, bitVars, currentSendCode, seen, responses, learnPc, history>>

(* The message stays in m_queue while it is processed. *)
IrPeek ==
  /\ irPc = "peek"
  /\ queue # NoMessage
  /\ current' = queue
  /\ repeat' = queue.repeat
  /\ irPc' = IF queue.code \in BadCodes THEN "reply" ELSE "frame"
  /\ UNCHANGED <<callerVars, queue, learning, bitVars, currentSendCode, seen, responses, learnPc, history>>

(* A frame is on air.  After it the driver calls repeatCallback, which     *)
(* reads the bits, unless the message came without a repeat: then no       *)
(* callback is installed.                                                  *)
IrFrame ==
  /\ irPc = "frame"
  /\ IF current.repeat > 0
       THEN irPc' = "callback" /\ seen' = [repeat |-> repeatBit, stop |-> stopBit]
       ELSE irPc' = "reply" /\ UNCHANGED seen
  /\ UNCHANGED <<callerVars, queue, learning, bitVars, currentSendCode, current, repeat, responses, learnPc, history>>

(* Mutants: a repeat is looked at before a stop; the counter restarts. *)
RepeatLeftRepeatFirst ==
  IF seen.repeat THEN current.repeat ELSE IF seen.stop THEN 0 ELSE repeat

RepeatLeftRestarts == IF seen.stop THEN 0 ELSE current.repeat

RepeatLeft ==
  IF seen.stop THEN 0 ELSE IF seen.repeat THEN current.repeat ELSE repeat

(* The rest of repeatCallback, on the bits it has read. *)
IrCallback ==
  /\ irPc = "callback"
  /\ IF seen.repeat /\ ~seen.stop
       THEN repeatBit' = FALSE /\ repeatFor' = "none"
       ELSE UNCHANGED <<repeatBit, repeatFor>>
  /\ IF RepeatLeft > 0
       THEN /\ repeat' = RepeatLeft - 1
            /\ irPc' = "frame"
            /\ stopAsked' = IF stopAsked = "asked" THEN "late" ELSE stopAsked
       ELSE /\ repeat' = RepeatLeft
            /\ irPc' = "reply"
            /\ UNCHANGED stopAsked
  /\ seen' = NoBits
  /\ UNCHANGED <<callerVars, queue, learning, stopBit, currentSendCode, current, responses, learnPc, overlapped>>

(* Mutant: no bound on the responses. *)
RespondAlways(r) == responses' = Append(responses, r)

(* Both senders wait 10 ms for room and then drop the response. *)
Respond(r) ==
  IF Len(responses) < ResponseCap THEN responses' = Append(responses, r)
                                  ELSE UNCHANGED responses

(* Mutant: the result of a GlobalCache request goes to the API as well. *)
IrReplyToBoth ==
  /\ irPc = "reply"
  /\ Respond(Response(current.client, "sent"))
  /\ irPc' = "release"
  /\ UNCHANGED <<callerVars, queue, learning, bitVars, currentSendCode, current, repeat, seen, learnPc, history>>

(* "completeir" to the socket of a GlobalCache client, a JSON result to    *)
(* the API otherwise.  The socket is a blocking one: while its peer does   *)
(* not read and the buffers of the connection are full, send() waits.      *)
IrReply ==
  /\ irPc = "reply"
  /\ IF current.client \in GcClients
       THEN irPc' \in {"release", "blocked"} /\ UNCHANGED responses
       ELSE irPc' = "release" /\ Respond(Response(current.client, "sent"))
  /\ UNCHANGED <<callerVars, queue, learning, bitVars, currentSendCode, current, repeat, seen, learnPc, history>>

(* The peer reads or goes away, and send() returns.  No peer has to. *)
PeerMakesRoom ==
  /\ irPc = "blocked"
  /\ irPc' = "release"
  /\ UNCHANGED <<callerVars, queue, learning, bitVars, currentSendCode, current, repeat, seen, responses, learnPc, history>>

(* delete pIrMsg; xQueueReset(m_queue) *)
IrRelease ==
  /\ irPc = "release"
  /\ queue' = NoMessage
  /\ current' = NoMessage
  /\ irPc' = "peek"
  /\ repeat' = 0
  /\ stopAsked' = "no"
  /\ UNCHANGED <<callerVars, learning, bitVars, currentSendCode, seen, responses, learnPc, repeatFor, overlapped>>

IrTask == IrPeek \/ IrFrame \/ IrCallback \/ IrReply \/ IrRelease

-----------------------------------------------------------------------------
(* The IR learn task and the API loop.                                     *)

(* The learn task found the bit set and waits 100 ms before it decodes. *)
LearnWait ==
  /\ learnPc = "wait"
  /\ learning
  /\ learnPc' = "decode"
  /\ UNCHANGED <<callerVars, queue, learning, bitVars, currentSendCode, taskVars, responses, history>>

(* Nothing or nothing valid was received, or a learned code is broadcast. *)
LearnDecode ==
  /\ learnPc = "decode"
  /\ UNCHANGED responses \/ Respond(Response(Broadcast, "learned"))
  /\ learnPc' = "wait"
  /\ UNCHANGED <<callerVars, queue, learning, bitVars, currentSendCode, taskVars, history>>

(* Mutant: the response is looked at and left in the queue. *)
ApiResponsePeeks ==
  /\ pc[Api] = "idle"
  /\ responses # <<>>
  /\ UNCHANGED vars

(* API::loop() takes one response per pass, between two requests. *)
ApiResponse ==
  /\ pc[Api] = "idle"
  /\ responses # <<>>
  /\ responses' = Tail(responses)
  /\ UNCHANGED <<callerVars, queue, learning, bitVars, currentSendCode, taskVars, learnPc, history>>

Next ==
  \/ \E c \in Callers : Caller(c)
  \/ IrTask
  \/ PeerMakesRoom
  \/ LearnWait
  \/ LearnDecode
  \/ ApiResponse

(***************************************************************************)
(* A call that was begun goes on, the send and the learn task run whenever *)
(* they can, and the loop task gets to its response poll again and again:  *)
(* it serves finitely many requests per pass.                              *)
(***************************************************************************)
InCall(c) ==
  \/ SendCount(c) \/ SendCompare(c) \/ SendRepeat(c) \/ SendClear(c)
  \/ SendEnqueue(c) \/ AssignBegin(c) \/ AssignEnd(c) \/ StopClear(c)

Fairness ==
  /\ \A c \in Callers : WF_vars(InCall(c))
  /\ WF_vars(IrTask)
  /\ WF_vars(LearnDecode)
  /\ SF_vars(ApiResponse)

Spec == Init /\ [][Next]_vars /\ Fairness

-----------------------------------------------------------------------------
(* Properties.                                                             *)

(***************************************************************************)
(* Types.  responses holds no entry for a GlobalCache client: the branch   *)
(* of apiResponse() that drops one "should not happen".                    *)
(***************************************************************************)
TypeOK ==
  /\ pc \in [Callers -> {"idle", "count", "compare", "setRepeat", "clear",
                          "enqueue", "assign", "assigning", "stopClear"}]
  /\ msg \in [Callers -> Messages \cup {NoMessage}]
  /\ queue \in Messages \cup {NoMessage}
  /\ learning \in BOOLEAN
  /\ repeatBit \in BOOLEAN
  /\ stopBit \in BOOLEAN
  /\ currentSendCode \in Codes \cup {"none", "writing", "garbled"}
  /\ irPc \in {"peek", "frame", "callback", "reply", "blocked", "release"}
  /\ current \in Messages \cup {NoMessage}
  /\ repeat \in Nat
  /\ seen \in [repeat : BOOLEAN, stop : BOOLEAN]
  /\ responses \in Seq([client : ApiClients, kind : {"sent", "learned"}])
  /\ Len(responses) <= ResponseCap
  /\ learnPc \in {"wait", "decode"}
  /\ stopAsked \in {"no", "asked", "late"}
  /\ repeatFor \in Codes \cup {"none"}
  /\ overlapped \in BOOLEAN

(***************************************************************************)
(* While the send task works on a message, that message is what m_queue    *)
(* holds: whatever the callers do meanwhile, xQueueReset() at the end      *)
(* throws away the message just answered and never one accepted since.     *)
(***************************************************************************)
SlotOwned ==
  IF irPc = "peek" THEN current = NoMessage
                   ELSE current # NoMessage /\ queue = current

(***************************************************************************)
(* The callers' protocol, the bits and the send task together are a server *)
(* with one slot that answers every accepted request exactly once.         *)
(***************************************************************************)
Slot == INSTANCE IrSlot WITH
  slot      <- queue,
  answered  <- irPc = "release",
  outbox    <- responses,
  OutboxCap <- ResponseCap

OneSlotServer == Slot!Spec

(***************************************************************************)
(* Once send() has seen an empty queue, there is room for its message:     *)
(* "This should never happen with the pre-check!" (service_ir.cpp:267).    *)
(***************************************************************************)
PreCheckSuffices == \A c \in Callers : pc[c] = "enqueue" => queue = NoMessage

(***************************************************************************)
(* A stop asked for while a message is queued or being sent ends its       *)
(* repeats: at most the one frame starts whose callback had read the bits  *)
(* before the stop.  A call that overlaps another may forget the stop (see *)
(* PreCheckSuffices), so this is about calls that do not.                  *)
(***************************************************************************)
StopEndsRepeat ==
  [][~overlapped /\ stopAsked = "late" => ~(irPc = "callback" /\ irPc' = "frame")]_vars

(***************************************************************************)
(* A pending repeat request is for the code that is being sent, not for    *)
(* the code that was in the slot when the repeat was asked for ("handle IR *)
(* repeat if it's the same command", service_ir.cpp:241), as long as no    *)
(* two calls have overlapped: m_currentSendCode says what the queue holds. *)
(***************************************************************************)
RepeatForSameCode ==
  ~overlapped /\ repeatBit /\ queue # NoMessage => queue.code = repeatFor

(* No peer of the GlobalCache server holds the send task up for ever. *)
PeersRead == []<>(irPc # "blocked")

(***************************************************************************)
(* The slot is given back again and again, unless callers keep having      *)
(* repeats accepted for ever or a GlobalCache peer stays connected without *)
(* reading: the countdown of the repeats ends, and no full response queue, *)
(* learning switch or peer that left holds the send task up.               *)
(***************************************************************************)
Released ==
  PeersRead =>
    \/ []<>(queue = NoMessage)
    \/ []<><<\E c \in Callers : SendRepeat(c)>>_vars

(***************************************************************************)
(* A standing stop wins over any number of accepted repeats.               *)
(***************************************************************************)
StopWins == PeersRead /\ <>[]stopBit => []<>(queue = NoMessage)

(***************************************************************************)
(* A full response queue does not stay full: the API loop comes back to it *)
(* however busy its clients keep it, and whatever holds the send task up.  *)
(***************************************************************************)
ResponsesDrain ==
  (Len(responses) = ResponseCap) ~> (Len(responses) < ResponseCap)
=============================================================================

------------------------ MODULE InfraredServiceProofs ------------------------
(***************************************************************************)
(* Proofs about InfraredService, for every set of tasks, clients, codes    *)
(* and repeats and every length of the response queue.                     *)
(***************************************************************************)
EXTENDS InfraredService, TLAPS

USE CallersAssumption, DataAssumption, NoMessageAssumption

(* The response queue stays well-typed and within its length. *)
LEMMA RespondTyped ==
  ASSUME TypeOK, NEW client \in ApiClients, NEW kind \in {"sent", "learned"},
         Respond(Response(client, kind))
  PROVE  /\ responses' \in Seq([client : ApiClients, kind : {"sent", "learned"}])
         /\ Len(responses') <= ResponseCap
<1> DEFINE R == [client : ApiClients, kind : {"sent", "learned"}]
           r == Response(client, kind)
<1>1. r \in R
  BY DEF Response
<1>2. responses \in Seq(R) /\ Len(responses) \in Nat /\ Len(responses) <= ResponseCap
  BY DEF TypeOK
<1>3. CASE Len(responses) < ResponseCap
  <2>1. responses' = Append(responses, r)
    BY <1>3 DEF Respond
  <2> HIDE DEF R, r
  <2>2. Append(responses, r) \in Seq(R) /\ Len(Append(responses, r)) = Len(responses) + 1
    BY <1>1, <1>2
  <2> QED
    BY <1>2, <1>3, <2>1, <2>2 DEF R
<1>4. CASE ~(Len(responses) < ResponseCap)
  BY <1>2, <1>4 DEF Respond
<1> QED
  BY <1>3, <1>4

(* A message of a caller is a message, and one field of it a code or a repeat. *)
LEMMA MessageFields ==
  /\ \A c \in Callers : MessagesFrom(c) \subseteq Messages
  /\ \A m \in Messages : /\ m.client \in ApiClients \cup GcClients
                         /\ m.code \in Codes
                         /\ m.repeat \in Nat
BY DEF MessagesFrom, Messages

(* What each step of send() needs: a caller inside it has a message. *)
CallHasMessage ==
  \A c \in Callers : pc[c] \notin {"idle", "stopClear"} => msg[c] # NoMessage

(* Only the answer to a GlobalCache client is held up by a socket.        *)
PeerBlocks == irPc = "blocked" => current.client \in GcClients

TypeInv == TypeOK /\ CallHasMessage /\ SlotOwned /\ PeerBlocks

LEMMA InitTyped == Init => TypeInv
<1> SUFFICES ASSUME Init PROVE TypeInv
  OBVIOUS
<1>1. responses \in Seq([client : ApiClients, kind : {"sent", "learned"}]) /\ Len(responses) <= ResponseCap
  BY DEF Init
<1>2. TypeOK
  BY <1>1 DEF Init, TypeOK, NoBits
<1>3. CallHasMessage /\ SlotOwned /\ PeerBlocks
  BY DEF Init, CallHasMessage, SlotOwned, PeerBlocks
<1> QED
  BY <1>2, <1>3 DEF TypeInv

Labels == {"idle", "count", "compare", "setRepeat", "clear",
           "enqueue", "assign", "assigning", "stopClear"}

(* A caller goes on with its message, or is in stopSend().                 *)
LEMMA CallerMoves ==
  ASSUME TypeInv, NEW c \in Callers, NEW label \in Labels, Goto(c, label), UNCHANGED msg,
         label \in {"idle", "stopClear"} \/ msg[c] # NoMessage
  PROVE  pc' \in [Callers -> Labels] /\ CallHasMessage'
<1>1. pc \in [Callers -> Labels] /\ pc' = [pc EXCEPT ![c] = label]
  BY DEF TypeInv, TypeOK, Labels, Goto
<1>2. pc' \in [Callers -> Labels] /\ pc'[c] = label /\ \A d \in Callers \ {c} : pc'[d] = pc[d]
  BY <1>1
<1>3. CallHasMessage'
  BY <1>2 DEF TypeInv, CallHasMessage
<1> QED
  BY <1>2, <1>3

(* The two steps that clear bits. *)
LEMMA ClearTyped ==
  ASSUME TypeInv, NEW c \in Callers, SendClear(c) \/ StopClear(c)
  PROVE  TypeInv'
<1>1. pc' \in [Callers -> Labels] /\ CallHasMessage'
  <2>1. CASE SendClear(c)
    <3>1. Goto(c, "enqueue") /\ UNCHANGED msg /\ msg[c] # NoMessage
      BY <2>1 DEF SendClear, TypeInv, CallHasMessage
    <3>2. "enqueue" \in Labels
      BY DEF Labels
    <3> QED
      BY <3>1, <3>2, CallerMoves
  <2>2. CASE StopClear(c)
    <3>1. Goto(c, "idle") /\ UNCHANGED msg
      BY <2>2 DEF StopClear
    <3>2. "idle" \in Labels
      BY DEF Labels
    <3> QED
      BY <3>1, <3>2, CallerMoves
  <2> QED
    BY <2>1, <2>2
<1>2. /\ repeatBit' = FALSE /\ repeatFor' = "none" /\ stopBit' \in BOOLEAN
      /\ UNCHANGED <<msg, queue, learning, currentSendCode, taskVars, responses, learnPc, stopAsked, overlapped>>
  BY DEF SendClear, StopClear, TypeInv, TypeOK
<1>3. TypeOK'
  <2>1. pc' \in [Callers -> Labels] /\ repeatBit' \in BOOLEAN /\ repeatFor' \in Codes \cup {"none"}
    BY <1>1, <1>2
  <2>2. UNCHANGED <<irPc, current, repeat, seen>>
    BY <1>2 DEF taskVars
  <2> QED
    BY <1>2, <2>1, <2>2 DEF TypeInv, TypeOK, Labels
<1>4. SlotOwned' /\ PeerBlocks'
  BY <1>2 DEF TypeInv, SlotOwned, PeerBlocks, taskVars
<1> QED
  BY <1>1, <1>3, <1>4 DEF TypeInv

(* One step of a caller keeps the types and the send task's message. *)
LEMMA CallerTyped ==
  ASSUME TypeInv, NEW c \in Callers, Caller(c)
  PROVE  TypeInv'
<1>1. CASE SendClear(c) \/ StopClear(c)
  BY <1>1, ClearTyped
<1> USE MessageFields DEF TypeInv, TypeOK, CallHasMessage, SlotOwned, PeerBlocks, Goto,
        Return, taskVars, bitVars, history, callerVars
<1>2. CASE SendCall(c)
  BY <1>2 DEF SendCall, NoteOverlap
<1>3. CASE SendCount(c)
  BY <1>3 DEF SendCount
<1>4. CASE SendCompare(c)
  BY <1>4 DEF SendCompare
<1>5. CASE SendRepeat(c)
  BY <1>5 DEF SendRepeat
<1>6. CASE SendEnqueue(c)
  BY <1>6 DEF SendEnqueue
<1>7. CASE AssignBegin(c)
  BY <1>7 DEF AssignBegin
<1>8. CASE AssignEnd(c)
  BY <1>8 DEF AssignEnd
<1>9. CASE StopSend(c)
  BY <1>9 DEF StopSend, NoteOverlap
<1>10. CASE SwitchLearning(c)
  BY <1>10 DEF SwitchLearning
<1> QED
  BY <1>1, <1>2, <1>3, <1>4, <1>5, <1>6, <1>7, <1>8, <1>9, <1>10
  DEF Caller

(* So does one step of the send task. *)
LEMMA IrTaskTyped ==
  ASSUME TypeInv, IrTask
  PROVE  TypeInv'
<1> USE MessageFields DEF TypeInv, TypeOK, CallHasMessage, SlotOwned, PeerBlocks,
        taskVars, bitVars, history, callerVars
<1>1. CASE IrPeek
  BY <1>1 DEF IrPeek
<1>2. CASE IrFrame
  BY <1>2 DEF IrFrame
<1>3. CASE IrCallback
  <2>1. RepeatLeft \in Nat
    BY <1>3 DEF IrCallback, RepeatLeft
  <2>2. repeatBit' \in BOOLEAN /\ repeatFor' \in Codes \cup {"none"}
    BY <1>3 DEF IrCallback
  <2>3. /\ repeat' \in Nat
        /\ irPc' \in {"frame", "reply"}
        /\ stopAsked' \in {"no", "asked", "late"}
    <3>1. CASE RepeatLeft > 0
      BY <1>3, <2>1, <3>1 DEF IrCallback
    <3>2. CASE ~(RepeatLeft > 0)
      BY <1>3, <2>1, <3>2 DEF IrCallback
    <3> QED
      BY <3>1, <3>2
  <2>4. seen' \in [repeat : BOOLEAN, stop : BOOLEAN]
    BY <1>3 DEF IrCallback, NoBits
  <2>5. /\ irPc = "callback"
        /\ UNCHANGED <<pc, msg, queue, learning, stopBit, currentSendCode,
                       current, responses, learnPc, overlapped>>
    BY <1>3 DEF IrCallback
  <2> QED
    BY <2>2, <2>3, <2>4, <2>5
<1>4. CASE IrReply
  <2>1. /\ responses' \in Seq([client : ApiClients, kind : {"sent", "learned"}])
        /\ Len(responses') <= ResponseCap
    <3>1. CASE current.client \in GcClients
      BY <1>4, <3>1 DEF IrReply
    <3>2. CASE current.client \notin GcClients
      BY <1>4, <3>2, RespondTyped DEF IrReply
    <3> QED
      BY <3>1, <3>2
  <2> QED
    BY <1>4, <2>1 DEF IrReply
<1>5. CASE IrRelease
  BY <1>5 DEF IrRelease
<1> QED
  BY <1>1, <1>2, <1>3, <1>4, <1>5 DEF IrTask

(* And every other step. *)
LEMMA NextTyped == TypeInv /\ [Next]_vars => TypeInv'
<1> SUFFICES ASSUME TypeInv, [Next]_vars PROVE TypeInv'
  OBVIOUS
<1> USE DEF TypeInv, TypeOK, CallHasMessage, SlotOwned, PeerBlocks, taskVars, bitVars,
        history, callerVars
<1>1. ASSUME NEW c \in Callers, Caller(c) PROVE TypeInv'
  BY <1>1, CallerTyped
<1>2. CASE IrTask
  BY <1>2, IrTaskTyped
<1>7. CASE PeerMakesRoom
  BY <1>7 DEF PeerMakesRoom
<1>3. CASE LearnWait
  BY <1>3 DEF LearnWait
<1>4. CASE LearnDecode
  <2>1. /\ responses' \in Seq([client : ApiClients, kind : {"sent", "learned"}])
        /\ Len(responses') <= ResponseCap
    BY <1>4, RespondTyped DEF LearnDecode, ApiClients
  <2> QED
    BY <1>4, <2>1 DEF LearnDecode
<1>5. CASE ApiResponse
  BY <1>5 DEF ApiResponse
<1>6. CASE UNCHANGED vars
  BY <1>6 DEF vars
<1> QED
  BY <1>1, <1>2, <1>3, <1>4, <1>5, <1>6, <1>7 DEF Next

LEMMA TypeInvariant == Spec => []TypeInv
BY InitTyped, NextTyped, PTL DEF Spec

(***************************************************************************)
(* Every variable keeps its type, and in particular the response queue its *)
(* length and its readers: no response for a GlobalCache client is in it.  *)
(***************************************************************************)
THEOREM TypeCorrect == Spec => []TypeOK
<1>1. TypeInv => TypeOK
  BY DEF TypeInv
<1> QED
  BY <1>1, TypeInvariant, PTL

(***************************************************************************)
(* Whatever any number of callers do, the send task's message stays in     *)
(* m_queue until the task itself resets the queue.                         *)
(***************************************************************************)
THEOREM SlotIsOwned == Spec => []SlotOwned
<1>1. TypeInv => SlotOwned
  BY DEF TypeInv
<1> QED
  BY <1>1, TypeInvariant, PTL

-----------------------------------------------------------------------------
(* The service implements the one-slot server.                             *)

(* Every step of a caller is an Accept of the server or a stutter. *)
LEMMA CallerRefines ==
  ASSUME TypeInv, NEW c \in Callers, Caller(c)
  PROVE  Slot!Accept \/ UNCHANGED Slot!vars
<1> USE DEF taskVars, Slot!Accept, Slot!vars
<1>1. CASE SendEnqueue(c)
  <2>1. msg[c] \in Messages
    BY <1>1 DEF SendEnqueue, TypeInv, TypeOK, CallHasMessage
  <2> QED
    BY <1>1, <2>1 DEF SendEnqueue
<1>2. CASE ~SendEnqueue(c)
  BY <1>2 DEF Caller, SendCall, SendCount, SendCompare, SendRepeat, SendClear,
     AssignBegin, AssignEnd, StopSend, StopClear, SwitchLearning
<1> QED
  BY <1>1, <1>2

(* A reply to the API is an Answer; one to a GlobalCache client may be     *)
(* held up and is an Answer when its send() returns.                       *)
LEMMA ReplyRefines ==
  ASSUME TypeInv, IrReply \/ PeerMakesRoom
  PROVE  Slot!Answer \/ UNCHANGED Slot!vars
<1>1. queue = current /\ queue # NoMessage /\ irPc # "release"
  BY DEF TypeInv, SlotOwned, IrReply, PeerMakesRoom
<1>2. queue.client \in ApiClients \cup GcClients
  BY <1>1, MessageFields DEF TypeInv, TypeOK
<1>3. CASE IrReply
  BY <1>1, <1>2, <1>3
  DEF IrReply, Respond, Response, Slot!Answer, Slot!Post, Slot!vars
<1>4. CASE PeerMakesRoom
  BY <1>1, <1>2, <1>4 DEF PeerMakesRoom, TypeInv, PeerBlocks, Slot!Answer
<1> QED
  BY <1>3, <1>4

(* Every step of the send task is an Answer, a Free or a stutter. *)
LEMMA IrTaskRefines ==
  ASSUME TypeInv, IrTask
  PROVE  Slot!Answer \/ Slot!Free \/ UNCHANGED Slot!vars
<1> USE DEF TypeInv, SlotOwned, Slot!vars
<1>1. CASE IrPeek
  BY <1>1 DEF IrPeek
<1>2. CASE IrFrame
  BY <1>2 DEF IrFrame
<1>3. CASE IrCallback
  BY <1>3 DEF IrCallback
<1>4. CASE IrReply
  BY <1>4, ReplyRefines
<1>5. CASE IrRelease
  BY <1>5 DEF IrRelease, Slot!Free
<1> QED
  BY <1>1, <1>2, <1>3, <1>4, <1>5 DEF IrTask

(***************************************************************************)
(* With any number of callers, every step of the service is a step of the  *)
(* one-slot server: requests are accepted one at a time, each is answered  *)
(* once, by the client's own channel, and then the slot is free.           *)
(***************************************************************************)
THEOREM ImplementsOneSlotServer == Spec => OneSlotServer
<1>1. Init => Slot!Init
  BY DEF Init, Slot!Init
<1>2. TypeInv /\ [Next]_vars => [Slot!Next]_(Slot!vars)
  <2> SUFFICES ASSUME TypeInv, [Next]_vars
               PROVE  Slot!Next \/ UNCHANGED Slot!vars
    OBVIOUS
  <2> USE DEF Slot!Next, Slot!vars, taskVars
  <2>1. ASSUME NEW c \in Callers, Caller(c)
        PROVE  Slot!Next \/ UNCHANGED Slot!vars
    BY <2>1, CallerRefines
  <2>2. CASE IrTask \/ PeerMakesRoom
    BY <2>2, IrTaskRefines, ReplyRefines
  <2>3. CASE LearnWait
    BY <2>3 DEF LearnWait
  <2>4. CASE LearnDecode
    BY <2>4 DEF LearnDecode, Respond, Response, Slot!Learned, Slot!Post
  <2>5. CASE ApiResponse
    BY <2>5 DEF ApiResponse, Slot!Deliver
  <2>6. CASE UNCHANGED vars
    BY <2>6 DEF vars
  <2> QED
    BY <2>1, <2>2, <2>3, <2>4, <2>5, <2>6 DEF Next
<1> QED
  BY <1>1, <1>2, TypeInvariant, PTL DEF Spec, OneSlotServer, Slot!Spec

-----------------------------------------------------------------------------
(***************************************************************************)
(* As long as no call has overlapped another, nobody gets between two      *)
(* steps of send(), and the checks it makes still hold when it acts on     *)
(* them.  The invariant follows the one call in progress: which code       *)
(* m_currentSendCode holds at each step, and that a stop survives until    *)
(* the message it stops is gone.                                           *)
(***************************************************************************)
Alone ==
  \A c, d \in Callers : pc[c] # "idle" /\ pc[d] # "idle" => c = d

ChecksStillHold ==
  \A c \in Callers :
    /\ pc[c] \in {"clear", "enqueue"} => queue = NoMessage
    /\ pc[c] = "enqueue" => ~repeatBit
    /\ pc[c] = "setRepeat" /\ queue # NoMessage => queue.code = msg[c].code

CodeIsCurrent ==
  /\ currentSendCode # "garbled"
  /\ \A c \in Callers : pc[c] = "assigning" => currentSendCode = "writing"
  /\ currentSendCode = "writing" => \E c \in Callers : pc[c] = "assigning"
  /\ queue # NoMessage =>
       \/ \E c \in Callers : pc[c] \in {"assign", "assigning"}
       \/ currentSendCode = queue.code
  /\ \A c \in Callers :
       pc[c] \in {"assign", "assigning"} /\ queue # NoMessage => queue.code = msg[c].code

StopStands ==
  /\ stopAsked # "no" => stopBit /\ queue # NoMessage
  /\ stopAsked = "late" => \/ irPc \in {"frame", "reply", "blocked", "release"}
                           \/ irPc = "callback" /\ seen.stop

OneByOne ==
  ~overlapped =>
    Alone /\ ChecksStillHold /\ CodeIsCurrent /\ StopStands /\ RepeatForSameCode

CallInv == TypeInv /\ OneByOne

LEMMA CallInit == Init => CallInv
<1> SUFFICES ASSUME Init PROVE CallInv
  OBVIOUS
<1>1. \A c \in Callers : pc[c] = "idle"
  BY DEF Init
<1> QED
  BY <1>1, InitTyped
  DEF Init, CallInv, OneByOne, Alone, ChecksStillHold, CodeIsCurrent,
      StopStands, RepeatForSameCode

(* The caller of a step that leaves no overlap is the only one in a call. *)
LEMMA OthersIdle ==
  ASSUME CallInv, ~overlapped', NEW c \in Callers, Caller(c), ~SwitchLearning(c)
  PROVE  /\ ~overlapped
         /\ \A d \in Callers \ {c} : /\ pc[d] = "idle" /\ pc'[d] = "idle"
                                     /\ msg'[d] = msg[d]
<1>1. ~overlapped
  BY DEF Caller, SendCall, SendCount, SendCompare, SendRepeat, SendClear,
     SendEnqueue, AssignBegin, AssignEnd, StopSend, StopClear, SwitchLearning,
     NoteOverlap, history
<1>2. \A d \in Callers \ {c} : pc[d] = "idle"
  <2>1. CASE SendCall(c) \/ StopSend(c)
    BY <2>1 DEF SendCall, StopSend, NoteOverlap
  <2>2. CASE ~(SendCall(c) \/ StopSend(c))
    <3>1. pc[c] # "idle"
      BY <2>2 DEF Caller, SendCount, SendCompare, SendRepeat, SendClear,
         SendEnqueue, AssignBegin, AssignEnd, StopClear
    <3> QED
      BY <1>1, <3>1 DEF CallInv, OneByOne, Alone
  <2> QED
    BY <2>1, <2>2
<1>3. pc \in [Callers -> Labels] /\ msg \in [Callers -> Messages \cup {NoMessage}]
  BY DEF CallInv, TypeInv, TypeOK, Labels
<1>4. \A d \in Callers \ {c} : pc'[d] = pc[d] /\ msg'[d] = msg[d]
  BY <1>3 DEF Caller, SendCall, SendCount, SendCompare, SendRepeat, SendClear,
     SendEnqueue, AssignBegin, AssignEnd, StopSend, StopClear, Goto, Return
<1> QED
  BY <1>1, <1>2, <1>4

LEMMA CallCaller ==
  ASSUME CallInv, NEW c \in Callers, Caller(c)
  PROVE  CallInv'
<1>1. TypeInv'
  BY CallerTyped DEF CallInv
<1>2. CASE SwitchLearning(c)
  BY <1>1, <1>2
  DEF SwitchLearning, CallInv, OneByOne, Alone, ChecksStillHold, CodeIsCurrent,
      StopStands, RepeatForSameCode, callerVars, taskVars, bitVars, history
<1>3. ASSUME ~overlapped', ~SwitchLearning(c)
      PROVE  Alone' /\ ChecksStillHold' /\ CodeIsCurrent' /\ StopStands' /\ RepeatForSameCode'
  <2>1. /\ ~overlapped
        /\ \A d \in Callers \ {c} : /\ pc[d] = "idle" /\ pc'[d] = "idle"
                                    /\ msg'[d] = msg[d]
    BY <1>3, OthersIdle
  <2>2. Alone'
    BY <2>1 DEF Alone
  <2>3. /\ DOMAIN pc = Callers /\ DOMAIN msg = Callers
        /\ currentSendCode \in Codes \cup {"none", "writing", "garbled"}
        /\ msg[c] # NoMessage => msg[c].code \in Codes
        /\ queue # NoMessage => queue.code \in Codes
        /\ pc[c] \notin {"idle", "stopClear"} => msg[c] # NoMessage
    BY MessageFields DEF CallInv, TypeInv, TypeOK, CallHasMessage
  <2>4. ~OthersWriting(c)
    BY <2>1 DEF OthersWriting
  <2> DEFINE CodeOf ==
        /\ currentSendCode # "garbled"
        /\ pc[c] = "assigning" <=> currentSendCode = "writing"
        /\ queue # NoMessage =>
             IF pc[c] \in {"assign", "assigning"} THEN queue.code = msg[c].code
                                                 ELSE currentSendCode = queue.code
      ChecksOf ==
        /\ pc[c] \in {"clear", "enqueue"} => queue = NoMessage
        /\ pc[c] = "enqueue" => ~repeatBit
        /\ pc[c] = "setRepeat" /\ queue # NoMessage => queue.code = msg[c].code
  <2>5. CodeOf /\ ChecksOf /\ StopStands /\ RepeatForSameCode
    BY <2>1 DEF CallInv, OneByOne, CodeIsCurrent, ChecksStillHold
  <2>6. CodeOf' /\ ChecksOf' /\ StopStands' /\ RepeatForSameCode'
    <3> USE <2>1, <2>3, <2>4, <2>5
        DEF StopStands, RepeatForSameCode, Goto, Return, taskVars, bitVars,
            history, callerVars
    <3>1. CASE SendCall(c)
      BY <3>1 DEF SendCall
    <3>2. CASE SendCount(c)
      BY <3>2 DEF SendCount
    <3>3. CASE SendCompare(c)
      BY <3>3 DEF SendCompare, TornCode
    <3>4. CASE SendRepeat(c)
      BY <3>4 DEF SendRepeat
    <3>5. CASE SendClear(c)
      BY <3>5 DEF SendClear
    <3>6. CASE SendEnqueue(c)
      BY <3>6 DEF SendEnqueue
    <3>7. CASE AssignBegin(c)
      BY <3>7 DEF AssignBegin
    <3>8. CASE AssignEnd(c)
      BY <3>8 DEF AssignEnd
    <3>9. CASE StopSend(c)
      BY <3>9 DEF StopSend
    <3>10. CASE StopClear(c)
      BY <3>10 DEF StopClear
    <3> QED
      BY <1>3, <3>1, <3>2, <3>3, <3>4, <3>5, <3>6, <3>7, <3>8, <3>9, <3>10
      DEF Caller
  <2>7. ChecksStillHold' /\ CodeIsCurrent'
    <3>1. \A d \in Callers : d # c => pc'[d] = "idle"
      BY <2>1
    <3> QED
      BY <2>6, <3>1 DEF ChecksStillHold, CodeIsCurrent
  <2> QED
    BY <2>2, <2>6, <2>7
<1> QED
  BY <1>1, <1>2, <1>3 DEF CallInv, OneByOne

LEMMA CallTask ==
  ASSUME CallInv, IrTask \/ PeerMakesRoom
  PROVE  CallInv'
<1>1. TypeInv'
  BY NextTyped DEF CallInv, Next
<1>2. overlapped' = overlapped
  BY DEF IrTask, IrPeek, IrFrame, IrCallback, IrReply, IrRelease, PeerMakesRoom, history
<1>3. ASSUME ~overlapped
      PROVE  Alone' /\ ChecksStillHold' /\ CodeIsCurrent' /\ StopStands' /\ RepeatForSameCode'
  <2> USE <1>2, <1>3
      DEF CallInv, TypeInv, SlotOwned, OneByOne, Alone, ChecksStillHold,
          CodeIsCurrent, StopStands, RepeatForSameCode, bitVars, history,
          callerVars
  <2>1. CASE IrPeek
    BY <2>1 DEF IrPeek
  <2>2. CASE IrFrame
    BY <2>2 DEF IrFrame
  <2>3. CASE IrCallback
    BY <2>3 DEF IrCallback, RepeatLeft
  <2>4. CASE IrReply \/ PeerMakesRoom
    BY <2>4 DEF IrReply, PeerMakesRoom
  <2>5. CASE IrRelease
    BY <2>5 DEF IrRelease
  <2> QED
    BY <2>1, <2>2, <2>3, <2>4, <2>5 DEF IrTask
<1> QED
  BY <1>1, <1>2, <1>3 DEF CallInv, OneByOne

LEMMA CallStep == CallInv /\ [Next]_vars => CallInv'
<1> SUFFICES ASSUME CallInv, [Next]_vars PROVE CallInv'
  OBVIOUS
<1>1. TypeInv'
  BY NextTyped DEF CallInv
<1>2. CASE \E c \in Callers : Caller(c)
  BY <1>2, CallCaller
<1>3. CASE IrTask \/ PeerMakesRoom
  BY <1>3, CallTask
<1>4. CASE LearnWait \/ LearnDecode \/ ApiResponse \/ UNCHANGED vars
  BY <1>1, <1>4
  DEF LearnWait, LearnDecode, ApiResponse, vars, taskVars, bitVars, history,
      callerVars, CallInv, OneByOne, Alone, ChecksStillHold, CodeIsCurrent,
      StopStands, RepeatForSameCode
<1> QED
  BY <1>2, <1>3, <1>4 DEF Next

LEMMA CallInvariant == Spec => []CallInv
BY CallInit, CallStep, PTL DEF Spec

(***************************************************************************)
(* With any number of callers, until two calls overlap: a pending repeat   *)
(* is for the code that is being sent, and the count that one request      *)
(* leaves is never spent on the code of the next.                          *)
(***************************************************************************)
THEOREM RepeatsOneByOne == Spec => []RepeatForSameCode
<1>1. CallInv => RepeatForSameCode
  BY DEF CallInv, OneByOne, RepeatForSameCode
<1> QED
  BY <1>1, CallInvariant, PTL

(***************************************************************************)
(* And a stop ends the repeats of the message it was asked for.            *)
(***************************************************************************)
THEOREM StopOneByOne == Spec => StopEndsRepeat
<1>1. CallInv /\ [Next]_vars =>
        (~overlapped /\ stopAsked = "late" => ~(irPc = "callback" /\ irPc' = "frame"))
  <2> SUFFICES ASSUME CallInv, [Next]_vars, ~overlapped, stopAsked = "late",
                      irPc = "callback"
               PROVE  irPc' # "frame"
    OBVIOUS
  <2>1. seen.stop
    BY DEF CallInv, OneByOne, StopStands
  <2>2. CASE IrTask
    BY <2>1, <2>2 DEF IrTask, IrPeek, IrFrame, IrCallback, IrReply, IrRelease,
       RepeatLeft
  <2>3. CASE \E c \in Callers : Caller(c)
    BY <2>3 DEF Caller, SendCall, SendCount, SendCompare, SendRepeat,
       SendClear, SendEnqueue, AssignBegin, AssignEnd, StopSend, StopClear,
       SwitchLearning, taskVars
  <2>4. CASE PeerMakesRoom \/ LearnWait \/ LearnDecode \/ ApiResponse \/ UNCHANGED vars
    BY <2>4 DEF PeerMakesRoom, LearnWait, LearnDecode, ApiResponse, vars, taskVars
  <2> QED
    BY <2>2, <2>3, <2>4 DEF Next
<1> QED
  BY <1>1, CallInvariant, PTL DEF Spec, StopEndsRepeat
=============================================================================

-------------------------------- MODULE IrSlot --------------------------------
(***************************************************************************)
(* What the infrared service promises, without tasks, flags or queues: it  *)
(* holds one request at a time, takes the next one only when it is free,   *)
(* answers each request it took exactly once and before it is free again,  *)
(* and delivers what it put into its outbox in order.  An answer for the   *)
(* API finds no room in a full outbox and is lost; it is never sent later  *)
(* or to someone else.                                                     *)
(***************************************************************************)
EXTENDS Naturals, Sequences

CONSTANTS Messages, ApiClients, Broadcast, OutboxCap, NoMessage

VARIABLES
  slot,      \* the request being served
  answered,  \* it has been answered
  outbox     \* answers and learned codes for the API clients

vars == <<slot, answered, outbox>>

Init ==
  /\ slot = NoMessage
  /\ answered = FALSE
  /\ outbox = <<>>

Post(entry) ==
  IF Len(outbox) < OutboxCap THEN outbox' = Append(outbox, entry)
                             ELSE UNCHANGED outbox

Accept ==
  /\ slot = NoMessage
  /\ slot' \in Messages
  /\ UNCHANGED <<answered, outbox>>

Answer ==
  /\ slot # NoMessage
  /\ ~answered
  /\ answered' = TRUE
  /\ IF slot.client \in ApiClients
       THEN Post([client |-> slot.client, kind |-> "sent"])
       ELSE UNCHANGED outbox
  /\ UNCHANGED slot

Free ==
  /\ answered
  /\ answered' = FALSE
  /\ slot' = NoMessage
  /\ UNCHANGED outbox

Learned ==
  /\ Post([client |-> Broadcast, kind |-> "learned"])
  /\ UNCHANGED <<slot, answered>>

Deliver ==
  /\ outbox # <<>>
  /\ outbox' = Tail(outbox)
  /\ UNCHANGED <<slot, answered>>

Next == Accept \/ Answer \/ Free \/ Learned \/ Deliver

Spec == Init /\ [][Next]_vars
=============================================================================

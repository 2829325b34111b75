------------------------------ MODULE GcServer ------------------------------
(***************************************************************************)
(* lib/service_ir/globalcache_server.cpp: the GlobalCache TCP server.      *)
(*                                                                         *)
(* The "GC server" task takes a slot of a counting semaphore, accepts a    *)
(* connection and creates a "GC client" task for it.  That task reads      *)
(* requests, answers them, and gives its slot back when it ends.  The IR   *)
(* send task answers an accepted "sendir" on the file descriptor that came *)
(* with the request, while the client task may be writing there as well.   *)
(* Descriptors are reused after close().                                   *)
(*                                                                         *)
(* A request is what it does to the connection: most are answered, some    *)
(* (blank lines, blink, get_IRL, stop_IRL, a repeat accepted with 202) are *)
(* not, and a "sendir" may be accepted for transmission.  The calls into   *)
(* InfraredService and State are steps of a caller of those modules.       *)
(***************************************************************************)
EXTENDS Naturals, FiniteSets

CONSTANTS
  MaxClients,   \* MAX_TCP_CLIENT_COUNT
  Tasks,        \* handles of client tasks
  Fds,          \* descriptors of connections
  SendBuffer,   \* answers a connection buffers until the peer reads them
  NoFd, NoJob

Jobs == [fd : Fds, client : Tasks]

ASSUME ClientsAssumption == MaxClients \in Nat \ {0} /\ IsFiniteSet(Tasks)
ASSUME NullAssumption    == NoFd \notin Fds /\ NoJob \notin Jobs
ASSUME BufferAssumption  == SendBuffer \in Nat \ {0}

VARIABLES
  slots,      \* clientCountSemaphore
  serverPc,   \* where the server task is
  accepted,   \* its sock
  task,       \* where each client task is; "none" if it does not exist
  fdOf,       \* the socket of each client task
  sock,       \* the connection behind each descriptor
  unread,     \* answers in its send buffer
  job,        \* the sendir the IR send task will answer
  lost,       \* history: slots no task will give back
  orphans     \* history: open descriptors no task will close

serverVars == <<serverPc, accepted>>
taskVars   == <<task, fdOf>>
sockVars   == <<sock, unread>>
history    == <<lost, orphans>>
vars == <<slots, serverVars, taskVars, sockVars, job, history>>

Init ==
  /\ slots = MaxClients
  /\ serverPc = "take"
  /\ accepted = NoFd
  /\ task = [t \in Tasks |-> "none"]
  /\ fdOf = [t \in Tasks |-> NoFd]
  /\ sock = [f \in Fds |-> "free"]
  /\ unread = [f \in Fds |-> 0]
  /\ job = NoJob
  /\ lost = 0
  /\ orphans = {}

-----------------------------------------------------------------------------
(* The server task, tcp_server_task().                                     *)

(* Mutant: a slot is looked for and not taken. *)
TakeSlotPeeks ==
  /\ serverPc = "take"
  /\ slots > 0
  /\ serverPc' = "accept"
  /\ UNCHANGED <<slots, accepted, taskVars, sockVars, job, history>>

(* "wait until a client slot is available" *)
TakeSlot ==
  /\ serverPc = "take"
  /\ slots > 0
  /\ slots' = slots - 1
  /\ serverPc' = "accept"
  /\ UNCHANGED <<accepted, taskVars, sockVars, job, history>>

Accept ==
  /\ serverPc = "accept"
  /\ \E f \in Fds :
       /\ sock[f] = "free"
       /\ accepted' = f
       /\ sock' = [sock EXCEPT ![f] = "up"]
       /\ unread' = [unread EXCEPT ![f] = 0]
  /\ serverPc' = "spawn"
  /\ UNCHANGED <<slots, taskVars, job, history>>

(* The loop continues with another xSemaphoreTake(). *)
AcceptFails ==
  /\ serverPc = "accept"
  /\ serverPc' = "take"
  /\ lost' = lost + 1
  /\ UNCHANGED <<slots, accepted, taskVars, sockVars, job, orphans>>

Spawn ==
  /\ serverPc = "spawn"
  /\ \E t \in Tasks :
       /\ task[t] = "none"
       /\ task' = [task EXCEPT ![t] = "recv"]
       /\ fdOf' = [fdOf EXCEPT ![t] = accepted]
  /\ accepted' = NoFd
  /\ serverPc' = "take"
  /\ UNCHANGED <<slots, sockVars, job, history>>

(* The result of xTaskCreatePinnedToCore() is not looked at. *)
SpawnFails ==
  /\ serverPc = "spawn"
  /\ orphans' = orphans \cup {accepted}
  /\ lost' = lost + 1
  /\ accepted' = NoFd
  /\ serverPc' = "take"
  /\ UNCHANGED <<slots, taskVars, sockVars, job>>

ServerTask == TakeSlot \/ Accept \/ AcceptFails \/ Spawn \/ SpawnFails

-----------------------------------------------------------------------------
(* A client task, socket_task().                                           *)

Goto(t, step) == task' = [task EXCEPT ![t] = step]

HasRoom(f) == sock[f] = "up" /\ unread[f] < SendBuffer

(* recv() returned a request that is answered: an unterminated, malformed  *)
(* or unknown one, a sendir that is refused, stopir, getdevices,           *)
(* getversion, getmac.                                                     *)
Request(t) ==
  /\ task[t] = "recv"
  /\ sock[fdOf[t]] = "up"
  /\ Goto(t, "reply")
  /\ UNCHANGED <<slots, serverVars, fdOf, sockVars, job, history>>

(* sendGlobalCache() returned 0: the IR send task will answer. *)
SendIr(t) ==
  /\ task[t] = "recv"
  /\ sock[fdOf[t]] = "up"
  /\ job = NoJob
  /\ job' = [fd |-> fdOf[t], client |-> t]
  /\ UNCHANGED <<slots, serverVars, taskVars, sockVars, history>>

(* Mutants of Reply: a failed send() closes the socket on the spot, or is  *)
(* tried again.                                                            *)
ReplyCloses(t) ==
  /\ task[t] = "reply"
  /\ \/ /\ HasRoom(fdOf[t])
        /\ unread' = [unread EXCEPT ![fdOf[t]] = @ + 1]
        /\ Goto(t, "recv")
        /\ UNCHANGED sock
     \/ /\ sock[fdOf[t]] = "gone"
        /\ sock' = [sock EXCEPT ![fdOf[t]] = "free"]
        /\ Goto(t, "close")
        /\ UNCHANGED unread
  /\ UNCHANGED <<slots, serverVars, fdOf, job, history>>

ReplyInsists(t) ==
  /\ task[t] = "reply"
  /\ HasRoom(fdOf[t])
  /\ unread' = [unread EXCEPT ![fdOf[t]] = @ + 1]
  /\ Goto(t, "recv")
  /\ UNCHANGED <<slots, serverVars, fdOf, sock, job, history>>

(* send() blocks while the buffer is full and fails, or writes into the    *)
(* void, once the peer is gone.                                            *)
Reply(t) ==
  /\ task[t] = "reply"
  /\ \/ /\ HasRoom(fdOf[t])
        /\ unread' = [unread EXCEPT ![fdOf[t]] = @ + 1]
        /\ Goto(t, "recv")
     \/ /\ sock[fdOf[t]] = "gone"
        /\ \E step \in {"recv", "close"} : Goto(t, step)
        /\ UNCHANGED unread
  /\ UNCHANGED <<slots, serverVars, fdOf, sock, job, history>>

(* recv() returned 0 or an error. *)
Leave(t) ==
  /\ task[t] = "recv"
  /\ sock[fdOf[t]] = "gone"
  /\ Goto(t, "close")
  /\ UNCHANGED <<slots, serverVars, fdOf, sockVars, job, history>>

Close(t) ==
  /\ task[t] = "close"
  /\ sock' = [sock EXCEPT ![fdOf[t]] = "free"]
  /\ fdOf' = [fdOf EXCEPT ![t] = NoFd]
  /\ Goto(t, "give")
  /\ UNCHANGED <<slots, serverVars, unread, job, history>>

(* Mutant: the slot is not released. *)
GiveForgotten(t) ==
  /\ task[t] = "give"
  /\ Goto(t, "delete")
  /\ UNCHANGED <<slots, serverVars, fdOf, sockVars, job, history>>

(* "release client slot", while the task and its stack still exist *)
Give(t) ==
  /\ task[t] = "give"
  /\ slots' = slots + 1
  /\ Goto(t, "delete")
  /\ UNCHANGED <<serverVars, fdOf, sockVars, job, history>>

Delete(t) ==
  /\ task[t] = "delete"
  /\ Goto(t, "none")
  /\ UNCHANGED <<slots, serverVars, fdOf, sockVars, job, history>>

ClientTask(t) ==
  \/ Request(t) \/ SendIr(t) \/ Reply(t) \/ Leave(t) \/ Close(t) \/ Give(t) \/ Delete(t)

-----------------------------------------------------------------------------
(* The IR send task and the peers.                                         *)

(* "completeir" goes to whatever connection has the descriptor now, and    *)
(* nobody looks at the result.                                             *)
IrAnswer ==
  /\ job # NoJob
  /\ \/ /\ HasRoom(job.fd)
        /\ unread' = [unread EXCEPT ![job.fd] = @ + 1]
     \/ /\ sock[job.fd] # "up"
        /\ UNCHANGED unread
  /\ job' = NoJob
  /\ UNCHANGED <<slots, serverVars, taskVars, sock, history>>

PeerReads(f) ==
  /\ sock[f] = "up"
  /\ unread[f] > 0
  /\ unread' = [unread EXCEPT ![f] = @ - 1]
  /\ UNCHANGED <<slots, serverVars, taskVars, sock, job, history>>

(* The peer closed the connection, or keepalive gave it up. *)
PeerGone(f) ==
  /\ sock[f] = "up"
  /\ sock' = [sock EXCEPT ![f] = "gone"]
  /\ UNCHANGED <<slots, serverVars, taskVars, unread, job, history>>

Next ==
  \/ ServerTask
  \/ \E t \in Tasks : ClientTask(t)
  \/ IrAnswer
  \/ \E f \in Fds : PeerReads(f) \/ PeerGone(f)

(***************************************************************************)
(* The tasks run whenever they can; peers owe nothing.  Client tasks have  *)
(* priority 5 and the server 3, on different cores.                        *)
(***************************************************************************)
Fairness ==
  /\ WF_vars(TakeSlot)
  /\ WF_vars(Spawn \/ SpawnFails)
  /\ \A t \in Tasks :
       WF_vars(Reply(t) \/ Leave(t) \/ Close(t) \/ Give(t) \/ Delete(t))

Spec == Init /\ [][Next]_vars /\ Fairness

-----------------------------------------------------------------------------
(* Properties.                                                             *)

Serving == {t \in Tasks : task[t] \in {"recv", "reply", "close", "give"}}
Holding == {t \in Tasks : task[t] \in {"recv", "reply", "close"}}

(* Types; the two loops never give more slots than there are. *)
TypeOK ==
  /\ slots \in 0..MaxClients
  /\ serverPc \in {"take", "accept", "spawn"}
  /\ accepted \in Fds \cup {NoFd}
  /\ task \in [Tasks -> {"none", "recv", "reply", "close", "give", "delete"}]
  /\ fdOf \in [Tasks -> Fds \cup {NoFd}]
  /\ sock \in [Fds -> {"free", "up", "gone"}]
  /\ unread \in [Fds -> 0..SendBuffer]
  /\ job \in Jobs \cup {NoJob}
  /\ lost \in Nat
  /\ orphans \in SUBSET Fds

(***************************************************************************)
(* "limit number of clients": every slot is free, with the server, with    *)
(* one client task, or lost for good, so never are more than MaxClients    *)
(* clients served, whatever fails.                                         *)
(***************************************************************************)
SlotAccounting ==
  slots + Cardinality(Serving) + (IF serverPc = "take" THEN 0 ELSE 1) + lost
    = MaxClients

(***************************************************************************)
(* An open descriptor belongs to one task at a time: the server hands it   *)
(* over once, and no task reads, writes or closes a descriptor that has    *)
(* been reused for another client.                                         *)
(***************************************************************************)
SocketsOwned ==
  /\ \A t \in Holding :
       fdOf[t] \in Fds /\ sock[fdOf[t]] # "free" /\ fdOf[t] # accepted /\ fdOf[t] \notin orphans
  /\ \A t, u \in Holding : fdOf[t] = fdOf[u] => t = u
  /\ serverPc = "spawn" <=> accepted # NoFd
  /\ accepted # NoFd => sock[accepted] # "free" /\ accepted \notin orphans
  /\ \A f \in orphans : sock[f] # "free"
  /\ \A f \in Fds :
       sock[f] # "free" => f = accepted \/ f \in orphans \/ \E t \in Holding : fdOf[t] = f

(***************************************************************************)
(* A vanished client makes room: its task notices, even from inside a      *)
(* blocked send(), and the server accepts again.                           *)
(***************************************************************************)
VanishedMakesRoom ==
  \A t \in Tasks :
    (t \in Holding /\ sock[fdOf[t]] = "gone") ~> serverPc = "accept"
=============================================================================

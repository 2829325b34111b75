--------------------------- MODULE GcServerProofs ---------------------------
(***************************************************************************)
(* The slot and socket accounting of the GlobalCache server, for any       *)
(* number of slots, task handles and descriptors.                          *)
(*                                                                         *)
(* The two are proved apart, each over the types: the slots by how a step  *)
(* changes the set Serving, the sockets element by element.                *)
(***************************************************************************)
EXTENDS GcServer, FiniteSetTheorems, TLAPS

(* TypeOK without the bound on slots, which rests on the accounting. *)
Typed ==
  /\ slots \in Nat
  /\ serverPc \in {"take", "accept", "spawn"}
  /\ accepted \in Fds \cup {NoFd}
  /\ task \in [Tasks -> {"none", "recv", "reply", "close", "give", "delete"}]
  /\ fdOf \in [Tasks -> Fds \cup {NoFd}]
  /\ sock \in [Fds -> {"free", "up", "gone"}]
  /\ unread \in [Fds -> 0..SendBuffer]
  /\ job \in Jobs \cup {NoJob}
  /\ lost \in Nat
  /\ orphans \in SUBSET Fds

IInv == Typed /\ SlotAccounting /\ SocketsOwned

LEMMA ServingFinite ==
  /\ IsFiniteSet(Serving) /\ Cardinality(Serving) \in Nat
  /\ IsFiniteSet(Serving') /\ Cardinality(Serving') \in Nat
<1>1. IsFiniteSet(Serving) /\ IsFiniteSet(Serving')
  BY ClientsAssumption, FS_Subset DEF Serving
<1> QED
  BY <1>1, FS_CardinalityType

LEMMA InitInvariant == Init => IInv
<1> SUFFICES ASSUME Init PROVE IInv
  OBVIOUS
<1>1. Serving = {}
  BY DEF Init, Serving
<1>2. SlotAccounting
  BY <1>1, FS_EmptySet, ClientsAssumption DEF Init, SlotAccounting
<1>3. Typed /\ SocketsOwned
  BY ClientsAssumption, BufferAssumption DEF Init, Typed, SocketsOwned, Holding
<1> QED
  BY <1>2, <1>3 DEF IInv

-----------------------------------------------------------------------------
(* Types, given that sockets are owned: a client task in its loop has one. *)

LEMMA StepTyped ==
  ASSUME Typed, SocketsOwned, [Next]_vars
  PROVE  Typed'
<1> USE NullAssumption, BufferAssumption DEF Typed
<1>1. CASE ServerTask
  BY <1>1 DEF ServerTask, TakeSlot, Accept, AcceptFails, Spawn, SpawnFails,
              taskVars, sockVars, history, SocketsOwned
<1>2. ASSUME NEW t \in Tasks, ClientTask(t) PROVE Typed'
  <2>1. t \in Holding => fdOf[t] \in Fds
    BY DEF SocketsOwned
  <2> QED
    BY <1>2, <2>1 DEF ClientTask, Request, SendIr, Reply, Leave, Close, Give, Delete,
         Holding, HasRoom, Goto, Jobs, serverVars, taskVars, sockVars, history
<1>3. CASE IrAnswer
  BY <1>3 DEF IrAnswer, HasRoom, Jobs, serverVars, taskVars, history
<1>4. ASSUME NEW f \in Fds, PeerReads(f) \/ PeerGone(f) PROVE Typed'
  BY <1>4 DEF PeerReads, PeerGone, serverVars, taskVars, history
<1>5. CASE UNCHANGED vars
  BY <1>5 DEF vars, serverVars, taskVars, sockVars, history
<1> QED
  BY <1>1, <1>2, <1>3, <1>4, <1>5 DEF Next

-----------------------------------------------------------------------------
(* Slots.                                                                  *)

LEMMA SlotsSameServing ==
  ASSUME SlotAccounting, UNCHANGED <<task, slots, serverPc, lost>>
  PROVE  SlotAccounting'
BY DEF SlotAccounting, Serving

LEMMA StepSlots ==
  ASSUME Typed, SlotAccounting, [Next]_vars
  PROVE  SlotAccounting'
<1> USE ClientsAssumption DEF Typed
<1>1. CASE TakeSlot
  <2>1. Serving' = Serving
    BY <1>1 DEF TakeSlot, taskVars, Serving
  <2> QED
    BY <1>1, <2>1, ServingFinite DEF TakeSlot, SlotAccounting, history
<1>2. CASE Accept
  <2>1. Serving' = Serving
    BY <1>2 DEF Accept, taskVars, Serving
  <2> QED
    BY <1>2, <2>1, ServingFinite DEF Accept, SlotAccounting, history
<1>3. CASE AcceptFails \/ SpawnFails
  <2>1. Serving' = Serving
    BY <1>3 DEF AcceptFails, SpawnFails, taskVars, Serving
  <2> QED
    BY <1>3, <2>1, ServingFinite DEF AcceptFails, SpawnFails, SlotAccounting
<1>4. CASE Spawn
  <2>1. PICK t \in Tasks : /\ task[t] = "none"
                           /\ task' = [task EXCEPT ![t] = "recv"]
    BY <1>4 DEF Spawn
  <2>2. t \notin Serving /\ Serving' = Serving \cup {t}
    BY <2>1 DEF Serving
  <2>3. Cardinality(Serving') = Cardinality(Serving) + 1
    BY <2>2, ServingFinite, FS_AddElement
  <2> QED
    BY <1>4, <2>3, ServingFinite DEF Spawn, SlotAccounting, history
<1>5. ASSUME NEW t \in Tasks, Give(t) PROVE SlotAccounting'
  <2>1. t \in Serving /\ Serving' = Serving \ {t}
    BY <1>5 DEF Give, Goto, Serving
  <2>2. Cardinality(Serving') = Cardinality(Serving) - 1
    BY <2>1, ServingFinite, FS_RemoveElement
  <2> QED
    BY <1>5, <2>2, ServingFinite DEF Give, SlotAccounting, serverVars, history
<1>6. ASSUME NEW t \in Tasks,
             Request(t) \/ SendIr(t) \/ Reply(t) \/ Leave(t) \/ Close(t) \/ Delete(t)
      PROVE  SlotAccounting'
  <2>1. Serving' = Serving
    BY <1>6 DEF Request, SendIr, Reply, Leave, Close, Delete, Goto, Serving, taskVars
  <2>2. UNCHANGED <<slots, serverPc, lost>>
    BY <1>6 DEF Request, SendIr, Reply, Leave, Close, Delete, serverVars, history
  <2> QED
    BY <2>1, <2>2 DEF SlotAccounting
<1>7. CASE IrAnswer \/ \E f \in Fds : PeerReads(f) \/ PeerGone(f)
  BY <1>7, SlotsSameServing
     DEF IrAnswer, PeerReads, PeerGone, serverVars, taskVars, history
<1>8. CASE UNCHANGED vars
  BY <1>8, SlotsSameServing DEF vars, serverVars, taskVars, history
<1> QED
  BY <1>1, <1>2, <1>3, <1>4, <1>5, <1>6, <1>7, <1>8
     DEF Next, ServerTask, ClientTask

-----------------------------------------------------------------------------
(* Sockets.                                                                *)

LEMMA StepSockets ==
  ASSUME Typed, SocketsOwned, [Next]_vars
  PROVE  SocketsOwned'
<1> USE NullAssumption DEF Typed, SocketsOwned, Holding
<1>1. CASE TakeSlot \/ AcceptFails
  BY <1>1 DEF TakeSlot, AcceptFails, taskVars, sockVars, history
<1>2. CASE Accept
  <2>1. PICK f \in Fds : /\ sock[f] = "free"
                         /\ accepted' = f
                         /\ sock' = [sock EXCEPT ![f] = "up"]
    BY <1>2 DEF Accept
  <2>2. UNCHANGED <<task, fdOf, orphans>> /\ serverPc' = "spawn" /\ accepted = NoFd
    BY <1>2 DEF Accept, taskVars, history
  <2>3. f \notin orphans /\ \A t \in Holding : fdOf[t] # f
    BY <2>1
  <2>4. Holding' = Holding
    BY <2>2
  <2>5. \A g \in Fds : sock'[g] = IF g = f THEN "up" ELSE sock[g]
    BY <2>1
  <2> QED
    BY <2>1, <2>2, <2>3, <2>4, <2>5
<1>3. CASE Spawn
  <2>1. PICK t \in Tasks : /\ task[t] = "none"
                           /\ task' = [task EXCEPT ![t] = "recv"]
                           /\ fdOf' = [fdOf EXCEPT ![t] = accepted]
    BY <1>3 DEF Spawn
  <2>2. UNCHANGED <<sock, orphans>> /\ accepted' = NoFd /\ serverPc' = "take"
    BY <1>3 DEF Spawn, sockVars, history
  <2>3. accepted \in Fds
    BY <1>3 DEF Spawn
  <2>4. Holding' = Holding \cup {t} /\ t \notin Holding
    BY <2>1
  <2> QED
    BY <2>1, <2>2, <2>3, <2>4
<1>4. CASE SpawnFails
  BY <1>4 DEF SpawnFails, taskVars, sockVars
<1>5. ASSUME NEW t \in Tasks, Request(t) \/ SendIr(t) \/ Leave(t) \/ Reply(t)
      PROVE  SocketsOwned'
  <2>1. Holding' = Holding
    BY <1>5 DEF Request, SendIr, Leave, Reply, Goto, taskVars
  <2>2. UNCHANGED <<serverPc, accepted, fdOf, sock, orphans>>
    BY <1>5 DEF Request, SendIr, Leave, Reply, serverVars, taskVars, sockVars, history
  <2> QED
    BY <2>1, <2>2
<1>6. ASSUME NEW t \in Tasks, Close(t) PROVE SocketsOwned'
  <2>1. t \in Holding /\ Holding' = Holding \ {t}
    BY <1>6 DEF Close, Goto
  <2>2. UNCHANGED <<serverPc, accepted, orphans>>
    BY <1>6 DEF Close, serverVars, history
  <2>3. \A u \in Tasks \ {t} : fdOf'[u] = fdOf[u]
    BY <1>6 DEF Close
  <2>4. \A f \in Fds : sock'[f] = IF f = fdOf[t] THEN "free" ELSE sock[f]
    BY <1>6 DEF Close
  <2> QED
    BY <2>1, <2>2, <2>3, <2>4
<1>7. ASSUME NEW t \in Tasks, Give(t) \/ Delete(t) PROVE SocketsOwned'
  BY <1>7 DEF Give, Delete, Goto, serverVars, sockVars, history
<1>8. CASE IrAnswer \/ \E f \in Fds : PeerReads(f)
  BY <1>8 DEF IrAnswer, PeerReads, serverVars, taskVars, history
<1>9. ASSUME NEW f \in Fds, PeerGone(f) PROVE SocketsOwned'
  BY <1>9 DEF PeerGone, serverVars, taskVars, history
<1>10. CASE UNCHANGED vars
  BY <1>10 DEF vars, serverVars, taskVars, sockVars, history
<1> QED
  BY <1>1, <1>2, <1>3, <1>4, <1>5, <1>6, <1>7, <1>8, <1>9, <1>10
     DEF Next, ServerTask, ClientTask

-----------------------------------------------------------------------------
LEMMA Invariant == Spec => []IInv
<1>1. IInv /\ [Next]_vars => IInv'
  BY StepTyped, StepSlots, StepSockets DEF IInv
<1> QED
  BY <1>1, InitInvariant, PTL DEF Spec

(* The types, with the bound the accounting puts on the semaphore. *)
THEOREM TypeCorrect == Spec => []TypeOK
<1>1. IInv => TypeOK
  BY ServingFinite, ClientsAssumption DEF IInv, Typed, SlotAccounting, TypeOK
<1> QED
  BY <1>1, Invariant, PTL

(* No slot is given twice and none but a lost one is missing. *)
THEOREM SlotsAreAccounted == Spec => []SlotAccounting
<1>1. IInv => SlotAccounting
  BY DEF IInv
<1> QED
  BY <1>1, Invariant, PTL

(* Never are more than MaxClients clients served at a time. *)
THEOREM ClientsAreLimited == Spec => [](Cardinality(Serving) <= MaxClients)
<1>1. IInv => Cardinality(Serving) <= MaxClients
  BY ServingFinite, ClientsAssumption DEF IInv, Typed, SlotAccounting
<1> QED
  BY <1>1, Invariant, PTL

(* No task touches a descriptor that belongs to another. *)
THEOREM SocketsAreOwned == Spec => []SocketsOwned
<1>1. IInv => SocketsOwned
  BY DEF IInv
<1> QED
  BY <1>1, Invariant, PTL
=============================================================================

--------------------------- MODULE DockStateProofs ---------------------------
(***************************************************************************)
(* The lock of State excludes, for any number of tasks of one core: as a   *)
(* lock of its own, and as State uses it.                                  *)
(***************************************************************************)
EXTENDS DockState, TLAPS

OneCore == \A t, u \in Tasks : CoreOf[t] = CoreOf[u]

(* On one core the loaded value is current until the store. *)
LockInv ==
  /\ LockTypeOK
  /\ MutualExclusion
  /\ \A t \in Tasks : lockPc[t] = "in" => mutex = 0
  /\ \A t \in Tasks : lockPc[t] = "loaded" =>
       /\ masked[CoreOf[t]] = t
       /\ loaded[t] = mutex

LEMMA LockInitInv == LockInit => LockInv
BY DEF LockInit, LockInv, LockTypeOK, MutualExclusion

LEMMA LockStep ==
  ASSUME OneCore
  PROVE  LockInv /\ [LockNext]_lockVars => LockInv'
<1> SUFFICES ASSUME LockInv, [LockNext]_lockVars PROVE LockInv'
  OBVIOUS
<1> USE TasksAssumption
    DEF LockInv, LockTypeOK, MutualExclusion, OneCore, Runs
<1>c. \A t \in Tasks : CoreOf[t] \in Cores
  BY DEF Cores
<1>1. ASSUME NEW t \in Tasks, GetMutexLoad(t) PROVE LockInv'
  BY <1>1, <1>c DEF GetMutexLoad
<1>2. ASSUME NEW t \in Tasks, GetMutexStore(t) PROVE LockInv'
  <2>1. CASE loaded[t] = 1
    BY <1>2, <1>c, <2>1 DEF GetMutexStore
  <2>2. CASE loaded[t] # 1
    BY <1>2, <1>c, <2>2 DEF GetMutexStore
  <2> QED
    BY <2>1, <2>2
<1>3. ASSUME NEW t \in Tasks, ReleaseMutex(t) PROVE LockInv'
  BY <1>3, <1>c DEF ReleaseMutex
<1>4. CASE UNCHANGED lockVars
  BY <1>4 DEF lockVars
<1> QED
  BY <1>1, <1>2, <1>3, <1>4 DEF LockNext

(***************************************************************************)
(* Tasks of one core never hold the lock together: the pinning of the      *)
(* callers is what the guard of State rests on.                            *)
(***************************************************************************)
THEOREM OneCoreExcludes ==
  ASSUME OneCore
  PROVE  LockSpec => []MutualExclusion
<1>1. LockInv => MutualExclusion
  BY DEF LockInv
<1> QED
  BY <1>1, LockInitInv, LockStep, PTL DEF LockSpec

(* Every step of a task in State is a step of the lock or leaves it alone. *)
LEMMA StateUsesLock == [Next]_vars => [LockNext]_lockVars
<1> SUFFICES ASSUME [Next]_vars PROVE LockNext \/ UNCHANGED lockVars
  OBVIOUS
<1> USE DEF lockVars, LockNext
<1>1. ASSUME NEW t \in Tasks, SetStateCall(t) \/ GetStateCall(t)
      PROVE  UNCHANGED lockVars
  BY <1>1 DEF SetStateCall, GetStateCall, Begin
<1>2. ASSUME NEW t \in Tasks, LockLoad(t) \/ LockStore(t)
      PROVE  LockNext
  BY <1>2 DEF LockLoad, LockStore, TryLock
<1>3. ASSUME NEW t \in Tasks, InCall(t)
      PROVE  LockNext \/ UNCHANGED lockVars
  <2>1. CASE SetCurrentState(t) \/ RestoreState(t) \/ GetState(t)
    BY <2>1 DEF SetCurrentState, RestoreState, GetState
  <2>2. CASE SavePrevState(t) \/ LedCheck(t) \/ ReadCurrent(t) \/ LedClear(t)
             \/ LedSet(t) \/ LeaveEvent(t) \/ TimeoutDisarm
    BY <2>2 DEF SavePrevState, LedCheck, ReadCurrent, LedClear, LedSet,
       LeaveEvent, TimeoutDisarm
  <2> QED
    BY <1>3, <2>1, <2>2 DEF InCall
<1>4. ASSUME NEW s \in Timed, TimeoutSeen(s) PROVE UNCHANGED lockVars
  BY <1>4 DEF TimeoutSeen
<1>5. CASE PatternStart \/ PatternEnd \/ UNCHANGED vars
  BY <1>5 DEF PatternStart, PatternEnd, vars
<1> QED
  BY <1>1, <1>2, <1>3, <1>4, <1>5 DEF Next

(***************************************************************************)
(* With all its callers on one core, State never updates m_prevState and   *)
(* m_currentState from two tasks at a time.                                *)
(***************************************************************************)
THEOREM StateIsGuarded ==
  ASSUME OneCore
  PROVE  Spec => []MutualExclusion
<1>1. Init => LockInv
  BY LockInitInv DEF Init
<1>2. LockInv /\ [Next]_vars => LockInv'
  BY LockStep, StateUsesLock
<1>3. LockInv => MutualExclusion
  BY DEF LockInv
<1> QED
  BY <1>1, <1>2, <1>3, PTL DEF Spec

-----------------------------------------------------------------------------
(* Types of State and of the LED, for tasks on any cores.                  *)

(* What a task is about to do with its argument. *)
ArgsFit ==
  \A t \in Tasks :
    /\ pc[t] \in {"set", "check", "ledClear", "ledSet", "leaveEvent", "eventClear", "eventSet"}
         => arg[t] \in States
    /\ pc[t] = "disarm" => arg[t] \in Timed

StateTypes ==
  /\ currentState \in States /\ prevState \in States
  /\ timeout \in [Timed -> BOOLEAN]
  /\ pc \in [Tasks -> {"idle", "disarm", "lock", "set", "check", "ledClear", "ledSet", "leaveEvent",
                       "readCurrent", "eventClear", "eventSet"}]
  /\ arg \in [Tasks -> States \cup {"event", "get"}]

LedNames == {LedPriority[i] : i \in DOMAIN LedPriority}

LedTypes ==
  /\ ledBits \subseteq LedNames
  /\ pattern \in States \cup {NoPattern}

LEMMA LedNamesAreStates ==
  LedNames = States \ {"NOT_SET", "STARTUP", "NORMAL", "TEST_LED_BLUE"}
BY DEF LedNames, LedPriority, States

LEMMA LedBitsNamed == \A s \in States : LedBitsOf(s) \subseteq LedNames
BY LedNamesAreStates DEF LedBitsOf, States

LEMMA LockTypesStep == LockTypeOK /\ [LockNext]_lockVars => LockTypeOK'
<1> SUFFICES ASSUME LockTypeOK, [LockNext]_lockVars PROVE LockTypeOK'
  OBVIOUS
<1> USE DEF LockTypeOK, Cores
<1>1. ASSUME NEW t \in Tasks, GetMutexLoad(t) PROVE LockTypeOK'
  BY <1>1 DEF GetMutexLoad
<1>2. ASSUME NEW t \in Tasks, GetMutexStore(t) PROVE LockTypeOK'
  BY <1>2 DEF GetMutexStore
<1>3. ASSUME NEW t \in Tasks, ReleaseMutex(t) PROVE LockTypeOK'
  BY <1>3 DEF ReleaseMutex
<1>4. CASE UNCHANGED lockVars
  BY <1>4 DEF lockVars
<1> QED
  BY <1>1, <1>2, <1>3, <1>4 DEF LockNext

LEMMA StateTypesStep ==
  StateTypes /\ ArgsFit /\ [Next]_vars => StateTypes' /\ ArgsFit'
<1> SUFFICES ASSUME StateTypes, ArgsFit, [Next]_vars PROVE StateTypes' /\ ArgsFit'
  OBVIOUS
<1> USE AsksAssumption DEF StateTypes, ArgsFit, stateVars, Goto, Return
<1>1. ASSUME NEW t \in Tasks, SetStateCall(t) \/ GetStateCall(t)
      PROVE  StateTypes' /\ ArgsFit'
  <2>1. PICK a \in States \cup {"event", "get"} : Begin(t, a)
    BY <1>1 DEF SetStateCall, GetStateCall
  <2> QED
    BY <2>1 DEF Begin
<1>2. ASSUME NEW t \in Tasks, LockLoad(t) \/ LockStore(t)
      PROVE  StateTypes' /\ ArgsFit'
  BY <1>2 DEF LockLoad, LockStore, TryLock
<1>3. ASSUME NEW t \in Tasks, InCall(t)
      PROVE  StateTypes' /\ ArgsFit'
  <2>1. CASE SavePrevState(t)
    BY <2>1 DEF SavePrevState
  <2>2. CASE SetCurrentState(t)
    BY <2>2 DEF SetCurrentState
  <2>3. CASE RestoreState(t)
    BY <2>3 DEF RestoreState
  <2>4. CASE GetState(t)
    BY <2>4 DEF GetState, States
  <2>5. CASE LedCheck(t)
    BY <2>5 DEF LedCheck, States
  <2>6. CASE ReadCurrent(t)
    BY <2>6 DEF ReadCurrent
  <2>7. CASE LedClear(t)
    BY <2>7 DEF LedClear
  <2>8. CASE LedSet(t)
    BY <2>8 DEF LedSet, States
  <2>9. CASE LeaveEvent(t)
    BY <2>9 DEF LeaveEvent, States
  <2>10. CASE TimeoutDisarm
    BY <2>10 DEF TimeoutDisarm
  <2> QED
    BY <1>3, <2>1, <2>2, <2>3, <2>4, <2>5, <2>6, <2>7, <2>8, <2>9, <2>10 DEF InCall
<1>4. ASSUME NEW s \in Timed, TimeoutSeen(s) PROVE StateTypes' /\ ArgsFit'
  BY <1>4 DEF TimeoutSeen, Timed, States
<1>5. CASE PatternStart \/ PatternEnd \/ UNCHANGED vars
  BY <1>5 DEF PatternStart, PatternEnd, vars
<1> QED
  BY <1>1, <1>2, <1>3, <1>4, <1>5 DEF Next

LEMMA LedTypesStep == LedTypes /\ ArgsFit /\ [Next]_vars => LedTypes'
<1> SUFFICES ASSUME LedTypes, ArgsFit, [Next]_vars PROVE LedTypes'
  OBVIOUS
<1> USE DEF LedTypes, ledVars
<1>1. ASSUME NEW t \in Tasks, LedSet(t) PROVE LedTypes'
  BY <1>1, LedBitsNamed DEF LedSet, ArgsFit
<1>2. ASSUME NEW t \in Tasks, LedClear(t) PROVE LedTypes'
  BY <1>2 DEF LedClear
<1>3. CASE PatternStart
  <2>1. pattern' \in LedNames
    BY <1>3 DEF PatternStart, LedNames
  <2> QED
    BY <1>3, <2>1, LedNamesAreStates DEF PatternStart
<1>4. CASE PatternEnd
  BY <1>4 DEF PatternEnd
<1>5. CASE UNCHANGED ledVars
  BY <1>5
<1>6. ASSUME NEW t \in Tasks, SetStateCall(t) \/ GetStateCall(t) \/ LockLoad(t) \/ LockStore(t)
      PROVE  UNCHANGED ledVars
  BY <1>6 DEF SetStateCall, GetStateCall, Begin, LockLoad, LockStore, TryLock
<1>7. ASSUME NEW t \in Tasks, InCall(t), ~LedSet(t), ~LedClear(t)
      PROVE  UNCHANGED ledVars
  BY <1>7 DEF InCall, SavePrevState, SetCurrentState, RestoreState, GetState, LedCheck,
     ReadCurrent, LeaveEvent, TimeoutDisarm
<1>8. ASSUME NEW s \in Timed, TimeoutSeen(s) PROVE UNCHANGED ledVars
  BY <1>8 DEF TimeoutSeen
<1> QED
  BY <1>1, <1>2, <1>3, <1>4, <1>5, <1>6, <1>7, <1>8 DEF Next, vars

(***************************************************************************)
(* The shared state keeps its types with any tasks on any cores: what a    *)
(* task sets after the lock, or reads again for the LED, is a state, and   *)
(* only bits that have a pattern are set.                                  *)
(***************************************************************************)
THEOREM TypeCorrect == Spec => []TypeOK
<1> DEFINE IInv == LockTypeOK /\ StateTypes /\ ArgsFit /\ LedTypes
<1>1. Init => IInv
  <2> SUFFICES ASSUME Init PROVE IInv
    OBVIOUS
  <2>1. LockTypeOK
    BY DEF Init, LockInit, LockTypeOK
  <2>2. StateTypes /\ ArgsFit /\ LedTypes
    BY DEF Init, StateTypes, ArgsFit, LedTypes, States
  <2> QED
    BY <2>1, <2>2
<1>2. IInv /\ [Next]_vars => IInv'
  BY StateUsesLock, LockTypesStep, StateTypesStep, LedTypesStep
<1>3. IInv => TypeOK
  BY DEF TypeOK, StateTypes, LedTypes, LedNames
<1> QED
  BY <1>1, <1>2, <1>3, PTL DEF Spec
-----------------------------------------------------------------------------
(* No task starts a call while another one is in one.                      *)
OneCall == \A t, u \in Tasks : pc[t] # "idle" /\ pc[u] # "idle" => t = u

\* A task has set a learning event and is about to leave it.
EventShown ==
  \E t \in Tasks :
    /\ pc[t] \in {"check", "ledClear", "ledSet", "leaveEvent"}
    /\ arg[t] \in Events

EventInv ==
  /\ prevState \notin Events
  /\ currentState \in Events => EventShown

(* The steps of a task inside a call.  It is the only one, so the event    *)
(* that is shown is its own.                                               *)
LEMMA EventInCall ==
  ASSUME StateTypes, OneCall, EventInv, NEW t \in Tasks, InCall(t)
  PROVE  EventInv'
<1> USE DEF StateTypes, EventInv, EventShown, stateVars, Goto, Return
<1>1. pc[t] # "idle"
  BY DEF InCall, SavePrevState, SetCurrentState, RestoreState, GetState, LedCheck, ReadCurrent,
     LedClear, LedSet, LeaveEvent, TimeoutDisarm
<1>2. currentState \in Events =>
        pc[t] \in {"check", "ledClear", "ledSet", "leaveEvent"} /\ arg[t] \in Events
  BY <1>1 DEF OneCall
<1>3. CASE SavePrevState(t)
  <2>1. currentState \notin Events
    BY <1>2, <1>3 DEF SavePrevState
  <2>2. UNCHANGED currentState /\ prevState' \in {prevState, currentState}
    BY <1>3 DEF SavePrevState
  <2> QED
    BY <2>1, <2>2
<1>4. CASE SetCurrentState(t)
  BY <1>4 DEF SetCurrentState
<1>5. CASE RestoreState(t)
  BY <1>5 DEF RestoreState
<1>6. CASE GetState(t)
  BY <1>2, <1>6 DEF GetState
<1>7. CASE LedCheck(t)
  <2>1. pc[t] = "check" /\ UNCHANGED <<currentState, prevState>>
    BY <1>7 DEF LedCheck
  <2>2. CASE arg[t] \in Events
    <3>1. /\ UNCHANGED arg /\ pc' \in {[pc EXCEPT ![t] = "ledClear"],
                                       [pc EXCEPT ![t] = "leaveEvent"]}
      BY <1>7, <2>2 DEF LedCheck
    <3> QED
      BY <2>1, <2>2, <3>1
  <2>3. CASE arg[t] \notin Events
    BY <1>2, <2>1, <2>3
  <2> QED
    BY <2>2, <2>3
<1>8. CASE ReadCurrent(t)
  BY <1>2, <1>8 DEF ReadCurrent
<1>9. CASE LedClear(t)
  BY <1>2, <1>9 DEF LedClear
<1>10. CASE LedSet(t)
  <2>1. UNCHANGED <<currentState, prevState>>
    BY <1>10 DEF LedSet
  <2>2. CASE arg[t] \in Events
    BY <1>10, <2>1, <2>2 DEF LedSet
  <2>3. CASE arg[t] \notin Events
    BY <1>2, <2>1, <2>3
  <2> QED
    BY <2>2, <2>3
<1>11. CASE LeaveEvent(t)
  BY <1>11 DEF LeaveEvent
<1>12. CASE t = LoopTask /\ TimeoutDisarm
  BY <1>2, <1>12 DEF TimeoutDisarm
<1> QED
  BY <1>3, <1>4, <1>5, <1>6, <1>7, <1>8, <1>9, <1>10, <1>11, <1>12 DEF InCall

LEMMA EventStep ==
  ASSUME StateTypes, OneCall, EventInv, [Next]_vars
  PROVE  EventInv'
<1> USE DEF StateTypes, EventInv, EventShown, stateVars
<1>1. ASSUME NEW t \in Tasks, NEW a, Begin(t, a) PROVE EventInv'
  BY <1>1 DEF Begin, Goto
<1>2. ASSUME NEW t \in Tasks, LockLoad(t) \/ LockStore(t) PROVE EventInv'
  BY <1>2 DEF LockLoad, LockStore, TryLock
<1>3. ASSUME NEW s \in Timed, TimeoutSeen(s) PROVE EventInv'
  BY <1>3, AsksAssumption DEF TimeoutSeen, Goto
<1>4. CASE PatternStart \/ PatternEnd \/ UNCHANGED vars
  BY <1>4 DEF PatternStart, PatternEnd, vars
<1> QED
  BY <1>1, <1>2, <1>3, <1>4, EventInCall DEF Next, SetStateCall, GetStateCall

(***************************************************************************)
(* The dock remains in a learning event only because two calls overlap:    *)
(* where they come one after the other, each of them, the timeouts         *)
(* included, leaves a state that is no event, and no event is ever saved   *)
(* as the state to go back to.                                             *)
(***************************************************************************)
THEOREM EventsLeftOneByOne == Spec /\ []OneCall => []EventsAreLeft
<1> DEFINE IInv == StateTypes /\ ArgsFit /\ EventInv
<1>1. Init => IInv
  BY DEF Init, StateTypes, ArgsFit, EventInv, States, Events
<1>2. OneCall /\ IInv /\ [Next]_vars => IInv'
  BY StateTypesStep, EventStep
<1>3. IInv => EventsAreLeft
  BY DEF EventInv, EventShown, EventsAreLeft
<1> QED
  BY <1>1, <1>2, <1>3, PTL DEF Spec
-----------------------------------------------------------------------------
(* Who has taken the lock, or tries to, is where the code has it.  A lock  *)
(* word of 0 has somebody who will store 1.                                *)
LockAccounted ==
  /\ mutex = 0 => \E t \in Tasks : lockPc[t] = "in"
  /\ \A t \in Tasks :
       /\ lockPc[t] # "out" => pc[t] \in {"lock", "set"}
       /\ pc[t] = "set" => lockPc[t] = "in"

LEMMA TryAccounted ==
  ASSUME LockTypeOK, LockAccounted, NEW t \in Tasks, LockLoad(t) \/ LockStore(t)
  PROVE  LockAccounted'
<1> USE DEF LockTypeOK, LockAccounted
<1>1. CASE LockLoad(t)
  BY <1>1 DEF LockLoad, TryLock, GetMutexLoad
<1>2. CASE LockStore(t) /\ loaded[t] = 1
  BY <1>2 DEF LockStore, TryLock, GetMutexStore
<1>3. CASE LockStore(t) /\ loaded[t] # 1
  BY <1>3 DEF LockStore, TryLock, GetMutexStore
<1> QED
  BY <1>1, <1>2, <1>3

LEMMA CallAccounted ==
  ASSUME LockTypeOK, StateTypes, LockAccounted, NEW t \in Tasks, InCall(t)
  PROVE  LockAccounted'
<1> USE DEF LockTypeOK, StateTypes, LockAccounted, lockVars, Goto, Return
<1>1. CASE SavePrevState(t)
  BY <1>1 DEF SavePrevState
<1>2. CASE SetCurrentState(t) \/ RestoreState(t) \/ GetState(t)
  <2>1. /\ mutex' = 1 /\ lockPc' = [lockPc EXCEPT ![t] = "out"]
        /\ \E step \in {"check", "readCurrent", "idle"} : pc' = [pc EXCEPT ![t] = step]
    BY <1>2 DEF SetCurrentState, RestoreState, GetState, ReleaseMutex
  <2> QED
    BY <2>1
<1>3. CASE LedCheck(t) \/ ReadCurrent(t) \/ LedClear(t) \/ LedSet(t) \/ LeaveEvent(t)
  <2>1. /\ pc[t] \notin {"lock", "set"} /\ UNCHANGED lockVars
        /\ \E step \in {"ledClear", "ledSet", "leaveEvent", "eventClear", "eventSet", "idle"} :
             pc' = [pc EXCEPT ![t] = step]
    BY <1>3 DEF LedCheck, ReadCurrent, LedClear, LedSet, LeaveEvent
  <2> QED
    BY <2>1
<1>4. CASE t = LoopTask /\ TimeoutDisarm
  BY <1>4 DEF TimeoutDisarm
<1> QED
  BY <1>1, <1>2, <1>3, <1>4 DEF InCall

LEMMA AccountedStep ==
  ASSUME LockTypeOK, StateTypes, LockAccounted, [Next]_vars
  PROVE  LockAccounted'
<1> USE DEF StateTypes, LockAccounted, lockVars
<1>1. ASSUME NEW t \in Tasks, NEW a, Begin(t, a) PROVE LockAccounted'
  BY <1>1 DEF Begin, Goto
<1>2. ASSUME NEW s \in Timed, TimeoutSeen(s) PROVE LockAccounted'
  BY <1>2, AsksAssumption DEF TimeoutSeen, Goto
<1>3. CASE PatternStart \/ PatternEnd \/ UNCHANGED vars
  BY <1>3 DEF PatternStart, PatternEnd, vars
<1> QED
  BY <1>1, <1>2, <1>3, TryAccounted, CallAccounted DEF Next, SetStateCall, GetStateCall

(***************************************************************************)
(* No way through setState(), getState() or event() keeps the lock, on any *)
(* number of cores: while the lock word is 0 a task is between GetMutex()  *)
(* and ReleaseMutex(), and after the lock nobody holds it.  That is the    *)
(* part of "every call returns" which does not rest on fairness.           *)
(***************************************************************************)
THEOREM LockIsGivenBack == Spec => []LockAccounted
<1> DEFINE IInv == LockTypeOK /\ StateTypes /\ ArgsFit /\ LockAccounted
<1>1. Init => IInv
  <2> SUFFICES ASSUME Init PROVE IInv
    OBVIOUS
  <2>1. LockTypeOK /\ LockAccounted
    BY DEF Init, LockInit, LockTypeOK, LockAccounted
  <2>2. StateTypes /\ ArgsFit
    BY DEF Init, StateTypes, ArgsFit, States
  <2> QED
    BY <2>1, <2>2
<1>2. IInv /\ [Next]_vars => IInv'
  BY StateUsesLock, LockTypesStep, StateTypesStep, AccountedStep
<1>3. IInv => LockAccounted
  OBVIOUS
<1> QED
  BY <1>1, <1>2, <1>3, PTL DEF Spec
=============================================================================

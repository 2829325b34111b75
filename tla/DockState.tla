------------------------------ MODULE DockState ------------------------------
(***************************************************************************)
(* lib/state/state.cpp and the request side of lib/led_control: the state  *)
(* every task of the dock sets, and the LED pattern it asks for.           *)
(*                                                                         *)
(* The lock of DockMutex covers the update of m_prevState, m_currentState  *)
(* and the timeouts.  The update of the LED and the way out of the two     *)
(* learning events come after it, without the lock.                        *)
(***************************************************************************)
EXTENDS DockMutex

CONSTANTS
  LoopTask,     \* the Arduino loop task, the only one to run State::loop()
  Asks,         \* the states each task may set
  NoPattern     \* the LED task is between two patterns

States == {"NOT_SET", "TEST_LED_RED", "TEST_LED_GREEN", "TEST_LED_BLUE",
           "STARTUP", "SETUP", "CONNECTING", "CONN_SUCCESS", "NORMAL",
           "NORMAL_CHARGING", "ERROR", "LED_SETUP", "NORMAL_FULLYCHARGED",
           "NORMAL_LOWBATTERY", "OTA", "IDENTIFY", "IR_LEARNING",
           "IR_LEARN_OK", "IR_LEARN_FAILED"}

Timed  == {"LED_SETUP", "IDENTIFY"}             \* ended by a timeout
Events == {"IR_LEARN_OK", "IR_LEARN_FAILED"}    \* pseudo states

ASSUME AsksAssumption ==
  /\ LoopTask \in Tasks
  /\ Asks \in [Tasks -> SUBSET States]
  /\ NoPattern \notin States

VARIABLES
  currentState, prevState,   \* m_currentState, m_prevState
  timeout,                   \* m_ledSetupTimeout and m_identifyTimeout # 0
  pc,                        \* where each task is in its call
  arg,                       \* the state it sets, or "event" or "get"
  ledBits,                   \* the event group of LedControl
  pattern                    \* what the LED task is showing

stateVars == <<currentState, prevState, timeout>>
ledVars   == <<ledBits, pattern>>
vars == <<lockVars, stateVars, pc, arg, ledVars>>

Init ==
  /\ LockInit
  /\ currentState = "NOT_SET"
  /\ prevState = "NOT_SET"
  /\ timeout = [s \in Timed |-> FALSE]
  /\ pc = [t \in Tasks |-> "idle"]
  /\ arg = [t \in Tasks |-> "NOT_SET"]
  /\ ledBits = {}
  /\ pattern = NoPattern

Goto(t, step) == pc' = [pc EXCEPT ![t] = step]

(* A call is over; its argument is forgotten. *)
Return(t) ==
  /\ Goto(t, "idle")
  /\ arg' = [arg EXCEPT ![t] = "NOT_SET"]

-----------------------------------------------------------------------------
(* Calls and the lock.                                                     *)

Begin(t, a) ==
  /\ Runs(t)
  /\ pc[t] = "idle"
  /\ Goto(t, "lock")
  /\ arg' = [arg EXCEPT ![t] = a]
  /\ UNCHANGED <<lockVars, stateVars, ledVars>>

SetStateCall(t) == \E s \in Asks[t] : Begin(t, s)

GetStateCall(t) == Begin(t, "get")

(* State::loop() finds a timeout over ...                                  *)
TimeoutSeen(s) ==
  /\ Runs(LoopTask)
  /\ pc[LoopTask] = "idle"
  /\ timeout[s]
  /\ Goto(LoopTask, "disarm")
  /\ arg' = [arg EXCEPT ![LoopTask] = s]
  /\ UNCHANGED <<lockVars, stateVars, ledVars>>

(* ... and sets it to 0 without the lock before it raises the event. *)
TimeoutDisarm ==
  /\ Runs(LoopTask)
  /\ pc[LoopTask] = "disarm"
  /\ timeout' = [timeout EXCEPT ![arg[LoopTask]] = FALSE]
  /\ Goto(LoopTask, "lock")
  /\ arg' = [arg EXCEPT ![LoopTask] = "event"]
  /\ UNCHANGED <<lockVars, currentState, prevState, ledVars>>

(* while (!GetMutex(&state_mutex)) delay(1); *)
TryLock(t, step) ==
  /\ pc[t] = "lock"
  /\ step
  /\ UNCHANGED <<stateVars, pc, arg, ledVars>>

LockLoad(t)  == TryLock(t, GetMutexLoad(t))
LockStore(t) == TryLock(t, GetMutexStore(t))

-----------------------------------------------------------------------------
(* With the lock.                                                          *)

(* A timed state asked for again only gets a longer timeout. *)
SavePrevState(t) ==
  LET s == arg[t] IN
  /\ Runs(t)
  /\ pc[t] = "lock" /\ lockPc[t] = "in"
  /\ s \in States
  /\ IF s \in Timed
       THEN /\ timeout' = [timeout EXCEPT ![s] = TRUE]
            /\ prevState' = IF prevState # s /\ currentState # s THEN currentState ELSE prevState
       ELSE /\ prevState' = currentState
            /\ UNCHANGED timeout
  /\ Goto(t, "set")
  /\ UNCHANGED <<lockVars, currentState, arg, ledVars>>

(* Mutant: an early way out that keeps the lock. *)
SetCurrentStateKeepsLock(t) ==
  /\ pc[t] = "set"
  /\ currentState' = arg[t]
  /\ IF currentState = arg[t] THEN UNCHANGED lockVars ELSE ReleaseMutex(t)
  /\ Goto(t, "check")
  /\ UNCHANGED <<prevState, timeout, arg, ledVars>>

SetCurrentState(t) ==
  /\ pc[t] = "set"
  /\ currentState' = arg[t]
  /\ ReleaseMutex(t)
  /\ Goto(t, "check")
  /\ UNCHANGED <<prevState, timeout, arg, ledVars>>

(* event(): LED_SETUP_DONE and IDENTIFY_DONE restore the previous state.   *)
(* CONN_SUCCESS_DONE is never raised.                                      *)
RestoreState(t) ==
  /\ pc[t] = "lock"
  /\ arg[t] = "event"
  /\ ReleaseMutex(t)
  /\ currentState' = prevState
  /\ Goto(t, "readCurrent")
  /\ UNCHANGED <<prevState, timeout, arg, ledVars>>

GetState(t) ==
  /\ pc[t] = "lock"
  /\ arg[t] = "get"
  /\ ReleaseMutex(t)
  /\ Return(t)
  /\ UNCHANGED <<stateVars, ledVars>>

-----------------------------------------------------------------------------
(* After the lock.                                                         *)

(* setState() updates the LED only if m_prevState differs. *)
LedCheck(t) ==
  /\ Runs(t)
  /\ pc[t] = "check"
  /\ IF prevState # arg[t] THEN Goto(t, "ledClear") /\ UNCHANGED arg
     ELSE IF arg[t] \in Events THEN Goto(t, "leaveEvent") /\ UNCHANGED arg
     ELSE Return(t)
  /\ UNCHANGED <<lockVars, stateVars, ledVars>>

(* event() reads m_currentState again for the LED. *)
ReadCurrent(t) ==
  /\ Runs(t)
  /\ pc[t] = "readCurrent"
  /\ arg' = [arg EXCEPT ![t] = currentState]
  /\ Goto(t, "eventClear")
  /\ UNCHANGED <<lockVars, stateVars, ledVars>>

(* Mutant: every state has a bit of its own. *)
LedBitsOfAll(s) == {s}

(* LedControl::setState(): clear all bits, then set those of the state.    *)
LedBitsOf(s) ==
  CASE s \in {"NOT_SET", "STARTUP", "NORMAL"} -> {}
    [] s = "TEST_LED_BLUE" -> {"TEST_LED_RED", "TEST_LED_GREEN"}
    [] OTHER -> {s}

LedClear(t) ==
  /\ Runs(t)
  /\ \/ pc[t] = "ledClear" /\ Goto(t, "ledSet")
     \/ pc[t] = "eventClear" /\ Goto(t, "eventSet")
  /\ ledBits' = {}
  /\ UNCHANGED <<lockVars, stateVars, arg, pattern>>

(* Only setState() leaves an event, event() returns. *)
LedSet(t) ==
  /\ Runs(t)
  /\ pc[t] \in {"ledSet", "eventSet"}
  /\ ledBits' = ledBits \cup LedBitsOf(arg[t])
  /\ IF pc[t] = "ledSet" /\ arg[t] \in Events
       THEN Goto(t, "leaveEvent") /\ UNCHANGED arg
       ELSE Return(t)
  /\ UNCHANGED <<lockVars, stateVars, pattern>>

(* "don't remain in this pseudo state representing an event" *)
LeaveEvent(t) ==
  /\ Runs(t)
  /\ pc[t] = "leaveEvent"
  /\ currentState' = prevState
  /\ Return(t)
  /\ UNCHANGED <<lockVars, prevState, timeout, ledVars>>

InCall(t) ==
  \/ SavePrevState(t) \/ SetCurrentState(t) \/ RestoreState(t) \/ GetState(t)
  \/ LedCheck(t) \/ ReadCurrent(t) \/ LedClear(t) \/ LedSet(t) \/ LeaveEvent(t)
  \/ t = LoopTask /\ TimeoutDisarm

-----------------------------------------------------------------------------
(* The LED task: one pattern per pass, by priority; the patterns of events *)
(* clear their own bit when they end.                                      *)
LedPriority ==
  <<"TEST_LED_RED", "TEST_LED_GREEN", "OTA", "LED_SETUP", "IDENTIFY", "SETUP",
    "CONNECTING", "CONN_SUCCESS", "IR_LEARN_FAILED", "IR_LEARN_OK",
    "IR_LEARNING", "NORMAL_FULLYCHARGED", "NORMAL_LOWBATTERY", "ERROR",
    "NORMAL_CHARGING">>

OncePatterns == {"IDENTIFY", "CONN_SUCCESS"} \cup Events

PatternStart ==
  /\ pattern = NoPattern
  /\ \E i \in DOMAIN LedPriority :
       /\ LedPriority[i] \in ledBits
       /\ \A j \in 1 .. i - 1 : LedPriority[j] \notin ledBits
       /\ pattern' = LedPriority[i]
  /\ UNCHANGED <<lockVars, stateVars, pc, arg, ledBits>>

PatternEnd ==
  /\ pattern # NoPattern
  /\ ledBits' = ledBits \ ({pattern} \cap OncePatterns)
  /\ pattern' = NoPattern
  /\ UNCHANGED <<lockVars, stateVars, pc, arg>>

Next ==
  \/ \E t \in Tasks : SetStateCall(t) \/ GetStateCall(t) \/ LockLoad(t) \/ LockStore(t) \/ InCall(t)
  \/ \E s \in Timed : TimeoutSeen(s)
  \/ PatternStart
  \/ PatternEnd

(***************************************************************************)
(* A task inside a call runs on: another task masks its core for three     *)
(* instructions at a time.  A task that waits for the lock sleeps a tick   *)
(* between two tries while the lock is held for a few instructions: it     *)
(* meets a free lock sooner or later.                                      *)
(***************************************************************************)
Fairness ==
  /\ \A t \in Tasks :
       /\ SF_vars(InCall(t))
       /\ SF_vars(LockLoad(t) /\ mutex = 1)
       /\ SF_vars(LockStore(t))
  /\ WF_vars(PatternStart)
  /\ WF_vars(PatternEnd)

Spec == Init /\ [][Next]_vars /\ Fairness

-----------------------------------------------------------------------------
(* Types of the shared state and the tasks' progress through their calls. *)
TypeOK ==
  /\ LockTypeOK
  /\ currentState \in States
  /\ prevState \in States
  /\ timeout \in [Timed -> BOOLEAN]
  /\ pc \in [Tasks -> {"idle", "disarm", "lock", "set", "check", "ledClear", "ledSet", "leaveEvent",
                       "readCurrent", "eventClear", "eventSet"}]
  /\ arg \in [Tasks -> States \cup {"event", "get"}]
  /\ ledBits \subseteq {LedPriority[i] : i \in DOMAIN LedPriority}
  /\ pattern \in States \cup {NoPattern}

(***************************************************************************)
(* Every call comes back: whoever got the lock has given it back, whatever *)
(* the other tasks set meanwhile.                                          *)
(***************************************************************************)
CallsReturn == \A t \in Tasks : (pc[t] # "idle") ~> (pc[t] = "idle")

(***************************************************************************)
(* "only run LED pattern but don't remain in this pseudo state             *)
(* representing an event" (state.cpp:106): with no call under way the dock *)
(* is not in a learning event.                                             *)
(***************************************************************************)
EventsAreLeft ==
  (\A t \in Tasks : pc[t] = "idle") => currentState \notin Events
=============================================================================

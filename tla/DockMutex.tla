------------------------------ MODULE DockMutex ------------------------------
(***************************************************************************)
(* lib/mutex/mutex.cpp: the spin lock that guards State.  It was written   *)
(* for the one core of an ESP8266: GetMutex() masks interrupts, loads the  *)
(* lock word, stores 0 if it was 1 and unmasks.  While a task is between   *)
(* the load and the unmask no other task of ITS core runs.  A task of the  *)
(* other core does.                                                        *)
(***************************************************************************)
EXTENDS Naturals

CONSTANTS
  Tasks,
  CoreOf,   \* the core each task is pinned to
  NoTask

ASSUME TasksAssumption == NoTask \notin Tasks

VARIABLES
  mutex,    \* the lock word: 1 is free
  lockPc,   \* per task: "out", "loaded" (inside the masked block) or "in"
  loaded,   \* iOld: the value GetMutex() has loaded
  masked    \* per core: the task inside its masked block

lockVars == <<mutex, lockPc, loaded, masked>>

Cores == {CoreOf[t] : t \in Tasks}

LockInit ==
  /\ mutex = 1
  /\ lockPc = [t \in Tasks |-> "out"]
  /\ loaded = [t \in Tasks |-> 0]
  /\ masked = [c \in Cores |-> NoTask]

(* Task t can run: nobody else masks interrupts on its core. *)
Runs(t) == masked[CoreOf[t]] \in {NoTask, t}

(* Mutant: the load without the interrupt mask. *)
GetMutexLoadUnmasked(t) ==
  /\ Runs(t)
  /\ lockPc[t] = "out"
  /\ loaded' = [loaded EXCEPT ![t] = mutex]
  /\ lockPc' = [lockPc EXCEPT ![t] = "loaded"]
  /\ UNCHANGED <<mutex, masked>>

(* rsil, l32i *)
GetMutexLoad(t) ==
  /\ Runs(t)
  /\ lockPc[t] = "out"
  /\ masked' = [masked EXCEPT ![CoreOf[t]] = t]
  /\ loaded' = [loaded EXCEPT ![t] = mutex]
  /\ lockPc' = [lockPc EXCEPT ![t] = "loaded"]
  /\ UNCHANGED mutex

(* bne, s32i, wsr.ps: the lock is taken if it was loaded as free; if not,  *)
(* the caller tries again.                                                 *)
GetMutexStore(t) ==
  /\ Runs(t)
  /\ lockPc[t] = "loaded"
  /\ mutex' = IF loaded[t] = 1 THEN 0 ELSE mutex
  /\ lockPc' = [lockPc EXCEPT ![t] = IF loaded[t] = 1 THEN "in" ELSE "out"]
  /\ masked' = [masked EXCEPT ![CoreOf[t]] = NoTask]
  /\ UNCHANGED loaded

ReleaseMutex(t) ==
  /\ Runs(t)
  /\ lockPc[t] = "in"
  /\ mutex' = 1
  /\ lockPc' = [lockPc EXCEPT ![t] = "out"]
  /\ UNCHANGED <<loaded, masked>>

LockNext ==
  \E t \in Tasks : GetMutexLoad(t) \/ GetMutexStore(t) \/ ReleaseMutex(t)

LockSpec == LockInit /\ [][LockNext]_lockVars

LockTypeOK ==
  /\ mutex \in {0, 1}
  /\ lockPc \in [Tasks -> {"out", "loaded", "in"}]
  /\ loaded \in [Tasks -> {0, 1}]
  /\ masked \in [Cores -> Tasks \cup {NoTask}]

(***************************************************************************)
(* No two tasks hold the lock.  True for tasks of one core; a task pinned  *)
(* to the other core (irlearn_core = 0) can take the lock between another  *)
(* task's load and its store.                                              *)
(***************************************************************************)
MutualExclusion ==
  \A t, u \in Tasks : lockPc[t] = "in" /\ lockPc[u] = "in" => t = u
=============================================================================

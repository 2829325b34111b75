----------------------------- MODULE MCDockState -----------------------------
(***************************************************************************)
(* Instances of DockState for TLC: the loop task and the learn task,       *)
(* pinned to core 1 as they are by default.                                *)
(***************************************************************************)
EXTENDS DockState

CONSTANTS loop, learn

TwoTasks == {loop, learn}
AllOnOne == [t \in Tasks |-> 1]

\* What each task can ask for, cut down to one state of each kind.
TimedAndLearn == [t \in Tasks |->
  IF t = loop THEN {"NORMAL", "IDENTIFY"} ELSE {"IR_LEARN_OK"}]
LearnOnOff == [t \in Tasks |->
  IF t = loop THEN {"NORMAL", "IR_LEARNING"} ELSE {"IR_LEARN_OK"}]
=============================================================================

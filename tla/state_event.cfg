SPECIFICATION Spec
CONSTANTS
  loop = loop
  learn = learn
  NoTask = NoTask
  NoPattern = NoPattern
  LoopTask = loop
  Tasks <- TwoTasks
  CoreOf <- AllOnOne
  Asks <- LearnOnOff
INVARIANTS
  EventsAreLeft

SPECIFICATION Spec
CONSTANTS
  MaxClients = 2
  Tasks = {t1, t2, t3}
  Fds = {f1, f2, f3}
  SendBuffer = 1
  NoFd = NoFd
  NoJob = NoJob
INVARIANTS TypeOK SlotAccounting SocketsOwned
PROPERTIES VanishedMakesRoom
\* The server stops for good once every slot is lost.
CHECK_DEADLOCK FALSE

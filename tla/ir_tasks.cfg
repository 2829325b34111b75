SPECIFICATION Spec
CONSTANTS
  gc1 = gc1
  a = a
  b = b
  Api = Api
  Broadcast = Broadcast
  NoMessage = NoMessage
  GcClients <- OneGcClient
  WsClients <- NoWsClient
  Codes <- TwoCodes
  BadCodes <- BadCodeB
  Repeats <- OneRepeat
  ResponseCap = 1
INVARIANTS
  TypeOK
  SlotOwned
  RepeatForSameCode
PROPERTIES
  OneSlotServer
  StopEndsRepeat
  Released
  StopWins
  ResponsesDrain

SPECIFICATION Spec
CONSTANTS
  gc1 = gc1
  a = a
  b = b
  Api = Api
  Broadcast = Broadcast
  NoMessage = NoMessage
  GcClients <- OneGcClient
  WsClients <- NoWsClient
  Codes <- OneCode
  BadCodes <- NoBadCode
  Repeats <- OneRepeat
  ResponseCap = 1
INVARIANT
  PreCheckSuffices

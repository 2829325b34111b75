SPECIFICATION Spec
CONSTANTS
  NumberOf <- MCNumberOf
  ULLongMax <- MCULLongMax
  LongWords <- MCLongWords
  Requests <- MCRequests
  LineEnds <- MCLineEnds
  MaxAsked = 2
  Tokens <- MCTokens
  MaxTokens <- MCMaxTokens
INVARIANTS ExecutedWereSent HexCodesParse ArraysFit
PROPERTIES WholeRequestsObeyed

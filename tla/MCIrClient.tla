------------------------------ MODULE MCIrClient ------------------------------
(***************************************************************************)
(* The instance of IrClient for TLC: one request of each command that does *)
(* something, and the tokens that each format can confuse.                 *)
(***************************************************************************)
EXTENDS IrClient

MCNumberOf == [t \in {"0", "1", "5", "24", "38000", "21", "32768", "65536"} |->
  CASE t = "0" -> 0 [] t = "1" -> 1 [] t = "5" -> 5 [] t = "24" -> 24 [] t = "21" -> 21
    [] t = "38000" -> 38000 [] t = "32768" -> 32768 [] t = "65536" -> 65536]

\* "sendir,1:5,24,38000,1,1,5,24,5,24"
MCSendir == <<"sendir", ",", "1", ":", "5", ",", "24", ",", "38000", ",", "1", ",", "1",
              ",", "5", ",", "24", ",", "5", ",", "24">>

\* Less than 65536, so that one number is too large for a command as well.
MCULLongMax == 65535

MCRequest(text, asks) == [text |-> text, asks |-> asks]

MCRequests ==
  {MCRequest(MCSendir, <<<<"sendGC", 5, 24, <<38000, 1, 1, 5, 24, 5, 24>>>>>>),
   MCRequest(<<"stopir", ",", "1", ":", "1">>, <<<<"stopSend">>>>),
   MCRequest(<<"blink", ",", "0">>, <<<<"setState", "NORMAL">>>>),
   MCRequest(<<"blink", ",", "1">>, <<<<"setState", "IDENTIFY">>>>),
   MCRequest(<<"blink">>, <<<<"setState", "IDENTIFY">>>>),
   MCRequest(<<"get_IRL">>, <<<<"startIrLearn">>>>),
   MCRequest(<<"stop_IRL">>, <<<<"stopIrLearn">>>>),
   MCRequest(<<"getversion">>, <<>>),
   MCRequest(<<"getlonginformation", ",", "1", ":", "1">>, <<>>)}

MCLongWords == {"getlonginformation"}

MCLineEnds == {<<"CR">>, <<"CR", "LF">>}

MCTokens == [f \in Formats |->
  CASE f = "UNFOLDED_CIRCLE" -> {";", "x", "space", "0", "1", "21", "65536"}
    [] f = "PRONTO"          -> {"space", "0", "1", "32768"}
    [] f = "GLOBAL_CACHE"    -> {"sendir", ",", "5"}]

MCMaxTokens == [f \in Formats |->
  CASE f = "UNFOLDED_CIRCLE" -> 8 [] f = "PRONTO" -> 13 [] f = "GLOBAL_CACHE" -> 11]

\* The requests above are of the forms that the proofs are about.
ASSUME RequestsAreKnown == \A r \in Requests : KnownRequest(r)
=============================================================================

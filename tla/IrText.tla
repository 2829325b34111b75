-------------------------------- MODULE IrText --------------------------------
(***************************************************************************)
(* The texts the dock takes apart: the IR codes of lib/util/ir_codes.hpp,  *)
(* the GlobalCache requests of lib/util/globalcache.hpp and the second     *)
(* look at a sendir request in sendGlobalCache().                          *)
(*                                                                         *)
(* A text is a sequence of tokens: a command name, a number, a separator,  *)
(* white space or junk.  Two numbers do not stand next to each other, so   *)
(* that a token is all the digits strtoul() and atoi() would take.  A      *)
(* number has no sign, and outside of the IR command, which is read with   *)
(* 64 bits, it fits into the long that those two return.                   *)
(***************************************************************************)
EXTENDS Naturals, Sequences, FiniteSets, SequencesExt

CONSTANTS
  NumberOf,    \* the value of each token that is a number
  ULLongMax,   \* UINT64_MAX; the integers of a run are shorter than that
  LongWords    \* command names that do not fit into GCMsg.command

Numbers == DOMAIN NumberOf
White   == {"space", "LF"}
Word    == 65536               \* uint16_t
Comma     == ","
Semicolon == ";"

ASSUME NumbersAssumption ==
  /\ \A t \in Numbers : NumberOf[t] \in Nat
  /\ ULLongMax \in Nat
  /\ Numbers \cap (White \cup {Semicolon, Comma, ":", "CR"}) = {}

From(s, i) == SubSeq(s, i, Len(s))

\* strchr() and indexOf(): 0 when there is none.
Find(s, token, from) == SelectInSubSeq(s, from, Len(s), LAMBDA t : t = token)

\* Where strtoul() and atoi() begin to read.
FirstOf(s, from) == SelectInSubSeq(s, from, Len(s), LAMBDA t : t \notin White)

\* atoi(), toInt(), and strtoul() without a look at its end pointer.
NumberAt(s, from) ==
  LET i == FirstOf(s, from)
  IN IF i # 0 /\ s[i] \in Numbers THEN NumberOf[s[i]] ELSE 0

\* A field that strtoul() takes to its end.
IsNumber(f) ==
  LET i == FirstOf(f, 1) IN i # 0 /\ i = Len(f) /\ f[i] \in Numbers

-----------------------------------------------------------------------------
(* IR codes.                                                               *)

(* Mutant: what follows the last number is not looked at. *)
parseULongPrefix(f, max) ==
  LET i == FirstOf(f, 1) IN i # 0 /\ f[i] \in Numbers /\ NumberAt(f, 1) <= max

(* A number up to a maximum: parseULong() and its callers' checks, and the *)
(* same with strtoull() for the command.                                   *)
parseULong(f, max) == IsNumber(f) /\ NumberAt(f, 1) <= max

NoHexData == [ok |-> FALSE]

\* "<protocol>;<hex-ir-code>;<bits>;<repeat-count>"
buildIRHexData(message) ==
  LET first    == Find(message, Semicolon, 1)
      second   == Find(message, Semicolon, first + 1)
      third    == Find(message, Semicolon, second + 1)
      protocol == NumberAt(SubSeq(message, 1, first - 1), 1)
      command  == SubSeq(message, first + 1, second - 1)
      bits     == SubSeq(message, second + 1, third - 1)
      repeat   == From(message, third + 1)
  IN IF /\ 0 \notin {first, second, third}
        /\ protocol # 0
        /\ parseULong(command, ULLongMax)
        /\ parseULong(bits, Word - 1) /\ NumberAt(bits, 1) # 0
        /\ parseULong(repeat, 20)
       THEN [ok      |-> TRUE,            protocol |-> protocol,
             command |-> NumberAt(command, 1), bits |-> NumberAt(bits, 1),
             repeat  |-> NumberAt(repeat, 1)]
       ELSE NoHexData

\* Where the separators of a text are, the first one first.
SeparatorsOf(s, sep) ==
  LET at == {i \in 1 .. Len(s) : s[i] = sep}
  IN [k \in 1 .. Cardinality(at) |->
        CHOOSE i \in at : Cardinality({j \in at : j <= i}) = k]

countValuesInCStr(s, sep) ==
  IF s = <<>> THEN 0 ELSE (Len(SeparatorsOf(s, sep)) + 1) % Word

(* The values the two loops write: one at each separator after the first   *)
(* "skip" ones, read from behind the separator before it, and one for what *)
(* is left at the end.                                                     *)
Values(s, sep, skip) ==
  LET seps   == SeparatorsOf(s, sep)
      start  == <<1>> \o [k \in DOMAIN seps |-> seps[k] + 1]
      closed == SubSeq(start, skip + 1, Len(seps))
      open   == IF Last(start) <= Len(s) THEN <<Last(start)>> ELSE <<>>
      all    == closed \o open
  IN [k \in DOMAIN all |-> NumberAt(s, all[k]) % Word]

\* A buffer of "allocated" values, what was written to it, and whether it
\* was returned; NULL if nothing was allocated.
Buffer(ok, allocated, array) == [ok |-> ok, allocated |-> allocated, array |-> array]
Null == Buffer(FALSE, 0, <<>>)

(* Mutant: the second sequence is checked as if it came first. *)
prontoSequencesUnmoved(array) ==
  LET len1 == (array[3] * 2) % Word
      len2 == (array[4] * 2) % Word
  IN /\ len1 > 0 => len1 + 4 <= Len(array)
     /\ len2 > 0 => len2 + 4 <= Len(array)

(* Both sequences of pairs are there; the lengths are uint16_t. *)
prontoSequences(array) ==
  LET len1   == (array[3] * 2) % Word
      len2   == (array[4] * 2) % Word
      start2 == (4 + len1) % Word
  IN /\ len1 > 0 => len1 + 4 <= Len(array)
     /\ len2 > 0 => len2 + start2 <= Len(array)

prontoBufferToArray(msg, separator) ==
  LET count == countValuesInCStr(msg, separator)
      array == Values(msg, separator, 0)
  IN IF count < 6 THEN Null
     ELSE Buffer(array[1] = 0 /\ prontoSequences(array), count, array)

\* send_ir_f(): a space, or the comma of old versions.
prontoSeparator(message) == IF Find(message, "space", 1) < 2 THEN Comma ELSE "space"

globalCacheBufferToArray(msg) ==
  LET skip  == IF msg # <<>> /\ msg[1] = "sendir" THEN 3 ELSE 0
      count == (countValuesInCStr(msg, Comma) + Word - skip) % Word
  IN IF count < 6 THEN Null
     ELSE Buffer(TRUE, count, Values(msg, Comma, skip))

-----------------------------------------------------------------------------
(* GlobalCache requests.                                                   *)

NoParam == <<>>

Error(n) == [error |-> n]
Request(command, module, port, param) ==
  [error |-> 0, command |-> command, module |-> module, port |-> port, param |-> param]

TooLong(command) == \E i \in DOMAIN command : command[i] \in LongWords

(* <command>, <command>,<param> or <command>,<module>:<port>[,<params>] *)
parseGcRequest(request) ==
  LET comma   == Find(request, Comma, 1)
      command == IF comma = 0 THEN request ELSE SubSeq(request, 1, comma - 1)
      rest    == comma + 1
      colon   == Find(request, ":", rest)
      port    == NumberAt(request, colon + 1)
      next    == Find(request, Comma, colon + 1)
  IN CASE TooLong(command) -> Error(1)
       [] ~TooLong(command) /\ comma = 0 -> Request(command, 0, 0, NoParam)
       [] ~TooLong(command) /\ comma # 0 ->
            IF colon = 0 /\ Find(request, Comma, rest) = 0
              THEN Request(command, 0, 0, From(request, rest))
            ELSE IF NumberAt(request, rest) # 1 THEN Error(2)
            ELSE IF colon = 0 \/ port \notin 1 .. 15 THEN Error(3)
            ELSE Request(command, 1, port, IF next = 0 THEN NoParam ELSE From(request, next + 1))

(* Mutant: the repeat count is looked for one field too early. *)
sendGlobalCacheEarlyRepeat(sendir) ==
  LET id        == Find(sendir, Comma, 5)
      frequency == Find(sendir, Comma, id + 1)
      port      == NumberAt(sendir, 5)
      repeat    == NumberAt(sendir, id + 1) % Word
  IN IF ~IsPrefix(<<"sendir", Comma, "1", ":">>, sendir) THEN Error(2)
     ELSE IF id = 0 THEN Error(4)
     ELSE IF port \notin 1 .. 15 THEN Error(3)
     ELSE IF frequency = 0 THEN Error(5)
     ELSE IF repeat \notin 1 .. 50 THEN Error(6)
     ELSE [error |-> 0, port |-> port, repeat |-> repeat]

(* The fields before the pulses, with the error codes of an iTach. *)
sendGlobalCache(sendir) ==
  LET id        == Find(sendir, Comma, 5)
      frequency == Find(sendir, Comma, id + 1)
      third     == Find(sendir, Comma, frequency + 1)
      port      == NumberAt(sendir, 5)
      repeat    == NumberAt(sendir, third + 1) % Word
  IN IF ~IsPrefix(<<"sendir", Comma, "1", ":">>, sendir) THEN Error(2)
     ELSE IF id = 0 THEN Error(4)
     ELSE IF port \notin 1 .. 15 THEN Error(3)
     ELSE IF frequency = 0 THEN Error(5)
     ELSE IF third = 0 \/ repeat \notin 1 .. 50 THEN Error(6)
     ELSE [error |-> 0, port |-> port, repeat |-> repeat]
=============================================================================

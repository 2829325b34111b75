---------------------------- MODULE IrClientProofs ----------------------------
(***************************************************************************)
(* What the parsers promise for codes of any length that reaches them, of  *)
(* any tokens.                                                             *)
(***************************************************************************)
EXTENDS IrClient, TLAPS, WellFoundedInduction, FiniteSetTheorems, FunctionTheorems,
        SequenceTheorems

-----------------------------------------------------------------------------
(* Where something is in a text.                                           *)

Less == {ss \in Nat \X Nat : ss[1] < ss[2]}

LEMMA LeastNatural ==
  ASSUME NEW T \in SUBSET Nat, T # {}
  PROVE  Min(T) \in T /\ \A y \in T : Min(T) <= y
<1>1. IsWellFoundedOn(Less, Nat)
  BY NatLessThanWellFounded DEF OpToRel, Less
<1>2. PICK x \in T : \A y \in T : <<y, x>> \notin Less
  BY <1>1, WFMin
<1>3. ASSUME NEW y \in T PROVE x <= y
  <2>1. x \in Nat /\ y \in Nat /\ <<y, x>> \notin Less
    BY <1>2
  <2>2. <<y, x>> \in Nat \X Nat /\ <<y, x>>[1] = y /\ <<y, x>>[2] = x
    BY <2>1
  <2>3. ~(y < x)
    BY <2>1, <2>2 DEF Less
  <2> QED
    BY <2>1, <2>3
<1> QED
  BY <1>3 DEF Min

LEMMA FindFirst ==
  ASSUME NEW s, Len(s) \in Nat, NEW token, NEW from \in Nat
  PROVE  \/ /\ Find(s, token, from) = 0
            /\ \A k \in from .. Len(s) : s[k] # token
         \/ /\ Find(s, token, from) \in from .. Len(s)
            /\ s[Find(s, token, from)] = token
            /\ \A k \in from .. Find(s, token, from) - 1 : s[k] # token
<1> DEFINE I == {i \in from .. Len(s) : s[i] = token}
<1>1. Find(s, token, from) = IF I # {} THEN Min(I) ELSE 0
  BY DEF Find, SelectInSubSeq
<1>2. CASE I = {}
  BY <1>1, <1>2
<1>3. CASE I # {}
  <2>1. Min(I) \in I /\ \A y \in I : Min(I) <= y
    <3>1. I \in SUBSET Nat
      OBVIOUS
    <3> HIDE DEF I
    <3> QED
      BY <1>3, <3>1, LeastNatural
  <2> DEFINE m == Min(I)
  <2>2. Find(s, token, from) = m
    BY <1>1, <1>3
  <2>3. m \in from .. Len(s) /\ s[m] = token
    BY <2>1
  <2>4. ASSUME NEW k \in from .. m - 1 PROVE s[k] # token
    BY <2>1, <2>3
  <2> HIDE DEF m
  <2> QED
    BY <2>2, <2>3, <2>4
<1> QED
  BY <1>2, <1>3

LEMMA FirstOfFirst ==
  ASSUME NEW s, Len(s) \in Nat, NEW from \in Nat
  PROVE  \/ /\ FirstOf(s, from) = 0
            /\ \A k \in from .. Len(s) : s[k] \in White
         \/ /\ FirstOf(s, from) \in from .. Len(s)
            /\ s[FirstOf(s, from)] \notin White
            /\ \A k \in from .. FirstOf(s, from) - 1 : s[k] \in White
<1> DEFINE I == {i \in from .. Len(s) : s[i] \notin White}
<1>1. FirstOf(s, from) = IF I # {} THEN Min(I) ELSE 0
  BY DEF FirstOf, SelectInSubSeq
<1>2. CASE I = {}
  BY <1>1, <1>2
<1>3. CASE I # {}
  <2>1. Min(I) \in I /\ \A y \in I : Min(I) <= y
    <3>1. I \in SUBSET Nat
      OBVIOUS
    <3> HIDE DEF I
    <3> QED
      BY <1>3, <3>1, LeastNatural
  <2> DEFINE m == Min(I)
  <2>2. FirstOf(s, from) = m
    BY <1>1, <1>3
  <2>3. m \in from .. Len(s) /\ s[m] \notin White
    BY <2>1
  <2>4. ASSUME NEW k \in from .. m - 1 PROVE s[k] \in White
    BY <2>1, <2>3
  <2> HIDE DEF m
  <2> QED
    BY <2>2, <2>3, <2>4
<1> QED
  BY <1>2, <1>3

LEMMA NumberAtType ==
  ASSUME NEW s, NEW from
  PROVE  NumberAt(s, from) \in Nat
BY NumbersAssumption DEF NumberAt

-----------------------------------------------------------------------------
(* The arrays.                                                             *)

LEMMA WordSize == Word \in Nat /\ 65535 < Word
BY DEF Word

LEMMA ModType == ASSUME NEW x \in Nat PROVE x % Word \in 0 .. Word - 1
BY WordSize

LEMMA ModSmall == ASSUME NEW x \in Nat, x < Word PROVE x % Word = x
BY DEF Word

LEMMA ModWraps == ASSUME NEW x \in Nat, Word <= x, x < 2 * Word PROVE x % Word = x - Word
BY DEF Word

LEMMA SeparatorsAreCounted ==
  ASSUME NEW s, Len(s) \in Nat, NEW sep
  PROVE  /\ Len(SeparatorsOf(s, sep)) \in 0 .. Len(s)
         /\ DOMAIN SeparatorsOf(s, sep) = 1 .. Len(SeparatorsOf(s, sep))
<1> DEFINE at == {i \in 1 .. Len(s) : s[i] = sep}
           nth(k) == CHOOSE i \in at : Cardinality({j \in at : j <= i}) = k
<1>1. Cardinality(at) \in Nat /\ Cardinality(at) <= Len(s)
  <2> DEFINE n == Len(s)
  <2>1. n \in Int /\ 1 \in Int /\ n \in Nat
    OBVIOUS
  <2> HIDE DEF n
  <2>2. IsFiniteSet(1 .. n) /\ Cardinality(1 .. n) = IF 1 > n THEN 0 ELSE n - 1 + 1
    BY <2>1, FS_Interval
  <2>3. Cardinality(1 .. n) = n
    BY <2>1, <2>2
  <2> QED
    BY <2>2, <2>3, FS_Subset, FS_CardinalityType DEF n
<1>2. SeparatorsOf(s, sep) = [k \in 1 .. Cardinality(at) |-> nth(k)]
  BY DEF SeparatorsOf
<1> HIDE DEF at, nth
<1> QED
  BY <1>1, <1>2

(* What the second loop writes: a value for each separator it does not     *)
(* skip and perhaps one more.                                              *)
LEMMA ValuesLength ==
  ASSUME NEW s, Len(s) \in Nat, NEW sep, NEW skip \in Nat
  PROVE  /\ Values(s, sep, skip) \in Seq(0 .. Word - 1)
         /\ Len(Values(s, sep, skip)) \in Nat
         /\ Len(SeparatorsOf(s, sep)) - skip <= Len(Values(s, sep, skip))
         /\ Len(Values(s, sep, skip)) <= IF skip <= Len(SeparatorsOf(s, sep))
                                           THEN Len(SeparatorsOf(s, sep)) - skip + 1 ELSE 1
<1> DEFINE seps   == SeparatorsOf(s, sep)
           n      == Len(seps)
           start  == <<1>> \o [k \in DOMAIN seps |-> seps[k] + 1]
           closed == SubSeq(start, skip + 1, n)
           open   == IF Last(start) <= Len(s) THEN <<Last(start)>> ELSE <<>>
           all    == closed \o open
           S      == {1, Last(start)} \cup {seps[k] + 1 : k \in 1 .. n}
           least  == IF skip <= n THEN n - skip ELSE 0
<1>1. n \in Nat /\ DOMAIN seps = 1 .. n
  BY SeparatorsAreCounted
<1>2. start \in Seq(S) /\ Len(start) = n + 1
  <2> HIDE DEF seps, n
  <2>1. [k \in DOMAIN seps |-> seps[k] + 1] \in Seq(S) /\ Len([k \in DOMAIN seps |-> seps[k] + 1]) = n
    BY <1>1
  <2>2. <<1>> \in Seq(S) /\ Len(<<1>>) = 1
    OBVIOUS
  <2> QED
    BY <1>1, <2>1, <2>2, ConcatProperties
<1>3. closed \in Seq(S) /\ Len(closed) = least
  <2> HIDE DEF seps, n, start
  <2> QED
    BY <1>1, <1>2, SubSeqProperties
<1>4. open \in Seq(S) /\ Len(open) \in {0, 1}
  <2> DEFINE x == Last(start)
  <2>1. x \in S /\ open = IF x <= Len(s) THEN <<x>> ELSE <<>>
    OBVIOUS
  <2> HIDE DEF x, open, S
  <2>2. <<x>> \in Seq(S) /\ Len(<<x>>) = 1 /\ <<>> \in Seq(S) /\ Len(<<>>) = 0
    BY <2>1
  <2> QED
    BY <2>1, <2>2
<1>5. all \in Seq(S) /\ Len(all) \in least .. least + 1
  <2>1. least \in Nat
    BY <1>1
  <2> HIDE DEF seps, n, start, closed, open, S, least
  <2>2. all \in Seq(S) /\ Len(all) = Len(closed) + Len(open)
    BY <1>3, <1>4, ConcatProperties
  <2> HIDE DEF all
  <2>3. CASE Len(open) = 0
    BY <1>3, <2>1, <2>2, <2>3
  <2>4. CASE Len(open) = 1
    BY <1>3, <2>1, <2>2, <2>4
  <2> QED
    BY <1>4, <2>3, <2>4
<1>6. Values(s, sep, skip) = [k \in DOMAIN all |-> NumberAt(s, all[k]) % Word]
  BY DEF Values
<1>7. ASSUME NEW k PROVE NumberAt(s, all[k]) % Word \in 0 .. Word - 1
  <2>1. NumberAt(s, all[k]) \in Nat
    BY NumberAtType
  <2> QED
    BY <2>1, ModType
<1> HIDE DEF seps, n, start, closed, open, all, S, least
<1>8. DOMAIN all = 1 .. Len(all) /\ Len(all) \in Nat
  BY <1>5
<1>9. Values(s, sep, skip) \in Seq(0 .. Word - 1) /\ Len(Values(s, sep, skip)) = Len(all)
  BY <1>6, <1>7, <1>8
<1>10. /\ n - skip <= Len(all)
       /\ Len(all) <= IF skip <= n THEN n - skip + 1 ELSE 1
  BY <1>1, <1>5 DEF least
<1> QED
  BY <1>8, <1>9, <1>10 DEF n, seps

(* An array as it is returned: what was written fits into what was         *)
(* allocated.                                                              *)
Fits(buffer) ==
  /\ buffer.allocated \in 0 .. Word - 1
  /\ buffer.array \in Seq(0 .. Word - 1)
  /\ Len(buffer.array) <= buffer.allocated

LEMMA NullFits == Fits(Null) /\ ~Null.ok
BY DEF Fits, Null, Buffer, Word

LEMMA BothHold ==
  ASSUME NEW ok, NEW P, NEW Q, ok = (P /\ Q), ok
  PROVE  Q
BY Zenon

LEMMA ProntoFits ==
  ASSUME NEW s, Len(s) \in Nat, Len(s) < 32768, NEW sep
  PROVE  /\ Fits(prontoBufferToArray(s, sep))
         /\ prontoBufferToArray(s, sep).ok =>
              /\ Len(prontoBufferToArray(s, sep).array) >= 5
              /\ prontoSequences(prontoBufferToArray(s, sep).array)
<1> DEFINE n     == Len(SeparatorsOf(s, sep))
           count == countValuesInCStr(s, sep)
           array == Values(s, sep, 0)
<1>1. n \in Nat /\ n < 32768
  BY SeparatorsAreCounted
<1>2. count = 0 \/ count = n + 1
  <2>1. count = 0 \/ count = (n + 1) % Word
    BY DEF countValuesInCStr
  <2> HIDE DEF count, n
  <2>2. n + 1 \in Nat /\ n + 1 < Word
    BY <1>1, WordSize
  <2> QED
    BY <2>1, <2>2, ModSmall
<1>3. /\ array \in Seq(0 .. Word - 1)
      /\ Len(array) \in Nat /\ n <= Len(array) /\ Len(array) <= n + 1
  BY <1>1, ValuesLength
<1>4. prontoBufferToArray(s, sep) =
        IF count < 6 THEN Null
        ELSE Buffer(array[1] = 0 /\ prontoSequences(array), count, array)
  BY DEF prontoBufferToArray
<1> HIDE DEF n, count, array
<1>5. CASE count < 6
  BY <1>4, <1>5, NullFits
<1>6. CASE ~(count < 6)
  <2>1. count = n + 1 /\ n >= 5 /\ count \in 0 .. Word - 1
    BY <1>1, <1>2, <1>6, WordSize
  <2>2. prontoBufferToArray(s, sep) =
          [ok |-> array[1] = 0 /\ prontoSequences(array), allocated |-> count, array |-> array]
    BY <1>4, <1>6 DEF Buffer
  <2>3. Fits(prontoBufferToArray(s, sep))
    BY <1>3, <2>1, <2>2 DEF Fits
  <2>4. Len(array) >= 5
    BY <1>1, <1>3, <2>1
  <2> DEFINE b == prontoBufferToArray(s, sep)
  <2>5. b.ok = (array[1] = 0 /\ prontoSequences(array))
    BY <2>2
  <2>6. Fits(b) /\ Len(b.array) >= 5 /\ b.array = array
    BY <2>2, <2>3, <2>4
  <2> HIDE DEF b
  <2>7. ASSUME b.ok PROVE prontoSequences(array)
    BY <2>5, <2>7, BothHold
  <2>8. prontoSequences(array) => prontoSequences(b.array)
    BY <2>6
  <2> QED
    BY <2>6, <2>7, <2>8 DEF b
<1> QED
  BY <1>5, <1>6

LEMMA GlobalCacheFits ==
  ASSUME NEW s, Len(s) \in Nat, Len(s) < 32768
  PROVE  Fits(globalCacheBufferToArray(s))
<1> DEFINE n     == Len(SeparatorsOf(s, Comma))
           skip  == IF s # <<>> /\ s[1] = "sendir" THEN 3 ELSE 0
           c     == countValuesInCStr(s, Comma)
           count == (c + Word - skip) % Word
           array == Values(s, Comma, skip)
<1>1. n \in Nat /\ n < 32768 /\ skip \in {0, 3} /\ (s = <<>> => skip = 0)
  <2>1. n \in Nat /\ n < 32768
    BY SeparatorsAreCounted
  <2> HIDE DEF n
  <2> QED
    BY <2>1
<1>2. /\ array \in Seq(0 .. Word - 1) /\ Len(array) \in Nat
      /\ Len(array) <= (IF skip <= n THEN n - skip + 1 ELSE 1)
  <2> HIDE DEF skip
  <2>1. skip \in Nat
    BY <1>1
  <2> QED
    BY <2>1, ValuesLength
<1>3. c = IF s = <<>> THEN 0 ELSE n + 1
  <2>1. c = IF s = <<>> THEN 0 ELSE (n + 1) % Word
    BY DEF countValuesInCStr
  <2> HIDE DEF c, n
  <2>2. n + 1 \in Nat /\ n + 1 < Word
    BY <1>1, WordSize
  <2> QED
    BY <2>1, <2>2, ModSmall
<1>4. globalCacheBufferToArray(s) = IF count < 6 THEN Null ELSE Buffer(TRUE, count, array)
  BY DEF globalCacheBufferToArray
<1>5. count \in 0 .. Word - 1 /\ (count < 6 \/ Len(array) <= count)
  <2> HIDE DEF n, c, array, skip
  <2>1. CASE s = <<>>
    <3>1. c + Word - skip = Word
      BY <1>1, <1>3, <2>1, WordSize
    <3>2. count = 0
      BY <3>1, ModWraps, WordSize
    <3> QED
      BY <3>2, WordSize
  <2>2. CASE s # <<>> /\ skip <= n + 1
    <3>1. c + Word - skip \in Nat /\ Word <= c + Word - skip /\ c + Word - skip < 2 * Word
      BY <1>1, <1>3, <2>2, WordSize
    <3> DEFINE y == c + Word - skip
    <3>2. count = y - Word
      <4> HIDE DEF y
      <4> QED
        BY <3>1, ModWraps DEF y
    <3>3. count = n + 1 - skip
      BY <1>1, <1>3, <2>2, <3>2, WordSize
    <3> QED
      BY <1>1, <1>2, <2>2, <3>3, WordSize
  <2>3. CASE s # <<>> /\ skip > n + 1
    <3>1. c + Word - skip \in Nat /\ c + Word - skip < Word
      BY <1>1, <1>3, <2>3, WordSize
    <3>2. count = c + Word - skip
      BY <3>1, ModSmall
    <3> QED
      BY <1>1, <1>2, <1>3, <2>3, <3>2, WordSize
  <2> QED
    BY <1>1, <2>1, <2>2, <2>3
<1> HIDE DEF n, c, count, array, skip
<1>6. CASE count < 6
  BY <1>4, <1>6, NullFits
<1>7. CASE ~(count < 6)
  <2>1. globalCacheBufferToArray(s) = [ok |-> TRUE, allocated |-> count, array |-> array]
    BY <1>4, <1>7 DEF Buffer
  <2> QED
    BY <1>2, <1>5, <1>7, <2>1 DEF Fits
<1> QED
  BY <1>6, <1>7

(* What the second check of the sequences is good for: neither length and  *)
(* no start wraps in a code that is accepted.                              *)
LEMMA SequencesFit ==
  ASSUME NEW array \in Seq(0 .. Word - 1), Len(array) >= 4, Len(array) < Word,
         prontoSequences(array),
         (2 * array[3]) % Word # 0 \/ (2 * array[4]) % Word # 0
  PROVE  4 + ((2 * array[3]) % Word) + ((2 * array[4]) % Word) <= Len(array)
<1> DEFINE len1   == (2 * array[3]) % Word
           len2   == (2 * array[4]) % Word
           start2 == (4 + len1) % Word
           n      == Len(array)
<1>1. array[3] \in Nat /\ array[4] \in Nat /\ n \in Nat /\ n < Word /\ n >= 4
  BY WordSize
<1>2. array[3] * 2 = 2 * array[3] /\ array[4] * 2 = 2 * array[4]
  BY <1>1
<1>3. len1 \in Nat /\ len2 \in Nat
  <2> DEFINE double1 == 2 * array[3]
             double2 == 2 * array[4]
  <2>1. double1 \in Nat /\ double2 \in Nat
    BY <1>1
  <2> HIDE DEF double1, double2
  <2>2. double1 % Word \in 0 .. Word - 1
    BY <2>1, ModType
  <2>3. double2 % Word \in 0 .. Word - 1
    BY <2>1, ModType
  <2> QED
    BY <2>2, <2>3, WordSize DEF double1, double2
<1>4. (len1 > 0 => len1 + 4 <= n) /\ (len2 > 0 => len2 + start2 <= n)
  <2> DEFINE half1 == array[3] * 2
             half2 == array[4] * 2
  <2>1. half1 = 2 * array[3] /\ half2 = 2 * array[4]
    BY <1>2
  <2>2. /\ half1 % Word > 0 => (half1 % Word) + 4 <= n
        /\ half2 % Word > 0 => (half2 % Word) + ((4 + (half1 % Word)) % Word) <= n
    BY DEF prontoSequences
  <2>3. half1 % Word = len1 /\ half2 % Word = len2
    <3> HIDE DEF half1, half2
    <3> QED
      BY <2>1
  <2> HIDE DEF half1, half2, len1, len2, n
  <2> QED
    BY <2>2, <2>3 DEF start2
<1>5. len1 # 0 \/ len2 # 0
  OBVIOUS
<1> HIDE DEF len1, len2, start2, n
<1>6. start2 = 4 + len1
  <2>1. 4 + len1 \in Nat /\ 4 + len1 < Word
    BY <1>1, <1>3, <1>4, WordSize
  <2> QED
    BY <2>1, ModSmall DEF start2
<1>7. 4 + len1 + len2 <= n
  BY <1>1, <1>3, <1>4, <1>5, <1>6
<1> QED
  BY <1>7 DEF len1, len2, n

-----------------------------------------------------------------------------
(* The fields of a text.                                                   *)

LEMMA SemicolonIsNoSpace == Semicolon \notin White
BY Zenon DEF Semicolon, White

LEMMA SemicolonIsNoNumber == Semicolon \notin Numbers
BY NumbersAssumption, Zenon

LEMMA NumbersAreNoSpace == ASSUME NEW t \in Numbers PROVE t \notin White
BY NumbersAssumption, Zenon

LEMMA NumbersAreNatural == ASSUME NEW t \in Numbers PROVE NumberOf[t] \in Nat
BY NumbersAssumption, Zenon

LEMMA FieldOf ==
  ASSUME NEW S, NEW s \in Seq(S), NEW a \in Nat, NEW b \in Nat, 1 <= a, b <= Len(s), a <= b + 1
  PROVE  /\ Len(SubSeq(s, a, b)) = b - a + 1
         /\ \A m \in a .. b : SubSeq(s, a, b)[m - a + 1] = s[m]
<1>1. CASE a = b + 1
  <2>1. SubSeq(s, a, b) = <<>>
    BY <1>1, SubSeqProperties
  <2> QED
    BY <1>1, <2>1
<1>2. CASE a <= b
  BY <1>2, SubSeqProperties
<1> QED
  BY <1>1, <1>2

(* A field whose first token that is no white space is at p: atoi() reads  *)
(* that one.                                                               *)
LEMMA FirstInField ==
  ASSUME NEW S, NEW s \in Seq(S), NEW a \in Nat, NEW b \in Nat, 1 <= a, b <= Len(s), a <= b + 1,
         NEW p \in a .. b, s[p] \notin White, \A m \in a .. p - 1 : s[m] \in White
  PROVE  /\ FirstOf(SubSeq(s, a, b), 1) = p - a + 1
         /\ SubSeq(s, a, b)[p - a + 1] = s[p]
         /\ Len(SubSeq(s, a, b)) = b - a + 1
<1> DEFINE f == SubSeq(s, a, b)
<1>1. Len(f) = b - a + 1 /\ \A m \in a .. b : f[m - a + 1] = s[m]
  BY FieldOf
<1> HIDE DEF f
<1>2. \/ FirstOf(f, 1) = 0 /\ \A k \in 1 .. Len(f) : f[k] \in White
      \/ /\ FirstOf(f, 1) \in 1 .. Len(f)
         /\ f[FirstOf(f, 1)] \notin White
         /\ \A k \in 1 .. FirstOf(f, 1) - 1 : f[k] \in White
  <2>1. Len(f) \in Nat
    BY <1>1
  <2> QED
    BY <2>1, FirstOfFirst
<1>3. f[p - a + 1] = s[p] /\ p - a + 1 \in 1 .. Len(f)
  BY <1>1
<1>4. ASSUME NEW k \in 1 .. p - a PROVE f[k] \in White
  <2>1. k + a - 1 \in a .. p - 1 /\ k + a - 1 \in a .. b /\ (k + a - 1) - a + 1 = k
    OBVIOUS
  <2> QED
    BY <1>1, <2>1
<1>5. FirstOf(f, 1) = p - a + 1
  <2> DEFINE q == FirstOf(f, 1)
             r == p - a + 1
  <2>1. r \in 1 .. Len(f) /\ f[r] \notin White /\ \A k \in 1 .. r - 1 : f[k] \in White
    BY <1>3, <1>4
  <2>2. q \in 1 .. Len(f) /\ f[q] \notin White /\ \A k \in 1 .. q - 1 : f[k] \in White
    BY <1>2, <2>1
  <2>3. Len(f) \in Nat
    BY <1>1
  <2> HIDE DEF q, r
  <2>4. ~(q < r) /\ ~(r < q)
    BY <2>1, <2>2, <2>3
  <2>5. q = r
    BY <2>1, <2>2, <2>3, <2>4
  <2> QED
    BY <2>5 DEF q, r
<1> QED
  BY <1>1, <1>3, <1>5 DEF f

(* The other way round: where the field's first token is in the text.      *)
LEMMA FieldBegins ==
  ASSUME NEW S, NEW s \in Seq(S), NEW a \in Nat, NEW b \in Nat, 1 <= a, b <= Len(s), a <= b + 1,
         FirstOf(SubSeq(s, a, b), 1) # 0
  PROVE  \E p \in a .. b : s[p] \notin White /\ \A m \in a .. p - 1 : s[m] \in White
<1> DEFINE f == SubSeq(s, a, b)
           q == FirstOf(f, 1)
<1>1. Len(f) = b - a + 1 /\ \A m \in a .. b : f[m - a + 1] = s[m]
  BY FieldOf
<1> HIDE DEF f
<1>2. q \in 1 .. Len(f) /\ f[q] \notin White /\ \A k \in 1 .. q - 1 : f[k] \in White
  <2>1. Len(f) \in Nat /\ q # 0
    BY <1>1 DEF f
  <2> QED
    BY <2>1, FirstOfFirst
<1> HIDE DEF q
<1>3. q + a - 1 \in a .. b /\ (q + a - 1) - a + 1 = q
  BY <1>1, <1>2
<1>4. s[q + a - 1] \notin White
  BY <1>1, <1>2, <1>3
<1>5. ASSUME NEW m \in a .. (q + a - 1) - 1 PROVE s[m] \in White
  <2>1. m \in a .. b /\ m - a + 1 \in 1 .. q - 1
    BY <1>1, <1>2
  <2> QED
    BY <1>1, <1>2, <2>1
<1> QED
  BY <1>3, <1>4, <1>5

(* strtoul() takes a field to its end when a number is the last token of   *)
(* it and white space all the others.                                      *)
LEMMA NumberField ==
  ASSUME NEW S, NEW s \in Seq(S), NEW a \in Nat, NEW b \in Nat, 1 <= a, b <= Len(s), a <= b + 1
  PROVE  /\ IsNumber(SubSeq(s, a, b)) =>
              a <= b /\ s[b] \in Numbers /\ \A m \in a .. b - 1 : s[m] \in White
         /\ a <= b /\ s[b] \in Numbers /\ (\A m \in a .. b - 1 : s[m] \in White) =>
              IsNumber(SubSeq(s, a, b)) /\ NumberAt(SubSeq(s, a, b), 1) = NumberOf[s[b]]
<1> DEFINE f == SubSeq(s, a, b)
<1>1. ASSUME IsNumber(f)
      PROVE  a <= b /\ s[b] \in Numbers /\ \A m \in a .. b - 1 : s[m] \in White
  <2>1. FirstOf(f, 1) # 0 /\ FirstOf(f, 1) = Len(f) /\ f[FirstOf(f, 1)] \in Numbers
    BY <1>1 DEF IsNumber
  <2>2. PICK p \in a .. b : s[p] \notin White /\ \A m \in a .. p - 1 : s[m] \in White
    BY <2>1, FieldBegins
  <2>3. FirstOf(f, 1) = p - a + 1 /\ f[p - a + 1] = s[p] /\ Len(f) = b - a + 1
    BY <2>2, FirstInField
  <2>4. p = b
    BY <2>1, <2>3
  <2> QED
    BY <2>1, <2>2, <2>3, <2>4
<1>2. ASSUME a <= b, s[b] \in Numbers, \A m \in a .. b - 1 : s[m] \in White
      PROVE  IsNumber(f) /\ NumberAt(f, 1) = NumberOf[s[b]]
  <2>1. b \in a .. b /\ s[b] \notin White
    BY <1>2, NumbersAreNoSpace
  <2>2. FirstOf(f, 1) = b - a + 1 /\ f[b - a + 1] = s[b] /\ Len(f) = b - a + 1
    BY <1>2, <2>1, FirstInField
  <2> HIDE DEF f
  <2>3. b - a + 1 # 0
    BY <1>2
  <2> QED
    BY <1>2, <2>2, <2>3 DEF IsNumber, NumberAt
<1> QED
  BY <1>1, <1>2

(* The number of the protocol is the first token; junk may follow it.      *)
LEMMA ProtocolField ==
  ASSUME NEW S, NEW s \in Seq(S), NEW i \in 1 .. Len(s)
  PROVE  /\ NumberAt(SubSeq(s, 1, i - 1), 1) # 0 =>
              \E p \in 1 .. i - 1 :
                /\ s[p] \in Numbers /\ NumberOf[s[p]] # 0
                /\ \A m \in 1 .. p - 1 : s[m] \in White
         /\ \A p \in 1 .. i - 1 :
              s[p] \in Numbers /\ (\A m \in 1 .. p - 1 : s[m] \in White) =>
                NumberAt(SubSeq(s, 1, i - 1), 1) = NumberOf[s[p]]
<1> DEFINE f == SubSeq(s, 1, i - 1)
<1>1. i - 1 \in Nat /\ i - 1 <= Len(s) /\ 1 <= (i - 1) + 1
  OBVIOUS
<1>2. ASSUME NEW p \in 1 .. i - 1, s[p] \in Numbers, \A m \in 1 .. p - 1 : s[m] \in White
      PROVE  NumberAt(f, 1) = NumberOf[s[p]]
  <2>1. s[p] \notin White
    BY <1>2, NumbersAreNoSpace
  <2>2. FirstOf(f, 1) = p - 1 + 1 /\ f[p - 1 + 1] = s[p]
    BY <1>1, <1>2, <2>1, FirstInField
  <2> HIDE DEF f
  <2>3. FirstOf(f, 1) = p /\ p # 0 /\ f[p] \in Numbers
    BY <1>2, <2>2
  <2> QED
    BY <2>2, <2>3 DEF NumberAt
<1>3. ASSUME NumberAt(f, 1) # 0
      PROVE  \E p \in 1 .. i - 1 : /\ s[p] \in Numbers /\ NumberOf[s[p]] # 0
                                  /\ \A m \in 1 .. p - 1 : s[m] \in White
  <2>1. FirstOf(f, 1) # 0 /\ f[FirstOf(f, 1)] \in Numbers
        /\ NumberAt(f, 1) = NumberOf[f[FirstOf(f, 1)]]
    BY <1>3 DEF NumberAt
  <2>2. PICK p \in 1 .. i - 1 : s[p] \notin White /\ \A m \in 1 .. p - 1 : s[m] \in White
    BY <1>1, <2>1, FieldBegins
  <2>3. FirstOf(f, 1) = p - 1 + 1 /\ f[p - 1 + 1] = s[p]
    <3> DEFINE b == i - 1
    <3>1. /\ b \in Nat /\ b <= Len(s) /\ 1 <= b + 1 /\ p \in 1 .. b
          /\ s[p] \notin White /\ \A m \in 1 .. p - 1 : s[m] \in White
      BY <1>1, <2>2
    <3> HIDE DEF b
    <3>2. FirstOf(SubSeq(s, 1, b), 1) = p - 1 + 1 /\ SubSeq(s, 1, b)[p - 1 + 1] = s[p]
      BY <3>1, FirstInField
    <3> QED
      BY <3>2 DEF b
  <2>4. f[FirstOf(f, 1)] = s[p]
    BY <2>3
  <2> QED
    BY <1>3, <2>1, <2>2, <2>4
<1> QED
  BY <1>2, <1>3

LEMMA FoundAt ==
  ASSUME NEW s, Len(s) \in Nat, NEW token, NEW from \in Nat, NEW i \in from .. Len(s), from >= 1,
         s[i] = token, \A m \in from .. i - 1 : s[m] # token
  PROVE  Find(s, token, from) = i
<1> DEFINE q == Find(s, token, from)
<1>1. q \in from .. Len(s) /\ s[q] = token /\ \A k \in from .. q - 1 : s[k] # token
  BY FindFirst
<1> HIDE DEF q
<1>2. ~(q < i) /\ ~(i < q)
  BY <1>1
<1>3. q = i
  BY <1>1, <1>2
<1> QED
  BY <1>3 DEF q

(* What buildIRHexData() takes has its fields where the grammar has them.  *)
LEMMA HexAccepted ==
  ASSUME NEW S, NEW s \in Seq(S), buildIRHexData(s).ok
  PROVE  \E i, j, k \in Semicolons(s) : \E p \in 1 .. i - 1 : HexFields(s, p, i, j, k)
<1> DEFINE i        == Find(s, Semicolon, 1)
           j        == Find(s, Semicolon, i + 1)
           k        == Find(s, Semicolon, j + 1)
           protocol == NumberAt(SubSeq(s, 1, i - 1), 1)
           command  == SubSeq(s, i + 1, j - 1)
           bits     == SubSeq(s, j + 1, k - 1)
           repeat   == SubSeq(s, k + 1, Len(s))
<1>1. /\ i # 0 /\ j # 0 /\ k # 0
      /\ protocol # 0
      /\ IsNumber(command) /\ NumberAt(command, 1) <= ULLongMax
      /\ IsNumber(bits) /\ NumberAt(bits, 1) <= Word - 1 /\ NumberAt(bits, 1) # 0
      /\ IsNumber(repeat) /\ NumberAt(repeat, 1) <= 20
  <2> DEFINE cond == /\ 0 \notin {i, j, k}
                     /\ protocol # 0
                     /\ parseULong(command, ULLongMax)
                     /\ parseULong(bits, Word - 1) /\ NumberAt(bits, 1) # 0
                     /\ parseULong(repeat, 20)
  <2>1. ~cond => buildIRHexData(s) = NoHexData
    BY DEF buildIRHexData, From
  <2>2. NoHexData.ok = FALSE
    BY DEF NoHexData
  <2> HIDE DEF cond
  <2>3. cond
    BY <2>1, <2>2
  <2> HIDE DEF i, j, k, protocol, command, bits, repeat
  <2> QED
    BY <2>3 DEF cond, parseULong
<1>2. Len(s) \in Nat
  OBVIOUS
<1>3. i \in 1 .. Len(s) /\ s[i] = Semicolon /\ \A m \in 1 .. i - 1 : s[m] # Semicolon
  BY <1>1, <1>2, FindFirst
<1>4. j \in i + 1 .. Len(s) /\ s[j] = Semicolon /\ \A m \in i + 1 .. j - 1 : s[m] # Semicolon
  <2>1. i + 1 \in Nat
    BY <1>3
  <2> HIDE DEF i
  <2> QED
    BY <1>1, <1>2, <2>1, FindFirst
<1>5. k \in j + 1 .. Len(s) /\ s[k] = Semicolon /\ \A m \in j + 1 .. k - 1 : s[m] # Semicolon
  <2>1. j + 1 \in Nat
    BY <1>3, <1>4
  <2> HIDE DEF i, j
  <2> QED
    BY <1>1, <1>2, <2>1, FindFirst
<1> HIDE DEF i, j, k
<1>6. PICK p \in 1 .. i - 1 : /\ s[p] \in Numbers /\ NumberOf[s[p]] # 0
                             /\ \A m \in 1 .. p - 1 : s[m] \in White
  BY <1>1, <1>3, ProtocolField
<1>7. /\ i + 1 <= j - 1 /\ s[j - 1] \in Numbers /\ \A m \in i + 1 .. (j - 1) - 1 : s[m] \in White
      /\ NumberAt(command, 1) = NumberOf[s[j - 1]]
  <2> DEFINE a == i + 1
             b == j - 1
  <2>1. a \in Nat /\ b \in Nat /\ 1 <= a /\ b <= Len(s) /\ a <= b + 1 /\ IsNumber(SubSeq(s, a, b))
    BY <1>1, <1>2, <1>3, <1>4
  <2> HIDE DEF a, b
  <2>2. a <= b /\ s[b] \in Numbers /\ \A m \in a .. b - 1 : s[m] \in White
    BY <2>1, NumberField
  <2>3. NumberAt(SubSeq(s, a, b), 1) = NumberOf[s[b]]
    BY <2>1, <2>2, NumberField
  <2> QED
    BY <2>2, <2>3 DEF a, b
<1>8. /\ j + 1 <= k - 1 /\ s[k - 1] \in Numbers /\ \A m \in j + 1 .. (k - 1) - 1 : s[m] \in White
      /\ NumberAt(bits, 1) = NumberOf[s[k - 1]]
  <2> DEFINE a == j + 1
             b == k - 1
  <2>1. a \in Nat /\ b \in Nat /\ 1 <= a /\ b <= Len(s) /\ a <= b + 1 /\ IsNumber(SubSeq(s, a, b))
    BY <1>1, <1>2, <1>3, <1>4, <1>5
  <2> HIDE DEF a, b
  <2>2. a <= b /\ s[b] \in Numbers /\ \A m \in a .. b - 1 : s[m] \in White
    BY <2>1, NumberField
  <2>3. NumberAt(SubSeq(s, a, b), 1) = NumberOf[s[b]]
    BY <2>1, <2>2, NumberField
  <2> QED
    BY <2>2, <2>3 DEF a, b
<1>9. /\ k + 1 <= Len(s) /\ s[Len(s)] \in Numbers /\ \A m \in k + 1 .. Len(s) - 1 : s[m] \in White
      /\ NumberAt(repeat, 1) = NumberOf[s[Len(s)]]
  <2> DEFINE a == k + 1
             b == Len(s)
  <2>1. a \in Nat /\ b \in Nat /\ 1 <= a /\ b <= Len(s) /\ a <= b + 1 /\ IsNumber(SubSeq(s, a, b))
    BY <1>1, <1>2, <1>5, <1>3, <1>4
  <2>2. repeat = SubSeq(s, a, b)
    OBVIOUS
  <2> HIDE DEF a, b, repeat
  <2>3. a <= b /\ s[b] \in Numbers /\ \A m \in a .. b - 1 : s[m] \in White
    BY <2>1, NumberField
  <2>4. NumberAt(SubSeq(s, a, b), 1) = NumberOf[s[b]]
    BY <2>1, <2>3, NumberField
  <2> QED
    BY <2>2, <2>3, <2>4 DEF a, b
<1> HIDE DEF protocol, command, bits, repeat
<1> DEFINE n == Len(s)
<1>10. DOMAIN s = 1 .. n /\ n \in Nat
  OBVIOUS
<1>11. s[n] # Semicolon
  BY <1>9, SemicolonIsNoNumber
<1> HIDE DEF n
<1>12. p < i /\ i < j /\ j < k /\ k < n /\ i \in Nat /\ j \in Nat /\ k \in Nat /\ p \in Nat
  BY <1>3, <1>4, <1>5, <1>6, <1>9, <1>2 DEF n
<1>13. Semicolons(s) = {i, j, k}
  <2>1. ASSUME NEW m \in 1 .. n, s[m] = Semicolon PROVE m \in {i, j, k}
    <3>1. ~(m < i)
      BY <1>3, <1>12, <2>1
    <3>2. ~(i < m /\ m < j)
      BY <1>4, <1>12, <2>1
    <3>3. ~(j < m /\ m < k)
      BY <1>5, <1>12, <2>1
    <3>4. ~(k < m /\ m < n)
      BY <1>9, <1>12, <2>1, SemicolonIsNoSpace DEF n
    <3>5. m # n
      BY <1>11, <2>1
    <3> QED
      BY <1>10, <1>12, <3>1, <3>2, <3>3, <3>4, <3>5
  <2>2. i \in 1 .. n /\ j \in 1 .. n /\ k \in 1 .. n
    BY <1>10, <1>12, <1>6
  <2> QED
    BY <1>3, <1>4, <1>5, <1>10, <2>1, <2>2 DEF Semicolons
<1>14. \A m \in {p, j - 1, k - 1, n} : s[m] \in Numbers
  BY <1>6, <1>7, <1>8, <1>9 DEF n
<1>15. ASSUME NEW m \in 1 .. n, m \notin p .. i, m \notin {j - 1, j, k - 1, k, n}
       PROVE  s[m] \in White
  <2>1. CASE m < p
    BY <1>6, <1>12, <2>1
  <2>2. CASE i < m /\ m < j
    BY <1>7, <1>12, <1>15, <2>2
  <2>3. CASE j < m /\ m < k
    BY <1>8, <1>12, <1>15, <2>3
  <2>4. CASE k < m
    <3>1. m \in k + 1 .. n - 1
      BY <1>10, <1>12, <1>15, <2>4
    <3>2. \A l \in k + 1 .. n - 1 : s[l] \in White
      BY <1>9 DEF n
    <3> QED
      BY <3>1, <3>2
  <2> QED
    BY <1>10, <1>12, <1>15, <2>1, <2>2, <2>3, <2>4
<1>16. /\ NumberOf[s[k - 1]] \in Nat /\ NumberOf[s[k - 1]] # 0 /\ NumberOf[s[k - 1]] <= Word - 1
       /\ NumberOf[s[n]] <= 20 /\ NumberOf[s[j - 1]] <= ULLongMax
  BY <1>1, <1>7, <1>8, <1>9, NumbersAreNatural DEF n
<1>17. NumberOf[s[k - 1]] \in 1 .. Word - 1
  BY <1>16, WordSize
<1>18. HexFields(s, p, i, j, k)
  BY <1>6, <1>10, <1>12, <1>13, <1>14, <1>15, <1>16, <1>17 DEF HexFields, n
<1> QED
  BY <1>13, <1>18

(* And a text with these fields is taken, each number from its own place.  *)
LEMMA HexRead ==
  ASSUME NEW S, NEW s \in Seq(S),
         NEW i \in Semicolons(s), NEW j \in Semicolons(s), NEW k \in Semicolons(s),
         NEW p \in 1 .. i - 1, HexFields(s, p, i, j, k)
  PROVE  buildIRHexData(s) =
           [ok |-> TRUE, protocol |-> NumberOf[s[p]], command |-> NumberOf[s[j - 1]],
            bits |-> NumberOf[s[k - 1]], repeat |-> NumberOf[s[Len(s)]]]
<1> DEFINE n        == Len(s)
           protocol == NumberAt(SubSeq(s, 1, i - 1), 1)
           command  == SubSeq(s, i + 1, j - 1)
           bits     == SubSeq(s, j + 1, k - 1)
           repeat   == SubSeq(s, k + 1, Len(s))
<1>1. DOMAIN s = 1 .. n /\ n \in Nat
  OBVIOUS
<1>2. /\ i \in 1 .. n /\ j \in 1 .. n /\ k \in 1 .. n /\ p \in Nat /\ p >= 1
      /\ p < i /\ i < j /\ j < k /\ k < n
  BY <1>1 DEF HexFields, Semicolons
<1>3. \A m \in 1 .. n : s[m] = Semicolon <=> m \in {i, j, k}
  BY <1>1 DEF HexFields, Semicolons
<1>4. /\ s[p] \in Numbers /\ s[j - 1] \in Numbers /\ s[k - 1] \in Numbers /\ s[n] \in Numbers
      /\ NumberOf[s[p]] # 0
      /\ NumberOf[s[j - 1]] <= ULLongMax
      /\ NumberOf[s[k - 1]] \in 1 .. Word - 1 /\ NumberOf[s[n]] <= 20
  BY DEF HexFields
<1>5. \A m \in 1 .. n : m \notin p .. i /\ m \notin {j - 1, j, k - 1, k, n} => s[m] \in White
  BY <1>1 DEF HexFields
<1> HIDE DEF n, protocol, command, bits, repeat
<1>6. /\ Find(s, Semicolon, 1) = i
      /\ Find(s, Semicolon, i + 1) = j
      /\ Find(s, Semicolon, j + 1) = k
  <2>1. i \in 1 .. Len(s) /\ s[i] = Semicolon /\ \A m \in 1 .. i - 1 : s[m] # Semicolon
    BY <1>1, <1>2, <1>3 DEF n
  <2>2. /\ i + 1 \in Nat /\ i + 1 >= 1 /\ j \in i + 1 .. Len(s) /\ s[j] = Semicolon
        /\ \A m \in i + 1 .. j - 1 : s[m] # Semicolon
    BY <1>1, <1>2, <1>3 DEF n
  <2>3. /\ j + 1 \in Nat /\ j + 1 >= 1 /\ k \in j + 1 .. Len(s) /\ s[k] = Semicolon
        /\ \A m \in j + 1 .. k - 1 : s[m] # Semicolon
    BY <1>1, <1>2, <1>3 DEF n
  <2>4. Len(s) \in Nat
    OBVIOUS
  <2>5. Find(s, Semicolon, 1) = i
    BY <2>1, <2>4, FoundAt
  <2>6. Find(s, Semicolon, i + 1) = j
    BY <2>2, <2>4, FoundAt
  <2>7. Find(s, Semicolon, j + 1) = k
    BY <2>3, <2>4, FoundAt
  <2> QED
    BY <2>5, <2>6, <2>7
<1>7. j - 1 # i /\ k - 1 # j /\ n # k
  BY <1>1, <1>2, <1>3, <1>4, SemicolonIsNoNumber
<1>8. protocol = NumberOf[s[p]]
  <2>1. i \in 1 .. Len(s) /\ p \in 1 .. i - 1
    BY <1>1, <1>2 DEF n
  <2>2. \A m \in 1 .. p - 1 : s[m] \in White
    <3>1. ASSUME NEW m \in 1 .. p - 1 PROVE s[m] \in White
      <4>1. m \in 1 .. n /\ m \notin p .. i /\ m \notin {j - 1, j, k - 1, k, n}
        BY <1>1, <1>2
      <4> QED
        BY <1>5, <4>1
    <3> QED
      BY <3>1
  <2> QED
    BY <1>4, <2>1, <2>2, ProtocolField DEF protocol
<1>9. IsNumber(command) /\ NumberAt(command, 1) = NumberOf[s[j - 1]]
  <2> DEFINE a == i + 1
             b == j - 1
  <2>1. a \in Nat /\ b \in Nat /\ 1 <= a /\ b <= n /\ a <= b + 1 /\ a <= b
    BY <1>1, <1>2, <1>7
  <2>2. s[b] \in Numbers
    BY <1>4
  <2>3. ASSUME NEW m \in a .. b - 1 PROVE s[m] \in White
    <3>1. m \in 1 .. n /\ m \notin p .. i /\ m \notin {j - 1, j, k - 1, k, n}
      BY <1>1, <1>2
    <3> QED
      BY <1>5, <3>1
  <2> HIDE DEF a, b
  <2>4. IsNumber(SubSeq(s, a, b)) /\ NumberAt(SubSeq(s, a, b), 1) = NumberOf[s[b]]
    BY <2>1, <2>2, <2>3, NumberField DEF n
  <2> QED
    BY <2>4 DEF a, b, command
<1>10. IsNumber(bits) /\ NumberAt(bits, 1) = NumberOf[s[k - 1]]
  <2> DEFINE a == j + 1
             b == k - 1
  <2>1. a \in Nat /\ b \in Nat /\ 1 <= a /\ b <= n /\ a <= b + 1 /\ a <= b
    BY <1>1, <1>2, <1>7
  <2>2. s[b] \in Numbers
    BY <1>4
  <2>3. ASSUME NEW m \in a .. b - 1 PROVE s[m] \in White
    <3>1. m \in 1 .. n /\ m \notin p .. i /\ m \notin {j - 1, j, k - 1, k, n}
      BY <1>1, <1>2
    <3> QED
      BY <1>5, <3>1
  <2> HIDE DEF a, b
  <2>4. IsNumber(SubSeq(s, a, b)) /\ NumberAt(SubSeq(s, a, b), 1) = NumberOf[s[b]]
    BY <2>1, <2>2, <2>3, NumberField DEF n
  <2> QED
    BY <2>4 DEF a, b, bits
<1>11. IsNumber(repeat) /\ NumberAt(repeat, 1) = NumberOf[s[n]]
  <2> DEFINE a == k + 1
             b == n
  <2>1. a \in Nat /\ b \in Nat /\ 1 <= a /\ b <= n /\ a <= b + 1 /\ a <= b
    BY <1>1, <1>2, <1>7
  <2>2. s[b] \in Numbers
    BY <1>4
  <2>3. ASSUME NEW m \in a .. b - 1 PROVE s[m] \in White
    <3>1. m \in 1 .. n /\ m \notin p .. i /\ m \notin {j - 1, j, k - 1, k, n}
      BY <1>1, <1>2
    <3> QED
      BY <1>5, <3>1
  <2> HIDE DEF a, b
  <2>4. IsNumber(SubSeq(s, a, b)) /\ NumberAt(SubSeq(s, a, b), 1) = NumberOf[s[b]]
    BY <2>1, <2>2, <2>3, NumberField DEF n
  <2> QED
    BY <2>4 DEF a, b, repeat, n
<1>12. parseULong(command, ULLongMax) /\ parseULong(bits, Word - 1) /\ NumberAt(bits, 1) # 0
  BY <1>4, <1>9, <1>10, WordSize DEF parseULong
<1>13. parseULong(repeat, 20)
  BY <1>4, <1>11 DEF parseULong
<1>14. 0 \notin {i, j, k}
  BY <1>2
<1>15. buildIRHexData(s) =
         IF /\ 0 \notin {i, j, k} /\ protocol # 0 /\ parseULong(command, ULLongMax)
            /\ parseULong(bits, Word - 1) /\ NumberAt(bits, 1) # 0 /\ parseULong(repeat, 20)
           THEN [ok |-> TRUE, protocol |-> protocol, command |-> NumberAt(command, 1),
                 bits |-> NumberAt(bits, 1), repeat |-> NumberAt(repeat, 1)]
           ELSE NoHexData
  BY <1>6 DEF buildIRHexData, From, protocol, command, bits, repeat
<1>16. buildIRHexData(s) =
         [ok |-> TRUE, protocol |-> protocol, command |-> NumberAt(command, 1),
          bits |-> NumberAt(bits, 1), repeat |-> NumberAt(repeat, 1)]
  BY <1>4, <1>8, <1>9, <1>12, <1>13, <1>14, <1>15
<1> QED
  BY <1>8, <1>9, <1>10, <1>11, <1>16 DEF n

-----------------------------------------------------------------------------
(* The codes of API clients.                                               *)

AnyToken == UNION {Tokens[f] : f \in Formats}

(* A client stays what it is, its code within the bound, and a result is   *)
(* what became of the code that is there now.                              *)
CodeInv ==
  /\ client \in {"tcp"} \cup Formats
  /\ code \in Seq(AnyToken)
  /\ client \in Formats => Len(code) <= MaxTokens[client]
  /\ result = NoResult \/ (client \in Formats /\ result = Decoded(client, code))

(***************************************************************************)
(* send_ir_f() leaves a result only for the code it was given.             *)
(***************************************************************************)
THEOREM CodeInvariant == Spec => []CodeInv
<1>1. Init => CodeInv
  BY LengthAssumption DEF Init, CodeInv
<1>2. CodeInv /\ [Next]_vars => CodeInv'
  <2> SUFFICES ASSUME CodeInv, [Next]_vars PROVE CodeInv'
    OBVIOUS
  <2>1. ASSUME NEW r \in Requests, NEW e \in LineEnds, Ask(r, e) PROVE CodeInv'
    BY <2>1 DEF Ask, CodeInv
  <2>2. CASE Recv
    BY <2>2 DEF Recv, CodeInv
  <2>3. CASE Leave
    BY <2>3 DEF Leave, CodeInv
  <2>4. ASSUME client \in Formats, NEW token \in Tokens[client], Compose(token) PROVE CodeInv'
    <3>1. token \in AnyToken
      BY <2>4 DEF AnyToken
    <3>2. code' \in Seq(AnyToken) /\ Len(code') = Len(code) + 1 /\ Len(code) \in Nat
      BY <2>4, <3>1 DEF Compose, CodeInv
    <3>3. Len(code) < MaxTokens[client] /\ MaxTokens[client] \in Nat
      BY <2>4, LengthAssumption DEF Compose
    <3>4. Len(code') <= MaxTokens[client]
      BY <3>2, <3>3
    <3> QED
      BY <2>4, <3>2, <3>4 DEF Compose, CodeInv
  <2>5. CASE SendIr
    BY <2>5 DEF SendIr, CodeInv
  <2>6. CASE UNCHANGED vars
    BY <2>6 DEF vars, CodeInv
  <2> QED
    BY <2>1, <2>2, <2>3, <2>4, <2>5, <2>6 DEF Next
<1> QED
  BY <1>1, <1>2, PTL DEF Spec

(***************************************************************************)
(* A code of any length that reaches the dock is written into no more than *)
(* was counted for it, and an accepted PRONTO code has both sequences: the *)
(* uint16_t sums of prontoBufferToArray() never wrap for it.               *)
(***************************************************************************)
THEOREM ArraysAlwaysFit == Spec => []ArraysFit
<1>1. CodeInv => ArraysFit
  <2> SUFFICES ASSUME CodeInv, client \in {"PRONTO", "GLOBAL_CACHE"} PROVE ArraysFit
    BY DEF ArraysFit
  <2>1. Len(code) \in Nat /\ Len(code) < 32768
    <3>1. MaxTokens[client] \in Nat /\ MaxTokens[client] < 32768 /\ Len(code) <= MaxTokens[client]
      BY LengthAssumption DEF CodeInv, Formats
    <3>2. Len(code) \in Nat
      BY DEF CodeInv
    <3> QED
      BY <3>1, <3>2
  <2>2. CASE result = NoResult
    <3>1. Len(result.array) = 0 /\ result.allocated = 0 /\ ~result.ok
      BY <2>2 DEF NoResult
    <3> QED
      BY <3>1 DEF ArraysFit
  <2>3. CASE client = "GLOBAL_CACHE" /\ result = Decoded(client, code)
    <3>1. result = globalCacheBufferToArray(code)
      BY <2>3 DEF Decoded
    <3>2. Fits(result)
      BY <2>1, <3>1, GlobalCacheFits
    <3> QED
      BY <2>3, <3>2 DEF ArraysFit, Fits
  <2>4. CASE client = "PRONTO" /\ result = Decoded(client, code)
    <3>1. result = prontoBufferToArray(code, prontoSeparator(code))
      BY <2>4 DEF Decoded
    <3>2. /\ Fits(result)
          /\ result.ok => Len(result.array) >= 5 /\ prontoSequences(result.array)
      BY <2>1, <3>1, ProntoFits
    <3> DEFINE n1 == (2 * result.array[3]) % Word
               n2 == (2 * result.array[4]) % Word
    <3>3. ASSUME result.ok, n1 # 0 \/ n2 # 0 PROVE 4 + n1 + n2 <= Len(result.array)
      <4>1. Len(result.array) \in Nat /\ Len(result.array) < Word /\ Len(result.array) >= 4
        <5> DEFINE k == Len(result.array)
                   m == result.allocated
        <5>1. k \in Nat /\ m \in 0 .. Word - 1 /\ k <= m /\ k >= 5
          BY <3>2, <3>3 DEF Fits
        <5> HIDE DEF k, m
        <5>2. k < Word /\ k >= 4
          BY <5>1, WordSize
        <5> QED
          BY <5>1, <5>2 DEF k
      <4> DEFINE array == result.array
      <4>2. array \in Seq(0 .. Word - 1) /\ prontoSequences(array)
        BY <3>2, <3>3 DEF Fits
      <4>3. Len(array) >= 4 /\ Len(array) < Word
        BY <4>1
      <4> HIDE DEF array
      <4>4. (2 * array[3]) % Word # 0 \/ (2 * array[4]) % Word # 0 =>
              4 + ((2 * array[3]) % Word) + ((2 * array[4]) % Word) <= Len(array)
        BY <4>2, <4>3, SequencesFit
      <4> QED
        BY <3>3, <4>4 DEF array
    <3> DEFINE pairs == [i \in 3 .. 4 |-> (2 * result.array[i]) % Word]
    <3>4. pairs[3] = n1 /\ pairs[4] = n2
      OBVIOUS
    <3> HIDE DEF n1, n2, pairs
    <3>5. result.ok => (pairs[3] # 0 \/ pairs[4] # 0 => 4 + pairs[3] + pairs[4] <= Len(result.array))
      BY <3>3, <3>4
    <3> QED
      BY <3>2, <3>5 DEF ArraysFit, Fits, pairs
  <2> QED
    BY <2>2, <2>3, <2>4 DEF CodeInv
<1> QED
  BY <1>1, CodeInvariant, PTL

(***************************************************************************)
(* send_ir_f() takes a hex code of any length, of any tokens, when it has  *)
(* the four fields, and never reads a field from another one's place.      *)
(***************************************************************************)
THEOREM HexCodesAlwaysParse == Spec => []HexCodesParse
<1>1. CodeInv => HexCodesParse
  <2> SUFFICES ASSUME CodeInv, client = "UNFOLDED_CIRCLE", result # NoResult PROVE HexCodesParse
    BY DEF HexCodesParse
  <2>1. result = buildIRHexData(code) /\ code \in Seq(AnyToken)
    BY DEF CodeInv, Decoded
  <2>2. result.ok =>
          \E i, j, k \in Semicolons(code) : \E p \in 1 .. i - 1 : HexFields(code, p, i, j, k)
    BY <2>1, HexAccepted
  <2>3. ASSUME NEW i \in Semicolons(code), NEW j \in Semicolons(code), NEW k \in Semicolons(code),
               NEW p \in 1 .. i - 1, HexFields(code, p, i, j, k)
        PROVE  result = [ok |-> TRUE, protocol |-> NumberOf[code[p]], command |-> NumberOf[code[j - 1]],
                         bits |-> NumberOf[code[k - 1]], repeat |-> NumberOf[code[Len(code)]]]
    BY <2>1, <2>3, HexRead
  <2> QED
    BY <2>2, <2>3 DEF HexCodesParse
<1> QED
  BY <1>1, CodeInvariant, PTL

-----------------------------------------------------------------------------
(* The stream of requests.                                                 *)

Things == {Head(r.asks) : r \in Requests}

(* Each request alone does what it asks for, or nothing; WholeRequestsObeyed *)
(* is about the same.                                                      *)
RequestsUnderstood == \A r \in Requests : Obey(r.text) \in {<<>>, r.asks}

(* Where the requests start in what is not read yet, "at" most 0 for those *)
(* that were cut or taken: the whole text and the line end of the others   *)
(* are still there, and a command's name stands nowhere else.              *)
Placed(requests, stream, at) ==
  /\ \A i, j \in DOMAIN requests : i < j => at[i] < at[j]
  /\ \A i \in DOMAIN requests : at[i] >= 1 =>
       /\ at[i] + Len(requests[i].text) <= Len(stream)
       /\ \A m \in 1 .. Len(requests[i].text) : stream[at[i] + m - 1] = requests[i].text[m]
       /\ stream[at[i] + Len(requests[i].text)] = "CR"
  /\ \A p \in 1 .. Len(stream) : stream[p] \in Commands => \E i \in DOMAIN requests : at[i] = p

(* What was done was asked for by requests that are no longer there.       *)
Taken(requests, obeyed, from, at) ==
  /\ \A i, j \in DOMAIN obeyed : i < j => from[i] < from[j]
  /\ \A i \in DOMAIN obeyed : requests[from[i]].asks = <<obeyed[i]>> /\ at[from[i]] <= 0

StreamInv ==
  /\ asked \in Seq(Requests) /\ wire \in Seq(StreamTokens) /\ done \in Seq(Things)
  /\ \E at \in [DOMAIN asked -> Int], from \in [DOMAIN done -> DOMAIN asked] :
       Placed(asked, wire, at) /\ Taken(asked, done, from, at)

LEMMA Singleton ==
  ASSUME NEW f, NEW x, f = <<x>>
  PROVE  Len(f) = 1 /\ f[1] = x
OBVIOUS

(* Only a text that begins with a command's name does anything.            *)
LEMMA ObeyedAreCommands ==
  ASSUME NEW S, NEW s \in Seq(S), Obey(s) # <<>>
  PROVE  Len(s) >= 1 /\ s[1] \in Commands
<1> DEFINE comma   == Find(s, Comma, 1)
           command == IF comma = 0 THEN s ELSE SubSeq(s, 1, comma - 1)
           req     == parseGcRequest(s)
<1>1. req.error = 0 /\ \E name \in Commands : req.command = <<name>>
  <2>1. req.error = 0
    BY DEF Obey
  <2>2. \/ req.command = <<"sendir">> \/ req.command = <<"stopir">> \/ req.command = <<"blink">>
        \/ req.command = <<"get_IRL">> \/ req.command = <<"stop_IRL">>
    BY DEF Obey
  <2> QED
    BY <2>1, <2>2 DEF Commands
<1>2. req.error = 0 => req.command = command
  BY DEF parseGcRequest, Error, Request
<1>3. PICK name \in Commands : command = <<name>>
  BY <1>1, <1>2
<1>4. comma = 0 \/ comma \in 1 .. Len(s)
  BY FindFirst
<1> HIDE DEF comma, req
<1>5. CASE comma = 0
  BY <1>3, <1>5
<1>6. CASE comma \in 1 .. Len(s)
  <2>1. SubSeq(s, 1, comma - 1) = <<name>>
    BY <1>3, <1>6
  <2>2. comma - 1 \in Nat /\ comma - 1 <= Len(s)
    BY <1>6
  <2> DEFINE b == comma - 1
  <2>3. Len(SubSeq(s, 1, b)) = b /\ \A m \in 1 .. b : SubSeq(s, 1, b)[m] = s[m]
    <3> HIDE DEF b
    <3>1. b \in Nat /\ b <= Len(s)
      BY <2>2 DEF b
    <3> QED
      BY <3>1, SubSeqProperties
  <2>4. SubSeq(s, 1, b) = <<name>>
    BY <2>1
  <2> HIDE DEF b
  <2>5. b = 1 /\ s[1] = name
    <3> DEFINE f == SubSeq(s, 1, b)
    <3>1. Len(f) = 1 /\ f[1] = name
      BY <2>4, Singleton
    <3>2. Len(f) = b /\ \A m \in 1 .. b : f[m] = s[m]
      BY <2>3
    <3> HIDE DEF f
    <3>3. b = 1
      BY <3>1, <3>2
    <3> QED
      BY <3>1, <3>2, <3>3
  <2>6. b <= Len(s)
    BY <2>2 DEF b
  <2> QED
    BY <2>5, <2>6
<1> QED
  BY <1>4, <1>5, <1>6

(* What recv() returned begins with a command's name only if it begins     *)
(* with a request; its line end is the first one there.                    *)
LEMMA HandledWasAsked ==
  ASSUME RequestsUnderstood, asked \in Seq(Requests), wire \in Seq(StreamTokens),
         NEW at \in [DOMAIN asked -> Int], Placed(asked, wire, at),
         NEW n \in 1 .. Len(wire), Handle(SubSeq(wire, 1, n)) # <<>>
  PROVE  \E q \in DOMAIN asked :
           at[q] = 1 /\ asked[q].asks # <<>> /\ Handle(SubSeq(wire, 1, n)) = asked[q].asks
<1> DEFINE buffer  == SubSeq(wire, 1, n)
           end     == Find(buffer, "CR", 1)
           request == SubSeq(buffer, 1, end - 1)
<1>1. buffer \in Seq(StreamTokens) /\ Len(buffer) = n /\ n \in Nat
      /\ \A m \in 1 .. n : buffer[m] = wire[m]
  BY SubSeqProperties
<1>2. end # 0 /\ Handle(buffer) = Obey(request) /\ Obey(request) # <<>>
  BY DEF Handle
<1> HIDE DEF buffer
<1>3. end \in 1 .. n /\ buffer[end] = "CR" /\ \A m \in 1 .. end - 1 : buffer[m] # "CR"
  <2>1. Len(buffer) \in Nat
    BY <1>1
  <2> QED
    BY <1>1, <1>2, <2>1, FindFirst
<1> HIDE DEF end
<1>4. /\ request \in Seq(StreamTokens) /\ Len(request) = end - 1
      /\ \A m \in 1 .. end - 1 : request[m] = wire[m]
  <2> DEFINE b == end - 1
  <2>1. b \in Nat /\ b <= Len(buffer)
    BY <1>1, <1>3
  <2> HIDE DEF b
  <2>2. /\ SubSeq(buffer, 1, b) \in Seq(StreamTokens) /\ Len(SubSeq(buffer, 1, b)) = b
        /\ \A m \in 1 .. b : SubSeq(buffer, 1, b)[m] = buffer[m]
    BY <1>1, <2>1, SubSeqProperties
  <2>3. \A m \in 1 .. b : m \in 1 .. n
    BY <1>1, <2>1
  <2> QED
    BY <1>1, <2>2, <2>3 DEF b
<1> HIDE DEF request
<1>5. Len(request) >= 1 /\ request[1] \in Commands
  BY <1>2, <1>4, ObeyedAreCommands
<1>6. wire[1] \in Commands /\ Len(wire) >= 1 /\ Len(wire) \in Nat
  BY <1>3, <1>4, <1>5
<1>7. PICK q \in DOMAIN asked : at[q] = 1
  BY <1>6 DEF Placed
<1> DEFINE r == asked[q]
           k == Len(r.text)
<1>8. r \in Requests /\ r.text \in Seq(StreamTokens) /\ k \in Nat
      /\ \A m \in 1 .. k : r.text[m] # "CR"
  BY ClientAssumption
<1>9. /\ 1 + k <= Len(wire)
      /\ \A m \in 1 .. k : wire[1 + m - 1] = r.text[m]
      /\ wire[1 + k] = "CR"
  BY <1>7 DEF Placed
<1> HIDE DEF r, k
<1>10. \A m \in 1 .. k : wire[m] = r.text[m] /\ wire[m] # "CR"
  BY <1>8, <1>9
<1>11. wire[end] = "CR" /\ \A m \in 1 .. end - 1 : wire[m] # "CR"
  <2>1. \A m \in 1 .. end - 1 : m \in 1 .. n
    BY <1>1, <1>3
  <2> QED
    BY <1>1, <1>3, <2>1
<1>12. end = k + 1
  <2>1. end \in Nat /\ end >= 1 /\ k + 1 = 1 + k
    BY <1>1, <1>3, <1>8
  <2>2. ~(end < k + 1)
    BY <1>8, <1>10, <1>11, <2>1
  <2>3. ~(k + 1 < end)
    <3>1. k + 1 < end => k + 1 \in 1 .. end - 1
      BY <1>8, <2>1
    <3>2. wire[k + 1] = "CR"
      BY <1>9, <2>1
    <3> QED
      BY <1>11, <3>1, <3>2
  <2> QED
    BY <1>8, <2>1, <2>2, <2>3
<1>13. request = r.text
  <2>1. Len(request) = k
    BY <1>4, <1>8, <1>12
  <2>2. \A m \in 1 .. k : request[m] = r.text[m]
    <3>1. \A m \in 1 .. k : m \in 1 .. end - 1
      BY <1>8, <1>12
    <3> QED
      BY <1>4, <1>10, <3>1
  <2>3. Len(r.text) = k
    BY DEF k
  <2> QED
    BY <1>4, <1>8, <2>1, <2>2, <2>3, SeqEqual
<1>14. Obey(r.text) \in {<<>>, r.asks}
  BY <1>8 DEF RequestsUnderstood
<1> QED
  BY <1>2, <1>7, <1>13, <1>14 DEF r, buffer

(* A request that is sent comes behind all the others.                     *)
LEMMA AskedIsPlaced ==
  ASSUME NEW a \in Seq(Requests), NEW w \in Seq(StreamTokens), NEW d \in Seq(Things),
         NEW at \in [DOMAIN a -> Int], NEW from \in [DOMAIN d -> DOMAIN a],
         Placed(a, w, at), Taken(a, d, from, at),
         NEW r \in Requests, NEW e \in LineEnds
  PROVE  /\ Append(a, r) \in Seq(Requests) /\ w \o r.text \o e \in Seq(StreamTokens)
         /\ \E at2 \in [DOMAIN Append(a, r) -> Int], from2 \in [DOMAIN d -> DOMAIN Append(a, r)] :
              Placed(Append(a, r), w \o r.text \o e, at2) /\ Taken(Append(a, r), d, from2, at2)
<1> DEFINE a2   == Append(a, r)
           n    == Len(a)
           u    == w \o r.text
           w2   == u \o e
           l    == Len(w)
           k    == Len(r.text)
           at2  == [i \in 1 .. n + 1 |-> IF i <= n THEN at[i] ELSE l + 1]
<1>1. /\ r.text \in Seq(StreamTokens) /\ e \in Seq(StreamTokens)
      /\ e # <<>> /\ e[1] = "CR"
      /\ \A m \in DOMAIN e : e[m] \notin Commands
      /\ \A m \in DOMAIN r.text : m # 1 => r.text[m] \notin Commands
  BY ClientAssumption
<1>2. n \in Nat /\ l \in Nat /\ k \in Nat /\ DOMAIN a = 1 .. n
  BY <1>1
<1>3. /\ a2 \in Seq(Requests) /\ DOMAIN a2 = 1 .. n + 1
      /\ a2[n + 1] = r /\ \A i \in 1 .. n : a2[i] = a[i]
  BY AppendProperties
<1>4. /\ u \in Seq(StreamTokens) /\ Len(u) = l + k
      /\ \A m \in 1 .. l + k : u[m] = IF m <= l THEN w[m] ELSE r.text[m - l]
  BY <1>1, ConcatProperties
<1>5. Len(e) \in Nat /\ Len(e) >= 1 /\ DOMAIN e = 1 .. Len(e) /\ DOMAIN r.text = 1 .. k
  BY <1>1
<1>6. /\ w2 \in Seq(StreamTokens) /\ Len(w2) = l + k + Len(e)
      /\ \A m \in 1 .. l + k + Len(e) : w2[m] = IF m <= l + k THEN u[m] ELSE e[m - (l + k)]
  <2> HIDE DEF u
  <2>0. u \in Seq(StreamTokens) /\ e \in Seq(StreamTokens)
    BY <1>1, <1>4
  <2>1. /\ w2 \in Seq(StreamTokens) /\ Len(w2) = Len(u) + Len(e)
        /\ \A m \in 1 .. Len(u) + Len(e) : w2[m] = IF m <= Len(u) THEN u[m] ELSE e[m - Len(u)]
    BY <2>0, ConcatProperties, Zenon
  <2> HIDE DEF w2
  <2> QED
    BY <1>4, <2>1
<1> HIDE DEF u, w2, a2, n, l, k
<1>7. /\ \A m \in 1 .. l : w2[m] = w[m]
      /\ \A m \in 1 .. k : w2[l + m] = r.text[m]
      /\ w2[l + k + 1] = "CR"
      /\ \A m \in 1 .. Len(e) : w2[l + k + m] = e[m]
  <2>1. ASSUME NEW m \in 1 .. l PROVE w2[m] = w[m]
    BY <1>2, <1>4, <1>5, <1>6
  <2>2. ASSUME NEW m \in 1 .. k PROVE w2[l + m] = r.text[m]
    <3> DEFINE x == l + m
    <3>1. x \in 1 .. l + k /\ x \in 1 .. l + k + Len(e) /\ ~(x <= l) /\ x - l = m /\ x <= l + k
      BY <1>2, <1>5
    <3> HIDE DEF x
    <3>2. w2[x] = u[x] /\ u[x] = r.text[x - l]
      BY <1>4, <1>6, <3>1
    <3>3. w2[x] = r.text[m]
      BY <3>1, <3>2
    <3> QED
      BY <3>3 DEF x
  <2>3. ASSUME NEW m \in 1 .. Len(e) PROVE w2[l + k + m] = e[m]
    <3> DEFINE x == l + k + m
    <3>1. x \in 1 .. l + k + Len(e) /\ ~(x <= l + k) /\ x - (l + k) = m
      BY <1>2, <1>5
    <3> HIDE DEF x
    <3>2. w2[x] = e[x - (l + k)]
      BY <1>6, <3>1
    <3>3. w2[x] = e[m]
      BY <3>1, <3>2
    <3> QED
      BY <3>3 DEF x
  <2>4. 1 \in 1 .. Len(e)
    BY <1>5
  <2> QED
    BY <1>1, <2>1, <2>2, <2>3, <2>4
<1>8. at2 \in [DOMAIN a2 -> Int] /\ at2[n + 1] = l + 1 /\ \A i \in 1 .. n : at2[i] = at[i] /\ at[i] \in Int
  BY <1>2, <1>3
<1> HIDE DEF at2
<1>9. ASSUME NEW i \in 1 .. n PROVE at[i] <= l
  <2>1. Len(a[i].text) \in Nat
    <3>1. a[i] \in Requests
      BY <1>2, <1>9
    <3> QED
      BY <3>1, ClientAssumption
  <2>2. at[i] >= 1 => at[i] + Len(a[i].text) <= l
    BY <1>2, <1>9 DEF Placed, l
  <2> QED
    BY <1>2, <1>8, <2>1, <2>2
<1>10. Placed(a2, w2, at2)
  <2>1. ASSUME NEW i \in 1 .. n + 1, NEW j \in 1 .. n + 1, i < j PROVE at2[i] < at2[j]
    <3>1. CASE j = n + 1
      <4>1. i \in 1 .. n
        BY <1>2, <2>1, <3>1
      <4> QED
        BY <1>2, <1>8, <1>9, <3>1, <4>1
    <3>2. CASE j # n + 1
      <4>1. i \in 1 .. n /\ j \in 1 .. n
        BY <1>2, <2>1, <3>2
      <4>2. at[i] < at[j]
        BY <1>2, <2>1, <4>1 DEF Placed
      <4> QED
        BY <1>8, <4>1, <4>2
    <3> QED
      BY <3>1, <3>2
  <2>2. ASSUME NEW i \in 1 .. n, at2[i] >= 1
        PROVE  /\ at2[i] + Len(a2[i].text) <= Len(w2)
               /\ \A m \in 1 .. Len(a2[i].text) : w2[at2[i] + m - 1] = a2[i].text[m]
               /\ w2[at2[i] + Len(a2[i].text)] = "CR"
    <3> DEFINE t == a[i].text
    <3>1. a2[i].text = t /\ at2[i] = at[i]
      BY <1>3, <1>8
    <3>2. t \in Seq(StreamTokens) /\ Len(t) \in Nat
      <4>1. a[i] \in Requests
        BY <1>2, <2>2
      <4> QED
        BY <4>1, ClientAssumption
    <3>3. /\ at[i] + Len(t) <= l
          /\ \A m \in 1 .. Len(t) : w[at[i] + m - 1] = t[m]
          /\ w[at[i] + Len(t)] = "CR"
      BY <1>2, <2>2, <3>1 DEF Placed, l
    <3> HIDE DEF t
    <3>4. at[i] \in Int /\ at[i] >= 1
      BY <1>8, <2>2
    <3>5. ASSUME NEW m \in 1 .. Len(t) PROVE w2[at[i] + m - 1] = t[m]
      <4>1. at[i] + m - 1 \in 1 .. l
        BY <1>2, <3>2, <3>3, <3>4
      <4> QED
        BY <1>7, <3>3, <4>1
    <3>6. w2[at[i] + Len(t)] = "CR"
      <4>1. at[i] + Len(t) \in 1 .. l
        BY <1>2, <3>2, <3>3, <3>4
      <4> QED
        BY <1>7, <3>3, <4>1
    <3>7. at[i] + Len(t) <= Len(w2)
      BY <1>2, <1>5, <1>6, <3>2, <3>3, <3>4
    <3> QED
      BY <3>1, <3>5, <3>6, <3>7
  <2>3. /\ at2[n + 1] + Len(a2[n + 1].text) <= Len(w2)
        /\ \A m \in 1 .. Len(a2[n + 1].text) : w2[at2[n + 1] + m - 1] = a2[n + 1].text[m]
        /\ w2[at2[n + 1] + Len(a2[n + 1].text)] = "CR"
    <3>1. a2[n + 1].text = r.text /\ at2[n + 1] = l + 1 /\ Len(r.text) = k
      BY <1>3, <1>8 DEF k
    <3>2. l + 1 + k <= Len(w2) /\ l + 1 + k = l + k + 1
      BY <1>2, <1>5, <1>6
    <3>3. \A m \in 1 .. k : (l + 1) + m - 1 = l + m
      BY <1>2
    <3> QED
      BY <1>7, <3>1, <3>2, <3>3
  <2>4. ASSUME NEW p \in 1 .. Len(w2), w2[p] \in Commands
        PROVE  \E i \in 1 .. n + 1 : at2[i] = p
    <3>1. CASE p <= l
      <4>1. p \in 1 .. l /\ w[p] \in Commands
        BY <1>2, <1>6, <1>7, <2>4, <3>1
      <4>2. PICK i \in 1 .. n : at[i] = p
        BY <1>2, <4>1 DEF Placed, l
      <4>3. at2[i] = p /\ i \in 1 .. n + 1
        BY <1>2, <1>8, <4>2
      <4> QED
        BY <4>3
    <3>2. CASE l < p /\ p <= l + k
      <4> DEFINE m == p - l
      <4>1. m \in 1 .. k /\ l + m = p
        BY <1>2, <1>6, <3>2
      <4>2. r.text[m] \in Commands
        BY <1>7, <2>4, <4>1
      <4>3. m = 1
        BY <1>1, <1>5, <4>1, <4>2
      <4>4. at2[n + 1] = p /\ n + 1 \in 1 .. n + 1
        BY <1>2, <1>8, <4>1, <4>3
      <4> QED
        BY <4>4
    <3>3. CASE l + k < p
      <4> DEFINE m == p - (l + k)
      <4>1. m \in 1 .. Len(e) /\ l + k + m = p
        BY <1>2, <1>5, <1>6, <3>3
      <4>2. e[m] \in Commands
        BY <1>7, <2>4, <4>1
      <4> QED
        BY <1>1, <1>5, <4>1, <4>2
    <3> QED
      BY <1>2, <1>5, <1>6, <3>1, <3>2, <3>3
  <2>5. ASSUME NEW i \in 1 .. n + 1, at2[i] >= 1
        PROVE  /\ at2[i] + Len(a2[i].text) <= Len(w2)
               /\ \A m \in 1 .. Len(a2[i].text) : w2[at2[i] + m - 1] = a2[i].text[m]
               /\ w2[at2[i] + Len(a2[i].text)] = "CR"
    <3>1. CASE i = n + 1
      BY <2>3, <3>1
    <3>2. CASE i # n + 1
      <4>1. i \in 1 .. n
        BY <1>2, <3>2
      <4> QED
        BY <2>2, <2>5, <4>1
    <3> QED
      BY <3>1, <3>2
  <2> QED
    BY <1>3, <2>1, <2>4, <2>5 DEF Placed
<1>11. from \in [DOMAIN d -> DOMAIN a2] /\ Taken(a2, d, from, at2)
  <2>1. \A i \in DOMAIN d : from[i] \in 1 .. n
    BY <1>2
  <2>2. from \in [DOMAIN d -> DOMAIN a2]
    BY <1>2, <1>3, <2>1
  <2>3. ASSUME NEW i \in DOMAIN d PROVE a2[from[i]].asks = <<d[i]>> /\ at2[from[i]] <= 0
    BY <1>3, <1>8, <2>1 DEF Taken
  <2> QED
    BY <2>2, <2>3 DEF Taken
<1> QED
  BY <1>3, <1>6, <1>8, <1>10, <1>11 DEF a2, w2, u

(* recv() takes the first n tokens, and the requests move up.              *)
LEMMA RestIsPlaced ==
  ASSUME NEW a \in Seq(Requests), NEW w \in Seq(StreamTokens),
         NEW at \in [DOMAIN a -> Int], Placed(a, w, at), NEW n \in 1 .. Len(w),
         NEW at2, at2 = [i \in DOMAIN a |-> at[i] - n]
  PROVE  /\ From(w, n + 1) \in Seq(StreamTokens)
         /\ at2 \in [DOMAIN a -> Int]
         /\ Placed(a, From(w, n + 1), at2)
<1> DEFINE w2 == From(w, n + 1)
           l  == Len(w)
<1>1. n \in Nat /\ n >= 1 /\ l \in Nat /\ n <= l
  OBVIOUS
<1>2. /\ w2 \in Seq(StreamTokens) /\ Len(w2) = l - n
      /\ \A m \in 1 .. l - n : w2[m] = w[n + m]
  <2> DEFINE b == n + 1
  <2>1. b \in Nat /\ b >= 1 /\ b <= l + 1
    BY <1>1
  <2> HIDE DEF b
  <2>2. /\ SubSeq(w, b, l) \in Seq(StreamTokens)
        /\ Len(SubSeq(w, b, l)) = l - b + 1
        /\ \A m \in 1 .. l - b + 1 : SubSeq(w, b, l)[m] = w[b + m - 1]
    <3>1. b \in Int /\ l \in Int /\ \A i \in b .. l : w[i] \in StreamTokens
      BY <2>1
    <3>2. /\ SubSeq(w, b, l) \in Seq(StreamTokens)
          /\ Len(SubSeq(w, b, l)) = IF b <= l THEN l - b + 1 ELSE 0
          /\ \A m \in 1 .. l - b + 1 : SubSeq(w, b, l)[m] = w[b + m - 1]
      BY <3>1, SubSeqProperties
    <3> HIDE DEF l, w2
    <3>3. (IF b <= l THEN l - b + 1 ELSE 0) = l - b + 1
      BY <1>1, <2>1
    <3> QED
      BY <3>2, <3>3
  <2>3. w2 = SubSeq(w, b, l)
    BY DEF From, b
  <2>4. l - b + 1 = l - n /\ \A m \in 1 .. l - n : b + m - 1 = n + m
    BY <1>1 DEF b
  <2> HIDE DEF w2, l
  <2> QED
    BY <2>2, <2>3, <2>4
<1> HIDE DEF w2, l
<1>3. at2 \in [DOMAIN a -> Int] /\ \A i \in DOMAIN a : at2[i] = at[i] - n /\ at[i] \in Int
  BY <1>1
<1>4. ASSUME NEW i \in DOMAIN a, NEW j \in DOMAIN a, i < j PROVE at2[i] < at2[j]
  <2>1. at[i] < at[j]
    BY <1>4 DEF Placed
  <2> QED
    BY <1>1, <1>3, <2>1
<1>5. ASSUME NEW i \in DOMAIN a, at2[i] >= 1
      PROVE  /\ at2[i] + Len(a[i].text) <= Len(w2)
             /\ \A m \in 1 .. Len(a[i].text) : w2[at2[i] + m - 1] = a[i].text[m]
             /\ w2[at2[i] + Len(a[i].text)] = "CR"
  <2> DEFINE t == a[i].text
             x == at2[i]
  <2>1. Len(t) \in Nat
    <3>1. a[i] \in Requests
      OBVIOUS
    <3> QED
      BY <3>1, ClientAssumption
  <2>2. x \in Int /\ x >= 1 /\ at[i] = x + n /\ at[i] >= 1
    <3> DEFINE z == at[i]
    <3>1. x = z - n /\ z \in Int /\ x >= 1
      BY <1>3, <1>5
    <3> HIDE DEF x, z
    <3>2. x \in Int /\ z = x + n /\ z >= 1
      BY <1>1, <3>1
    <3> QED
      BY <3>1, <3>2 DEF z
  <2>3. /\ (x + n) + Len(t) <= l
        /\ \A m \in 1 .. Len(t) : w[(x + n) + m - 1] = t[m]
        /\ w[(x + n) + Len(t)] = "CR"
    BY <2>2 DEF Placed, l
  <2> HIDE DEF t, x
  <2>4. ASSUME NEW m \in 1 .. Len(t) PROVE w2[x + m - 1] = t[m]
    <3> DEFINE y == x + m - 1
    <3>1. y \in 1 .. l - n /\ n + y = (x + n) + m - 1
      BY <1>1, <2>1, <2>2, <2>3
    <3> HIDE DEF y
    <3>2. w2[y] = w[n + y]
      BY <1>2, <3>1
    <3>3. w2[y] = t[m]
      BY <2>3, <3>1, <3>2
    <3> QED
      BY <3>3 DEF y
  <2>5. w2[x + Len(t)] = "CR"
    <3> DEFINE y == x + Len(t)
    <3>1. y \in 1 .. l - n /\ n + y = (x + n) + Len(t)
      BY <1>1, <2>1, <2>2, <2>3
    <3> HIDE DEF y
    <3>2. w2[y] = w[n + y]
      BY <1>2, <3>1
    <3>3. w2[y] = "CR"
      BY <2>3, <3>1, <3>2
    <3> QED
      BY <3>3 DEF y
  <2>6. x + Len(t) <= Len(w2)
    BY <1>1, <1>2, <2>1, <2>2, <2>3
  <2> QED
    BY <2>4, <2>5, <2>6 DEF t, x
<1>6. ASSUME NEW p \in 1 .. Len(w2), w2[p] \in Commands PROVE \E i \in DOMAIN a : at2[i] = p
  <2> DEFINE y == n + p
  <2>1. p \in 1 .. l - n /\ y \in 1 .. l /\ y - n = p
    BY <1>1, <1>2
  <2>2. w[y] \in Commands
    BY <1>2, <1>6, <2>1
  <2> HIDE DEF y
  <2>3. PICK i \in DOMAIN a : at[i] = y
    BY <2>1, <2>2 DEF Placed, l
  <2> QED
    BY <1>3, <2>1, <2>3
<1> QED
  BY <1>2, <1>3, <1>4, <1>5, <1>6 DEF Placed, w2

(* What was done stays accounted for, and what the request at 1 asks for   *)
(* comes behind it.                                                        *)
StillTaken(a, d, from, at, at2) ==
  /\ Taken(a, d, from, at2)
  /\ \A q \in DOMAIN a : at[q] = 1 /\ a[q].asks # <<>> =>
       /\ d \o a[q].asks \in Seq(Things)
       /\ \E from2 \in [DOMAIN (d \o a[q].asks) -> DOMAIN a] :
            Taken(a, d \o a[q].asks, from2, at2)

LEMMA DoneIsTaken ==
  ASSUME NEW a \in Seq(Requests), NEW w, NEW d \in Seq(Things),
         NEW at \in [DOMAIN a -> Int], NEW from \in [DOMAIN d -> DOMAIN a],
         Placed(a, w, at), Taken(a, d, from, at),
         NEW n \in Nat \ {0}, NEW at2, at2 = [i \in DOMAIN a |-> at[i] - n]
  PROVE  StillTaken(a, d, from, at, at2)
<1>1. \A i \in DOMAIN a : at2[i] = at[i] - n /\ at[i] \in Int
  OBVIOUS
<1>2. Taken(a, d, from, at2)
  <2>1. ASSUME NEW i \in DOMAIN d PROVE at2[from[i]] <= 0
    <3>1. from[i] \in DOMAIN a /\ at[from[i]] <= 0
      BY DEF Taken
    <3> QED
      BY <1>1, <3>1
  <2> QED
    BY <2>1 DEF Taken
<1>3. ASSUME NEW q \in DOMAIN a, at[q] = 1, a[q].asks # <<>>
      PROVE  /\ d \o a[q].asks \in Seq(Things)
             /\ \E from2 \in [DOMAIN (d \o a[q].asks) -> DOMAIN a] :
                  Taken(a, d \o a[q].asks, from2, at2)
  <2> DEFINE x     == Head(a[q].asks)
             d2    == d \o a[q].asks
             n2    == Len(d)
             from2 == [i \in 1 .. n2 + 1 |-> IF i <= n2 THEN from[i] ELSE q]
  <2>1. a[q] \in Requests /\ a[q].asks = <<x>> /\ x \in Things
    <3>1. a[q] \in Requests
      OBVIOUS
    <3> QED
      BY <1>3, <3>1, ClientAssumption DEF Things
  <2> HIDE DEF x
  <2>2. n2 \in Nat /\ DOMAIN d = 1 .. n2
    OBVIOUS
  <2>3. d2 \in Seq(Things) /\ DOMAIN d2 = 1 .. n2 + 1 /\ d2[n2 + 1] = x /\ \A i \in 1 .. n2 : d2[i] = d[i]
    <3>1. d2 = d \o <<x>>
      BY <2>1
    <3>2. d2 = Append(d, x)
      BY <2>1, <3>1, AppendIsConcat
    <3> HIDE DEF d2
    <3> QED
      BY <2>1, <3>2, AppendProperties
  <2> HIDE DEF n2, d2
  <2>4. /\ from2 \in [DOMAIN d2 -> DOMAIN a] /\ from2[n2 + 1] = q
        /\ \A i \in 1 .. n2 : from2[i] = from[i] /\ from[i] \in DOMAIN a
    BY <2>2, <2>3
  <2> HIDE DEF from2
  <2>5. ASSUME NEW i \in 1 .. n2 PROVE from[i] < q
    <3>1. at[from[i]] <= 0 /\ from[i] \in DOMAIN a
      BY <2>2, <2>4 DEF Taken
    <3>2. from[i] \in Nat /\ q \in Nat
      BY <3>1
    <3>3. q < from[i] => at[q] < at[from[i]]
      BY <3>1 DEF Placed
    <3>4. at[from[i]] \in Int
      BY <3>1
    <3> QED
      BY <1>3, <3>1, <3>2, <3>3, <3>4
  <2>6. ASSUME NEW i \in 1 .. n2 + 1, NEW j \in 1 .. n2 + 1, i < j PROVE from2[i] < from2[j]
    <3>1. i \in 1 .. n2
      BY <2>2, <2>6
    <3>2. CASE j = n2 + 1
      BY <2>4, <2>5, <3>1, <3>2
    <3>3. CASE j # n2 + 1
      <4>1. j \in 1 .. n2
        BY <2>2, <3>3
      <4>2. from[i] < from[j]
        BY <2>2, <2>6, <3>1, <4>1 DEF Taken
      <4> QED
        BY <2>4, <3>1, <4>1, <4>2
    <3> QED
      BY <3>2, <3>3
  <2>7. ASSUME NEW i \in 1 .. n2 + 1 PROVE a[from2[i]].asks = <<d2[i]>> /\ at2[from2[i]] <= 0
    <3>1. CASE i = n2 + 1
      <4>1. from2[i] = q /\ d2[i] = x
        BY <2>3, <2>4, <3>1
      <4>2. at2[q] <= 0
        BY <1>1, <1>3
      <4> QED
        BY <2>1, <4>1, <4>2
    <3>2. CASE i # n2 + 1
      <4>1. i \in 1 .. n2
        BY <2>2, <3>2
      <4>2. a[from[i]].asks = <<d[i]>> /\ at2[from[i]] <= 0
        BY <1>2, <2>2, <4>1 DEF Taken
      <4> QED
        BY <2>3, <2>4, <4>1, <4>2
    <3> QED
      BY <3>1, <3>2
  <2>8. Taken(a, d2, from2, at2)
    BY <2>3, <2>6, <2>7 DEF Taken
  <2> QED
    BY <2>3, <2>4, <2>8 DEF d2
<1> QED
  BY <1>2, <1>3 DEF StillTaken

(***************************************************************************)
(* Whatever the client sends and recv() returns, the requests that are     *)
(* still on the wire have their places, and what socket_task() did was     *)
(* asked for by others.                                                    *)
(***************************************************************************)
THEOREM StreamInvariant ==
  ASSUME RequestsUnderstood PROVE Spec => []StreamInv
<1>1. Init => StreamInv
  <2> SUFFICES ASSUME Init PROVE StreamInv
    OBVIOUS
  <2>1. asked = <<>> /\ wire = <<>> /\ done = <<>>
    BY DEF Init
  <2> DEFINE none == [i \in {} |-> 0]
  <2>2. none \in [DOMAIN asked -> Int] /\ none \in [DOMAIN done -> DOMAIN asked]
    BY <2>1
  <2>3. Placed(asked, wire, none) /\ Taken(asked, done, none, none)
    BY <2>1 DEF Placed, Taken
  <2>4. asked \in Seq(Requests) /\ wire \in Seq(StreamTokens) /\ done \in Seq(Things)
    BY <2>1
  <2> HIDE DEF none
  <2> QED
    BY <2>2, <2>3, <2>4 DEF StreamInv
<1>2. StreamInv /\ [Next]_vars => StreamInv'
  <2> SUFFICES ASSUME StreamInv, [Next]_vars PROVE StreamInv'
    OBVIOUS
  <2>1. asked \in Seq(Requests) /\ wire \in Seq(StreamTokens) /\ done \in Seq(Things)
    BY DEF StreamInv
  <2>2. PICK at \in [DOMAIN asked -> Int] : \E from \in [DOMAIN done -> DOMAIN asked] :
          Placed(asked, wire, at) /\ Taken(asked, done, from, at)
    BY DEF StreamInv
  <2>3. PICK from \in [DOMAIN done -> DOMAIN asked] :
          Placed(asked, wire, at) /\ Taken(asked, done, from, at)
    BY <2>2
  <2>4. ASSUME NEW r \in Requests, NEW e \in LineEnds, Ask(r, e) PROVE StreamInv'
    <3>1. asked' = Append(asked, r) /\ wire' = wire \o r.text \o e /\ done' = done
      BY <2>4 DEF Ask
    <3>2. /\ Append(asked, r) \in Seq(Requests) /\ wire \o r.text \o e \in Seq(StreamTokens)
          /\ \E at2 \in [DOMAIN Append(asked, r) -> Int],
                from2 \in [DOMAIN done -> DOMAIN Append(asked, r)] :
               Placed(Append(asked, r), wire \o r.text \o e, at2) /\ Taken(Append(asked, r), done, from2, at2)
      BY <2>1, <2>3, AskedIsPlaced
    <3> QED
      BY <2>1, <3>1, <3>2 DEF StreamInv
  <2>5. CASE Recv
    <3>1. PICK n \in 1 .. Len(wire) : rx' = SubSeq(wire, 1, n) /\ wire' = From(wire, n + 1)
      BY <2>5 DEF Recv
    <3>2. asked' = asked /\ done' = done \o Handle(SubSeq(wire, 1, n))
      BY <2>5, <3>1 DEF Recv
    <3> DEFINE at2 == [i \in DOMAIN asked |-> at[i] - n]
    <3>3. n \in Nat \ {0} /\ at2 = [i \in DOMAIN asked |-> at[i] - n]
      BY <2>1
    <3> HIDE DEF at2
    <3>4. /\ From(wire, n + 1) \in Seq(StreamTokens) /\ at2 \in [DOMAIN asked -> Int]
          /\ Placed(asked, From(wire, n + 1), at2)
      BY <2>1, <2>3, <3>3, RestIsPlaced
    <3>5. StillTaken(asked, done, from, at, at2)
      <4>1. asked \in Seq(Requests) /\ done \in Seq(Things) /\ n \in Nat \ {0}
        BY <2>1, <3>3
      <4>2. at \in [DOMAIN asked -> Int] /\ from \in [DOMAIN done -> DOMAIN asked]
        OBVIOUS
      <4>3. Placed(asked, wire, at) /\ Taken(asked, done, from, at)
        BY <2>3
      <4>4. at2 = [i \in DOMAIN asked |-> at[i] - n]
        BY <3>3
      <4> QED
        BY <4>1, <4>2, <4>3, <4>4, DoneIsTaken
    <3>6. CASE Handle(SubSeq(wire, 1, n)) = <<>>
      <4>1. done' = done
        BY <2>1, <3>2, <3>6
      <4> QED
        BY <2>1, <3>1, <3>2, <3>4, <3>5, <4>1 DEF StreamInv, StillTaken
    <3>7. CASE Handle(SubSeq(wire, 1, n)) # <<>>
      <4>1. PICK q \in DOMAIN asked : at[q] = 1 /\ asked[q].asks # <<>>
                                     /\ Handle(SubSeq(wire, 1, n)) = asked[q].asks
        BY <2>1, <2>3, <3>7, HandledWasAsked
      <4>2. done' = done \o asked[q].asks
        BY <3>2, <4>1
      <4> QED
        BY <2>1, <3>1, <3>2, <3>4, <3>5, <4>1, <4>2 DEF StreamInv, StillTaken
    <3> QED
      BY <3>6, <3>7
  <2>6. CASE Leave
    <3>1. asked' = <<>> /\ wire' = <<>> /\ done' = <<>>
      BY <2>6 DEF Leave
    <3> DEFINE none == [i \in {} |-> 0]
    <3>2. none \in [DOMAIN asked' -> Int] /\ none \in [DOMAIN done' -> DOMAIN asked']
      BY <3>1
    <3>3. Placed(asked', wire', none) /\ Taken(asked', done', none, none)
      BY <3>1 DEF Placed, Taken
    <3>4. asked' \in Seq(Requests) /\ wire' \in Seq(StreamTokens) /\ done' \in Seq(Things)
      BY <3>1
    <3> HIDE DEF none
    <3> QED
      BY <3>2, <3>3, <3>4 DEF StreamInv
  <2>7. ASSUME UNCHANGED <<asked, wire, done>> PROVE StreamInv'
    BY <2>1, <2>3, <2>7 DEF StreamInv
  <2>8. ASSUME NEW token, Compose(token) PROVE StreamInv'
    BY <2>7, <2>8 DEF Compose
  <2>9. CASE SendIr
    BY <2>7, <2>9 DEF SendIr
  <2>10. CASE UNCHANGED vars
    BY <2>7, <2>10 DEF vars
  <2> QED
    BY <2>4, <2>5, <2>6, <2>8, <2>9, <2>10 DEF Next
<1> QED
  BY <1>1, <1>2, PTL DEF Spec

(***************************************************************************)
(* However TCP cuts the stream of any number of requests, what the dock    *)
(* did was asked for, in this order.                                       *)
(***************************************************************************)
THEOREM NoPhantomRequest ==
  ASSUME RequestsUnderstood PROVE Spec => []ExecutedWereSent
<1>1. StreamInv => ExecutedWereSent
  <2> SUFFICES ASSUME StreamInv PROVE ExecutedWereSent
    OBVIOUS
  <2>1. PICK at \in [DOMAIN asked -> Int] : \E from \in [DOMAIN done -> DOMAIN asked] :
          Placed(asked, wire, at) /\ Taken(asked, done, from, at)
    BY DEF StreamInv
  <2>2. PICK from \in [DOMAIN done -> DOMAIN asked] : Taken(asked, done, from, at)
    BY <2>1
  <2> QED
    BY <2>2 DEF ExecutedWereSent, Taken
<1> QED
  BY <1>1, StreamInvariant, PTL

-----------------------------------------------------------------------------
(* The requests that do something: the parsers agree on their fields.      *)

LEMMA SeparatorsAreNoNumbers ==
  ASSUME NEW t \in Numbers
  PROVE  t # Comma /\ t # ":" /\ t \notin White
BY NumbersAssumption, Zenon

LEMMA CommandsAreNoSeparators ==
  ASSUME NEW t \in Commands
  PROVE  t # Comma
BY Zenon DEF Commands, Comma

LEMMA CommaIsNoColon == Comma # ":"
BY Zenon DEF Comma

LEMMA NumberReadAt ==
  ASSUME NEW s, Len(s) \in Nat, NEW i \in 1 .. Len(s), s[i] \in Numbers
  PROVE  NumberAt(s, i) = NumberOf[s[i]]
<1>1. s[i] \notin White /\ i \in Nat
  BY SeparatorsAreNoNumbers
<1>2. FirstOf(s, i) = i
  <2> DEFINE q == FirstOf(s, i)
  <2>1. \/ q = 0 /\ \A k \in i .. Len(s) : s[k] \in White
        \/ q \in i .. Len(s) /\ s[q] \notin White /\ \A k \in i .. q - 1 : s[k] \in White
    BY <1>1, FirstOfFirst
  <2> HIDE DEF q
  <2>2. q # 0
    BY <1>1, <2>1
  <2>3. ~(i < q)
    BY <1>1, <2>1, <2>2
  <2>4. q = i
    BY <1>1, <2>1, <2>2, <2>3
  <2> QED
    BY <2>4 DEF q
<1> QED
  BY <1>1, <1>2 DEF NumberAt

(* parseGcRequest() of a request for a port.                               *)
LEMMA AddressedParsed ==
  ASSUME NEW S, NEW s \in Seq(S), Addressed(s)
  PROVE  /\ parseGcRequest(s).error = 0
         /\ parseGcRequest(s).command = <<s[1]>>
         /\ parseGcRequest(s).param = IF Find(s, Comma, 5) = 0 THEN NoParam
                                       ELSE From(s, Find(s, Comma, 5) + 1)
<1>1. Len(s) \in Nat /\ Len(s) >= 5
  BY DEF Addressed
<1>2. /\ s[1] \in Commands /\ s[2] = Comma /\ s[4] = ":"
      /\ s[3] \in Numbers /\ NumberOf[s[3]] = 1
      /\ s[5] \in Numbers /\ NumberOf[s[5]] \in 1 .. 15
  BY DEF Addressed
<1>3. s[1] # Comma /\ s[3] # ":"
  BY <1>2, SeparatorsAreNoNumbers, CommandsAreNoSeparators
<1>4. Find(s, Comma, 1) = 2
  <2>1. 1 \in Nat /\ 2 \in 1 .. Len(s) /\ \A m \in 1 .. 2 - 1 : s[m] # Comma
    BY <1>1, <1>3
  <2> QED
    BY <1>1, <1>2, <2>1, FoundAt
<1>5. Find(s, ":", 3) = 4
  <2>1. 3 \in Nat /\ 4 \in 3 .. Len(s) /\ \A m \in 3 .. 4 - 1 : s[m] # ":"
    BY <1>1, <1>3
  <2> QED
    BY <1>1, <1>2, <2>1, FoundAt
<1>6. NumberAt(s, 3) = 1 /\ NumberAt(s, 5) \in 1 .. 15
  <2>1. 3 \in 1 .. Len(s) /\ 5 \in 1 .. Len(s)
    BY <1>1
  <2> QED
    BY <1>1, <1>2, <2>1, NumberReadAt
<1>7. SubSeq(s, 1, 1) = <<s[1]>>
  <2>1. SubSeq(s, 1, 1) \in Seq(S) /\ Len(SubSeq(s, 1, 1)) = 1 /\ SubSeq(s, 1, 1)[1] = s[1]
    BY <1>1, FieldOf
  <2> DEFINE g == SubSeq(s, 1, 1)
  <2> HIDE DEF g
  <2>2. ASSUME g \in Seq(S), Len(g) = 1, g[1] = s[1] PROVE g = <<s[1]>>
    BY <2>2
  <2> QED
    BY <2>1, <2>2 DEF g
<1>8. ~TooLong(<<s[1]>>)
  <2>1. s[1] \notin LongWords
    BY <1>2, CommandsFit
  <2> QED
    BY <2>1 DEF TooLong
<1> DEFINE next == Find(s, Comma, 5)
<1>9. parseGcRequest(s) =
        Request(<<s[1]>>, 1, NumberAt(s, 5), IF next = 0 THEN NoParam ELSE From(s, next + 1))
  <2> DEFINE comma   == Find(s, Comma, 1)
             command == IF comma = 0 THEN s ELSE SubSeq(s, 1, comma - 1)
             colon   == Find(s, ":", comma + 1)
             port    == NumberAt(s, colon + 1)
             after   == Find(s, Comma, colon + 1)
  <2>1. comma = 2
    BY <1>4
  <2>2. command = <<s[1]>>
    BY <1>7, <2>1
  <2>3. colon = 4
    BY <1>5, <2>1
  <2>4. port = NumberAt(s, 5) /\ after = next
    BY <2>3
  <2>5. parseGcRequest(s) =
          CASE TooLong(command) -> Error(1)
            [] ~TooLong(command) /\ comma = 0 -> Request(command, 0, 0, NoParam)
            [] ~TooLong(command) /\ comma # 0 ->
                 IF colon = 0 /\ Find(s, Comma, comma + 1) = 0
                   THEN Request(command, 0, 0, From(s, comma + 1))
                 ELSE IF NumberAt(s, comma + 1) # 1 THEN Error(2)
                 ELSE IF colon = 0 \/ port \notin 1 .. 15 THEN Error(3)
                 ELSE Request(command, 1, port, IF after = 0 THEN NoParam ELSE From(s, after + 1))
    BY Zenon DEF parseGcRequest
  <2>6. NumberAt(s, comma + 1) = 1
    BY <1>6, <2>1
  <2>7. port \in 1 .. 15
    BY <1>6, <2>4
  <2> HIDE DEF comma, command, colon, port, after, next
  <2>8. ~TooLong(command) /\ comma # 0 /\ colon # 0
    BY <1>8, <2>1, <2>2, <2>3
  <2>9. parseGcRequest(s) = Request(command, 1, port, IF after = 0 THEN NoParam ELSE From(s, after + 1))
    BY <2>5, <2>6, <2>7, <2>8
  <2> QED
    BY <2>2, <2>4, <2>9
<1> DEFINE port    == NumberAt(s, 5)
           command == <<s[1]>>
           param   == IF next = 0 THEN NoParam ELSE From(s, next + 1)
<1>10. parseGcRequest(s) =
         [error |-> 0, command |-> command, module |-> 1, port |-> port, param |-> param]
  BY <1>9 DEF Request
<1> HIDE DEF next, port, command, param
<1>11. /\ parseGcRequest(s).error = 0 /\ parseGcRequest(s).command = command
       /\ parseGcRequest(s).param = param
  BY <1>10
<1> QED
  BY <1>11 DEF command, param, next

(* Separators that are enumerated by an increasing function are the ones   *)
(* that are counted.                                                       *)
Enumerates(f, n, s, sep) ==
  /\ f \in [1 .. n -> 1 .. Len(s)]
  /\ \A k, m \in 1 .. n : k < m => f[k] < f[m]
  /\ \A k \in 1 .. n : s[f[k]] = sep
  /\ \A i \in 1 .. Len(s) : s[i] = sep => \E k \in 1 .. n : f[k] = i

LEMMA SeparatorsAre ==
  ASSUME NEW s, Len(s) \in Nat, NEW sep, NEW n \in Nat, NEW f, Enumerates(f, n, s, sep)
  PROVE  SeparatorsOf(s, sep) = f
<1> DEFINE at       == {i \in 1 .. Len(s) : s[i] = sep}
           upTo(x)  == {j \in at : j <= x}
           nth(k)   == CHOOSE i \in at : Cardinality(upTo(i)) = k
<1> USE DEF Enumerates
<1>1. \A i : i \in at <=> \E k \in 1 .. n : f[k] = i
  OBVIOUS
<1>2. \A k \in 1 .. n : f[k] \in Nat
  OBVIOUS
<1> HIDE DEF at
<1>3. \A k, m \in 1 .. n : f[k] = f[m] => k = m
  <2> SUFFICES ASSUME NEW k \in 1 .. n, NEW m \in 1 .. n, f[k] = f[m] PROVE k = m
    OBVIOUS
  <2>1. ~(k < m) /\ ~(m < k)
    <3>1. k < m => f[k] < f[m]
      OBVIOUS
    <3>2. m < k => f[m] < f[k]
      OBVIOUS
    <3> QED
      BY <1>2, <3>1, <3>2
  <2> QED
    BY <2>1
<1>4. ASSUME NEW k \in 0 .. n, NEW T, \A i : i \in T <=> \E m \in 1 .. k : f[m] = i
      PROVE  Cardinality(T) = k
  <2> DEFINE g == [m \in 1 .. k |-> f[m]]
  <2>1. \A m \in 1 .. k : m \in 1 .. n
    OBVIOUS
  <2>2. g \in [1 .. k -> T]
    BY <1>4
  <2>3. \A m \in 1 .. k : g[m] = f[m]
    OBVIOUS
  <2> HIDE DEF g
  <2>4. \A a, b \in 1 .. k : g[a] = g[b] => a = b
    BY <1>3, <2>1, <2>3
  <2>5. \A t \in T : \E m \in 1 .. k : g[m] = t
    BY <1>4, <2>3
  <2>6. g \in Bijection(1 .. k, T)
    BY <2>2, <2>4, <2>5, Fun_IsBij
  <2>7. ExistsBijection(1 .. k, T)
    BY <2>6 DEF ExistsBijection
  <2>8. IsFiniteSet(1 .. k) /\ Cardinality(1 .. k) = k
    <3>1. k \in Int /\ 1 \in Int /\ (1 > k => k = 0)
      OBVIOUS
    <3>2. IsFiniteSet(1 .. k) /\ Cardinality(1 .. k) = IF 1 > k THEN 0 ELSE k - 1 + 1
      BY <3>1, FS_Interval
    <3> QED
      BY <3>1, <3>2
  <2> QED
    BY <2>7, <2>8, FS_Bijection
<1>5. Cardinality(at) = n
  BY <1>1, <1>4
<1>6. ASSUME NEW k \in 1 .. n PROVE Cardinality(upTo(f[k])) = k
  <2>1. ASSUME NEW m \in 1 .. n PROVE f[m] <= f[k] <=> m <= k
    <3>1. m < k => f[m] < f[k]
      OBVIOUS
    <3>2. k < m => f[k] < f[m]
      OBVIOUS
    <3> QED
      BY <1>2, <3>1, <3>2
  <2>2. \A i : i \in upTo(f[k]) <=> \E m \in 1 .. k : f[m] = i
    <3>1. ASSUME NEW i \in upTo(f[k]) PROVE \E m \in 1 .. k : f[m] = i
      <4>1. PICK m \in 1 .. n : f[m] = i
        BY <1>1
      <4>2. m \in 1 .. k
        BY <2>1, <4>1
      <4> QED
        BY <4>1, <4>2
    <3>2. ASSUME NEW m \in 1 .. k PROVE f[m] \in upTo(f[k])
      <4>1. m \in 1 .. n /\ m <= k
        OBVIOUS
      <4>2. f[m] \in at
        BY <1>1, <4>1
      <4> QED
        BY <2>1, <4>1, <4>2
    <3> QED
      BY <3>1, <3>2
  <2>3. k \in 0 .. n
    OBVIOUS
  <2> HIDE DEF upTo
  <2> QED
    BY <1>4, <2>2, <2>3
<1>7. ASSUME NEW k \in 1 .. n PROVE nth(k) = f[k]
  <2> HIDE DEF upTo
  <2>1. f[k] \in at /\ Cardinality(upTo(f[k])) = k
    BY <1>1, <1>6
  <2>2. nth(k) \in at /\ Cardinality(upTo(nth(k))) = k
    BY <2>1
  <2>3. PICK m \in 1 .. n : f[m] = nth(k)
    BY <1>1, <2>2
  <2>4. Cardinality(upTo(f[m])) = m
    BY <1>6
  <2> QED
    BY <2>2, <2>3, <2>4
<1>8. SeparatorsOf(s, sep) = [k \in 1 .. Cardinality(at) |-> nth(k)]
  BY DEF SeparatorsOf, at
<1> HIDE DEF nth
<1>9. SeparatorsOf(s, sep) = [k \in 1 .. n |-> f[k]]
  BY <1>5, <1>7, <1>8
<1> QED
  BY <1>9

(* The values of a sendir request: its frequency and all after it, each    *)
(* from its own place.                                                     *)
LEMMA SendirBuffer ==
  ASSUME NEW S, NEW s \in Seq(S), NEW commas \in Nat, SendirRequest(s, commas)
  PROVE  globalCacheBufferToArray(s) = Buffer(TRUE, commas - 2, SendirValues(s, commas))
<1> DEFINE n == commas
           f == [k \in 1 .. n |-> IF k = 1 THEN 2 ELSE 2 * k + 2]
<1>1. /\ n \in Nat /\ n >= 8 /\ Len(s) = 2 * n + 3 /\ 2 * n + 3 < Word
      /\ s[1] = "sendir" /\ s[2] = Comma /\ s[4] = ":" /\ s[1] \in Commands
      /\ s[3] \in Numbers /\ s[5] \in Numbers
      /\ \A k \in 2 .. n : s[2 * k + 2] = Comma /\ s[2 * k + 3] \in Numbers
  BY DEF SendirRequest, Addressed
<1>2. ASSUME NEW i \in 1 .. Len(s), s[i] = Comma PROVE \E k \in 1 .. n : f[k] = i
  <2>1. i \notin {1, 3, 4, 5}
    BY <1>1, <1>2, SeparatorsAreNoNumbers, CommandsAreNoSeparators, CommaIsNoColon
  <2>2. CASE i = 2
    BY <1>1, <2>2
  <2>3. CASE i >= 6
    <3>1. PICK k \in 2 .. n : i = 2 * k + 2 \/ i = 2 * k + 3
      <4>1. n \in Nat /\ i \in Nat /\ i <= 2 * n + 3 /\ i >= 6
        BY <1>1, <2>3
      <4>2. \E k \in Int : i = 2 * k + 2 \/ i = 2 * k + 3
        <5>1. i = 2 * ((i - 2) \div 2) + 2 \/ i = 2 * ((i - 2) \div 2) + 3
          BY <4>1
        <5>2. (i - 2) \div 2 \in Int
          BY <4>1
        <5> QED
          BY <5>1, <5>2
      <4>3. PICK k \in Int : i = 2 * k + 2 \/ i = 2 * k + 3
        BY <4>2
      <4>4. k \in 2 .. n
        BY <4>1, <4>3
      <4> QED
        BY <4>3, <4>4
    <3>2. i # 2 * k + 3
      BY <1>1, <1>2, <3>1, SeparatorsAreNoNumbers
    <3> QED
      BY <1>1, <3>1, <3>2
  <2> QED
    BY <1>1, <2>1, <2>2, <2>3
<1>3. /\ f \in [1 .. n -> 1 .. Len(s)]
      /\ \A k, m \in 1 .. n : k < m => f[k] < f[m]
      /\ \A k \in 1 .. n : s[f[k]] = Comma
  BY <1>1
<1>4. SeparatorsOf(s, Comma) = f
  <2>1. Len(s) \in Nat /\ n \in Nat
    BY <1>1
  <2>2. \A i \in 1 .. Len(s) : s[i] = Comma => \E k \in 1 .. n : f[k] = i
    BY <1>2
  <2>3. Enumerates(f, n, s, Comma)
    BY <1>3, <2>2 DEF Enumerates
  <2> HIDE DEF n, f
  <2> QED
    BY <2>1, <2>3, SeparatorsAre
<1>5. countValuesInCStr(s, Comma) = n + 1
  <2>1. Len(f) = n
    BY <1>1
  <2> HIDE DEF f
  <2>2. s # <<>>
    BY <1>1
  <2>3. n + 1 \in Nat /\ n + 1 < Word
    BY <1>1, WordSize
  <2> HIDE DEF n
  <2>4. countValuesInCStr(s, Comma) = (n + 1) % Word
    BY <1>4, <2>1, <2>2 DEF countValuesInCStr
  <2> QED
    BY <2>3, <2>4, ModSmall
<1> DEFINE rest   == [k \in DOMAIN f |-> f[k] + 1]
           start  == <<1>> \o rest
           closed == SubSeq(start, 4, n)
           open   == IF Last(start) <= Len(s) THEN <<Last(start)>> ELSE <<>>
           all    == closed \o open
<1>6. /\ start \in Seq(Nat) /\ Len(start) = n + 1
      /\ \A j \in 4 .. n + 1 : start[j] = 2 * j + 1
  <2>1. rest \in Seq(Nat) /\ Len(rest) = n /\ \A k \in 2 .. n : rest[k] = 2 * k + 3
    BY <1>1
  <2> HIDE DEF rest
  <2>2. <<1>> \in Seq(Nat) /\ Len(<<1>>) = 1
    OBVIOUS
  <2>3. /\ start \in Seq(Nat) /\ Len(start) = 1 + n
        /\ \A j \in 1 .. 1 + n : start[j] = IF j <= 1 THEN <<1>>[j] ELSE rest[j - 1]
    BY <2>1, <2>2, ConcatProperties
  <2> HIDE DEF start
  <2>4. ASSUME NEW j \in 4 .. n + 1 PROVE start[j] = 2 * j + 1
    <3>1. j \in 1 .. 1 + n /\ ~(j <= 1) /\ j - 1 \in 2 .. n
      BY <1>1
    <3>2. start[j] = rest[j - 1] /\ rest[j - 1] = 2 * (j - 1) + 3
      BY <2>1, <2>3, <3>1
    <3> QED
      BY <1>1, <3>2
  <2> QED
    BY <1>1, <2>3, <2>4
<1> HIDE DEF f, start
<1>7. closed \in Seq(Nat) /\ Len(closed) = n - 3 /\ \A m \in 1 .. n - 3 : closed[m] = 2 * m + 7
  <2>1. n \in Nat /\ 4 <= n + 1 /\ n <= Len(start)
    BY <1>1, <1>6
  <2>2. closed \in Seq(Nat) /\ Len(closed) = n - 4 + 1 /\ \A m \in 1 .. n - 4 + 1 : closed[m] = start[4 + m - 1]
    <3>1. \A j \in 4 .. n : start[j] \in Nat
      <4>1. \A j \in 4 .. n : j \in 4 .. n + 1 /\ 2 * j + 1 \in Nat
        BY <1>1
      <4> QED
        BY <1>6, <4>1
    <3>2. n \in Int /\ 4 \in Int /\ 4 <= n
      BY <1>1
    <3> QED
      BY <3>1, <3>2, SubSeqProperties
  <2> HIDE DEF closed
  <2>3. ASSUME NEW m \in 1 .. n - 3 PROVE closed[m] = 2 * m + 7
    <3>1. m \in 1 .. n - 4 + 1 /\ 4 + m - 1 \in 4 .. n + 1
      BY <1>1
    <3>2. closed[m] = start[4 + m - 1] /\ start[4 + m - 1] = 2 * (4 + m - 1) + 1
      BY <1>6, <2>2, <3>1
    <3> QED
      BY <1>1, <3>2
  <2> QED
    BY <1>1, <2>2, <2>3
<1>8. open = <<2 * n + 3>>
  <2>1. Last(start) = 2 * n + 3
    BY <1>1, <1>6 DEF Last
  <2> QED
    BY <1>1, <2>1
<1> HIDE DEF closed, open
<1>9. all \in Seq(Nat) /\ Len(all) = n - 2 /\ \A m \in 1 .. n - 2 : all[m] = 2 * m + 7
  <2>1. open \in Seq(Nat) /\ Len(open) = 1 /\ open[1] = 2 * n + 3
    BY <1>1, <1>8
  <2>2. /\ all \in Seq(Nat) /\ Len(all) = Len(closed) + Len(open)
        /\ \A m \in 1 .. Len(closed) + Len(open) :
             all[m] = IF m <= Len(closed) THEN closed[m] ELSE open[m - Len(closed)]
    BY <1>7, <2>1, ConcatProperties
  <2> HIDE DEF all
  <2>3. ASSUME NEW m \in 1 .. n - 2 PROVE all[m] = 2 * m + 7
    <3>1. m \in 1 .. Len(closed) + Len(open)
      BY <1>1, <1>7, <2>1
    <3>2. CASE m <= n - 3
      BY <1>1, <1>7, <2>2, <3>1, <3>2
    <3>3. CASE ~(m <= n - 3)
      <4>1. m = n - 2 /\ m - (n - 3) = 1
        BY <1>1, <3>3
      <4>2. all[m] = open[1]
        BY <1>7, <2>2, <3>1, <3>3, <4>1
      <4> QED
        BY <1>1, <2>1, <4>1, <4>2
    <3> QED
      BY <3>2, <3>3
  <2> QED
    BY <1>1, <1>7, <2>1, <2>2, <2>3
<1>10. Values(s, Comma, 3) = [k \in DOMAIN all |-> NumberAt(s, all[k]) % Word]
  <2> DEFINE first(q)  == <<1>> \o [k \in DOMAIN q |-> q[k] + 1]
             inner(q)  == SubSeq(first(q), 3 + 1, Len(q))
             last(q)   == IF Last(first(q)) <= Len(s) THEN <<Last(first(q))>> ELSE <<>>
             places(q) == inner(q) \o last(q)
  <2>1. Values(s, Comma, 3) =
          [k \in DOMAIN places(SeparatorsOf(s, Comma)) |-> NumberAt(s, places(SeparatorsOf(s, Comma))[k]) % Word]
    BY Zenon DEF Values
  <2>2. first(f) = start
    BY Zenon DEF start
  <2>3. inner(f) = closed
    <3>1. Len(f) = n /\ 3 + 1 = 4
      BY <1>1 DEF f
    <3> HIDE DEF first, f, n
    <3> QED
      BY <2>2, <3>1 DEF closed
  <2>4. last(f) = open
    <3> HIDE DEF first, f
    <3> QED
      BY <2>2 DEF open
  <2>5. places(f) = all
    <3> HIDE DEF inner, last
    <3> QED
      BY <2>3, <2>4
  <2> HIDE DEF places, all
  <2>6. places(SeparatorsOf(s, Comma)) = all
    BY <1>4, <2>5
  <2> QED
    BY <2>1, <2>6
<1> HIDE DEF all
<1>11. Values(s, Comma, 3) = SendirValues(s, n)
  <2>1. DOMAIN all = 1 .. n - 2
    BY <1>1, <1>9
  <2>2. ASSUME NEW m \in 1 .. n - 2 PROVE NumberAt(s, all[m]) = NumberOf[s[2 * m + 7]]
    <3> DEFINE i == 2 * m + 7
               k == m + 2
    <3>1. i \in 1 .. Len(s) /\ k \in 2 .. n /\ i = 2 * k + 3
      BY <1>1
    <3>2. s[2 * k + 3] \in Numbers
      BY <1>1, <3>1
    <3>3. all[m] = i /\ Len(s) \in Nat
      BY <1>9
    <3> HIDE DEF i, k
    <3>4. NumberAt(s, i) = NumberOf[s[i]]
      BY <3>1, <3>2, <3>3, NumberReadAt
    <3> QED
      BY <3>3, <3>4 DEF i
  <2> QED
    BY <1>10, <2>1, <2>2 DEF SendirValues
<1>12. (countValuesInCStr(s, Comma) + Word - 3) % Word = n - 2
  <2> DEFINE y == (n + 1) + Word - 3
  <2>1. y \in Nat /\ Word <= y /\ y < 2 * Word /\ y - Word = n - 2
    BY <1>1, WordSize
  <2> HIDE DEF y
  <2>2. y % Word = y - Word
    BY <2>1, ModWraps
  <2> QED
    BY <1>5, <2>1, <2>2 DEF y
<1>13. globalCacheBufferToArray(s) = Buffer(TRUE, n - 2, Values(s, Comma, 3))
  <2>1. s # <<>> /\ s[1] = "sendir"
    BY <1>1
  <2>2. ~(n - 2 < 6)
    BY <1>1
  <2> HIDE DEF n
  <2> QED
    BY <1>12, <2>1, <2>2 DEF globalCacheBufferToArray
<1> QED
  BY <1>11, <1>13

LEMMA RepeatFits ==
  ASSUME NEW x \in 1 .. 50
  PROVE  x % Word = x
<1>1. x \in Nat /\ x <= 50
  OBVIOUS
<1>2. x < Word
  BY <1>1, WordSize
<1> QED
  BY <1>1, <1>2, ModSmall

(* sendGlobalCache() finds port and repeat count where the others do.      *)
LEMMA SendirSent ==
  ASSUME NEW S, NEW s \in Seq(S), NEW commas \in Nat, SendirRequest(s, commas)
  PROVE  /\ sendGlobalCache(s) = [error |-> 0, port |-> NumberOf[s[5]], repeat |-> NumberOf[s[11]]]
         /\ Find(s, Comma, 5) = 6
<1>1. /\ Len(s) \in Nat /\ Len(s) >= 19
      /\ s[1] = "sendir" /\ s[2] = Comma /\ s[3] = "1" /\ s[4] = ":"
      /\ s[5] \in Numbers /\ NumberOf[s[5]] \in 1 .. 15 /\ NumberOf[s[11]] \in 1 .. 50
  BY DEF SendirRequest, Addressed
<1>2. \A k \in 2 .. commas : s[2 * k + 2] = Comma /\ s[2 * k + 3] \in Numbers
  BY DEF SendirRequest
<1>3. /\ s[6] = Comma /\ s[7] \in Numbers
      /\ s[8] = Comma /\ s[9] \in Numbers
      /\ s[10] = Comma /\ s[11] \in Numbers
  <2>1. 2 \in 2 .. commas /\ 3 \in 2 .. commas /\ 4 \in 2 .. commas
    BY DEF SendirRequest
  <2>2. s[2 * 2 + 2] = Comma /\ s[2 * 2 + 3] \in Numbers
    BY <1>2, <2>1
  <2>3. s[2 * 3 + 2] = Comma /\ s[2 * 3 + 3] \in Numbers
    BY <1>2, <2>1
  <2>4. s[2 * 4 + 2] = Comma /\ s[2 * 4 + 3] \in Numbers
    BY <1>2, <2>1
  <2> QED
    BY <2>2, <2>3, <2>4
<1>4. s[5] # Comma /\ s[7] # Comma /\ s[9] # Comma
  BY <1>1, <1>3, SeparatorsAreNoNumbers
<1>5. Find(s, Comma, 5) = 6
  <2>1. 5 \in Nat /\ 6 \in 5 .. Len(s) /\ \A m \in 5 .. 6 - 1 : s[m] # Comma
    BY <1>1, <1>4
  <2> QED
    BY <1>1, <1>3, <2>1, FoundAt
<1>6. Find(s, Comma, 7) = 8
  <2>1. 7 \in Nat /\ 8 \in 7 .. Len(s) /\ \A m \in 7 .. 8 - 1 : s[m] # Comma
    BY <1>1, <1>4
  <2> QED
    BY <1>1, <1>3, <2>1, FoundAt
<1>7. Find(s, Comma, 9) = 10
  <2>1. 9 \in Nat /\ 10 \in 9 .. Len(s) /\ \A m \in 9 .. 10 - 1 : s[m] # Comma
    BY <1>1, <1>4
  <2> QED
    BY <1>1, <1>3, <2>1, FoundAt
<1>8. NumberAt(s, 5) = NumberOf[s[5]] /\ NumberAt(s, 11) = NumberOf[s[11]]
  <2>1. 5 \in 1 .. Len(s) /\ 11 \in 1 .. Len(s)
    BY <1>1
  <2> QED
    BY <1>1, <1>3, <2>1, NumberReadAt
<1>9. NumberOf[s[11]] % Word = NumberOf[s[11]]
  BY <1>1, RepeatFits
<1>10. IsPrefix(<<"sendir", Comma, "1", ":">>, s)
  <2> DEFINE p == <<"sendir", Comma, "1", ":">>
             g == SubSeq(s, 1, 4)
             h == SubSeq(p, 1, 4)
             T == S \cup {"sendir", Comma, "1", ":"}
  <2>1. p \in Seq(T) /\ Len(p) = 4 /\ p[1] = "sendir" /\ p[2] = Comma /\ p[3] = "1" /\ p[4] = ":"
    OBVIOUS
  <2>2. g \in Seq(T) /\ Len(g) = 4 /\ \A m \in 1 .. 4 : g[m] = s[m]
    <3>1. \A m \in 1 .. 4 : s[m] \in T
      BY <1>1
    <3> HIDE DEF T
    <3> QED
      BY <3>1, SubSeqProperties
  <2>3. h \in Seq(T) /\ Len(h) = 4 /\ \A m \in 1 .. 4 : h[m] = p[m]
    <3>1. \A m \in 1 .. 4 : p[m] \in T
      BY <2>1
    <3> HIDE DEF T, p
    <3> QED
      BY <3>1, SubSeqProperties
  <2> HIDE DEF p, g, h, T
  <2>4. \A m \in 1 .. 4 : g[m] = h[m]
    <3>1. \A m \in 1 .. 4 : m = 1 \/ m = 2 \/ m = 3 \/ m = 4
      OBVIOUS
    <3>2. s[1] = p[1] /\ s[2] = p[2] /\ s[3] = p[3] /\ s[4] = p[4]
      BY <1>1, <2>1
    <3>3. \A m \in 1 .. 4 : s[m] = p[m]
      BY <3>1, <3>2
    <3> QED
      BY <2>2, <2>3, <3>3
  <2>5. g = h
    <3>1. Len(g) = Len(h) /\ \A m \in 1 .. Len(g) : g[m] = h[m]
      BY <2>2, <2>3, <2>4
    <3> QED
      BY <2>2, <2>3, <3>1, SeqEqual, Zenon
  <2>6. Len(p) <= Len(s) /\ SubSeq(p, 1, Len(p)) = SubSeq(s, 1, Len(p))
    BY <1>1, <2>1, <2>5 DEF g, h
  <2> QED
    BY <2>6 DEF IsPrefix, p
<1>11. sendGlobalCache(s) = [error |-> 0, port |-> NumberOf[s[5]], repeat |-> NumberOf[s[11]]]
  <2> DEFINE id        == Find(s, Comma, 5)
             frequency == Find(s, Comma, id + 1)
             third     == Find(s, Comma, frequency + 1)
             port      == NumberAt(s, 5)
             repeat    == NumberAt(s, third + 1) % Word
  <2>1. id = 6
    BY <1>5
  <2>2. frequency = 8
    BY <1>6, <2>1
  <2>3. third = 10
    BY <1>7, <2>2
  <2>4. port = NumberOf[s[5]] /\ repeat = NumberOf[s[11]]
    <3>1. repeat = NumberAt(s, 11) % Word
      BY <2>3
    <3> QED
      BY <1>8, <1>9, <3>1
  <2>5. sendGlobalCache(s) =
          IF ~IsPrefix(<<"sendir", Comma, "1", ":">>, s) THEN Error(2)
          ELSE IF id = 0 THEN Error(4)
          ELSE IF port \notin 1 .. 15 THEN Error(3)
          ELSE IF frequency = 0 THEN Error(5)
          ELSE IF third = 0 \/ repeat \notin 1 .. 50 THEN Error(6)
          ELSE [error |-> 0, port |-> port, repeat |-> repeat]
    BY Zenon DEF sendGlobalCache
  <2>6. port \in 1 .. 15 /\ repeat \in 1 .. 50
    BY <1>1, <2>4
  <2>7. ~(id = 0) /\ ~(frequency = 0) /\ ~(third = 0)
    BY <2>1, <2>2, <2>3
  <2> HIDE DEF id, frequency, third, port, repeat
  <2> QED
    BY <1>10, <2>4, <2>5, <2>6, <2>7
<1> QED
  BY <1>5, <1>11

(* A complete sendir request of any length is sent as it was written.      *)
LEMMA SendirObeyed ==
  ASSUME NEW S, NEW s \in Seq(S), NEW commas \in Nat, SendirRequest(s, commas)
  PROVE  Obey(s) = <<<<"sendGC", NumberOf[s[5]], NumberOf[s[7]], SendirValues(s, commas)>>>>
<1> DEFINE values == SendirValues(s, commas)
           sent   == sendGlobalCache(s)
           codes  == globalCacheBufferToArray(s)
<1>1. Addressed(s) /\ s[1] = "sendir" /\ commas >= 8 /\ Len(s) = 2 * commas + 3
      /\ NumberOf[s[11]] \in 1 .. 50
  BY DEF SendirRequest
<1>2. sent.error = 0 /\ sent.port = NumberOf[s[5]] /\ sent.repeat = NumberOf[s[11]]
  BY SendirSent
<1>3. codes.ok /\ codes.array = values
  <2>1. codes = Buffer(TRUE, commas - 2, values)
    BY SendirBuffer
  <2> HIDE DEF codes, values
  <2> QED
    BY <2>1 DEF Buffer
<1>4. [values EXCEPT ![2] = NumberOf[s[11]]] = values
  <2>1. NumberOf[s[11]] % Word = NumberOf[s[11]]
    BY <1>1, RepeatFits
  <2>2. 2 \in 1 .. commas - 2 /\ 2 * 2 + 7 = 11
    BY <1>1
  <2>3. values[2] = NumberOf[s[11]]
    BY <2>1, <2>2 DEF SendirValues
  <2>4. values = [m \in DOMAIN values |-> values[m]]
    BY DEF SendirValues
  <2> HIDE DEF values
  <2> QED
    BY <2>3, <2>4
<1> DEFINE req == parseGcRequest(s)
<1>5. req.error = 0 /\ req.command = <<"sendir">> /\ req.param = From(s, 7)
  <2>1. Find(s, Comma, 5) = 6
    BY SendirSent
  <2>2. /\ req.error = 0 /\ req.command = <<s[1]>>
        /\ req.param = IF Find(s, Comma, 5) = 0 THEN NoParam ELSE From(s, Find(s, Comma, 5) + 1)
    BY <1>1, AddressedParsed
  <2> HIDE DEF req
  <2> QED
    BY <1>1, <2>1, <2>2
<1>6. NumberAt(req.param, 1) = NumberOf[s[7]]
  <2>1. s[7] \in Numbers
    <3>1. 2 \in 2 .. commas /\ 2 * 2 + 3 = 7
      BY <1>1
    <3>2. s[2 * 2 + 3] \in Numbers
      BY <3>1 DEF SendirRequest
    <3> QED
      BY <3>1, <3>2
  <2> DEFINE n == Len(s)
             g == SubSeq(s, 7, n)
  <2>2. n \in Nat /\ 7 <= n /\ 7 \in 7 .. n /\ s[7] \notin White /\ \A m \in 7 .. 7 - 1 : s[m] \in White
    BY <1>1, <2>1, SeparatorsAreNoNumbers
  <2>3. FirstOf(g, 1) = 7 - 7 + 1 /\ g[7 - 7 + 1] = s[7]
    <3>1. 7 \in Nat /\ 1 <= 7 /\ n <= Len(s) /\ 7 <= n + 1
      BY <2>2
    <3> HIDE DEF n
    <3> QED
      BY <2>2, <3>1, FirstInField
  <2> HIDE DEF g
  <2>4. FirstOf(g, 1) = 1 /\ g[1] = s[7]
    BY <2>3
  <2>5. NumberAt(g, 1) = NumberOf[s[7]]
    BY <2>1, <2>4 DEF NumberAt
  <2> QED
    BY <1>5, <2>5 DEF g, From
<1>7. Sendir(s, NumberAt(req.param, 1)) =
        <<<<"sendGC", NumberOf[s[5]], NumberOf[s[7]], values>>>>
  <2> DEFINE id == NumberAt(req.param, 1)
  <2>1. Sendir(s, id) =
          IF sent.error # 0 \/ ~codes.ok THEN <<>>
          ELSE <<<<"sendGC", sent.port, id, [codes.array EXCEPT ![2] = sent.repeat]>>>>
    BY Zenon DEF Sendir
  <2> HIDE DEF id, sent, codes, values
  <2>2. [codes.array EXCEPT ![2] = sent.repeat] = values
    BY <1>2, <1>3, <1>4
  <2>3. id = NumberOf[s[7]]
    BY <1>6 DEF id
  <2> QED
    BY <1>2, <1>3, <2>1, <2>2, <2>3 DEF id
<1>8. Obey(s) = Sendir(s, NumberAt(req.param, 1))
  BY <1>5 DEF Obey
<1> QED
  BY <1>7, <1>8

LEMMA NotFound ==
  ASSUME NEW s, Len(s) \in Nat, NEW token, NEW from \in Nat, from >= 1,
         \A k \in from .. Len(s) : s[k] # token
  PROVE  Find(s, token, from) = 0
BY FindFirst

LEMMA SimpleParsed ==
  ASSUME NEW name \in Commands
  PROVE  /\ parseGcRequest(<<name>>).error = 0
         /\ parseGcRequest(<<name>>).command = <<name>>
         /\ parseGcRequest(<<name>>).param = NoParam
<1> DEFINE s == <<name>>
<1>1. Len(s) = 1 /\ s[1] = name
  OBVIOUS
<1>2. s = <<name>> /\ ~TooLong(s)
  <2>1. name \notin LongWords
    BY CommandsFit
  <2> QED
    BY <2>1 DEF TooLong
<1> HIDE DEF s
<1>3. Find(s, Comma, 1) = 0
  <2>1. \A k \in 1 .. Len(s) : s[k] # Comma
    BY <1>1, CommandsAreNoSeparators
  <2> QED
    BY <1>1, <2>1, NotFound
<1>4. parseGcRequest(s) = Request(s, 0, 0, NoParam)
  BY <1>2, <1>3 DEF parseGcRequest
<1>5. /\ parseGcRequest(s).error = 0 /\ parseGcRequest(s).command = s
      /\ parseGcRequest(s).param = NoParam
  BY <1>4 DEF Request
<1> QED
  BY <1>2, <1>5

LEMMA OneToken ==
  ASSUME NEW S, NEW s \in Seq(S), NEW a \in 1 .. Len(s)
  PROVE  SubSeq(s, a, a) = <<s[a]>>
<1> DEFINE g == SubSeq(s, a, a)
           h == <<s[a]>>
<1>1. a \in Int /\ s[a] \in S /\ \A i \in a .. a : s[i] \in S
  OBVIOUS
<1>2. g \in Seq(S) /\ Len(g) = 1 /\ g[1] = s[a]
  BY <1>1, SubSeqProperties
<1>3. h \in Seq(S) /\ Len(h) = 1 /\ h[1] = s[a]
  BY <1>1
<1> HIDE DEF g, h
<1>4. g = h
  BY <1>2, <1>3, SeqEqual
<1> QED
  BY <1>4 DEF g, h

LEMMA BlinkParsed ==
  ASSUME NEW v, v # Comma, v # ":"
  PROVE  /\ parseGcRequest(<<"blink", Comma, v>>).error = 0
         /\ parseGcRequest(<<"blink", Comma, v>>).command = <<"blink">>
         /\ parseGcRequest(<<"blink", Comma, v>>).param = <<v>>
<1> DEFINE s       == <<"blink", Comma, v>>
           name    == "blink"
           command == <<name>>
           param   == <<v>>
           T       == {name, Comma, v}
<1>1. s \in Seq(T) /\ Len(s) = 3 /\ s[1] = name /\ s[2] = Comma /\ s[3] = v /\ v \in T
  OBVIOUS
<1>2. name \in Commands
  BY DEF Commands
<1>3. name # Comma /\ name \notin LongWords
  BY <1>2, CommandsAreNoSeparators, CommandsFit
<1> HIDE DEF s, T, name
<1>4. Find(s, Comma, 1) = 2
  <2>1. 1 \in Nat /\ 2 \in 1 .. Len(s) /\ \A m \in 1 .. 2 - 1 : s[m] # Comma
    BY <1>1, <1>3
  <2> QED
    BY <1>1, <2>1, FoundAt
<1>5. Find(s, ":", 3) = 0 /\ Find(s, Comma, 3) = 0
  <2>1. \A k \in 3 .. Len(s) : s[k] # ":" /\ s[k] # Comma
    BY <1>1
  <2>2. Len(s) \in Nat /\ 3 \in Nat /\ 3 >= 1
    BY <1>1
  <2> QED
    BY <2>1, <2>2, NotFound
<1>6. SubSeq(s, 1, 1) = command /\ From(s, 3) = param
  <2>1. 1 \in 1 .. Len(s) /\ 3 \in 1 .. Len(s)
    BY <1>1
  <2>2. SubSeq(s, 1, 1) = <<s[1]>> /\ SubSeq(s, 3, 3) = <<s[3]>>
    BY <1>1, <2>1, OneToken
  <2> QED
    BY <1>1, <2>2 DEF From
<1>7. ~TooLong(command)
  BY <1>3 DEF TooLong
<1> HIDE DEF command, param
<1>8. parseGcRequest(s) = Request(command, 0, 0, param)
  <2> DEFINE comma == Find(s, Comma, 1)
             name1 == IF comma = 0 THEN s ELSE SubSeq(s, 1, comma - 1)
             colon == Find(s, ":", comma + 1)
  <2>1. comma = 2 /\ name1 = command /\ colon = 0
    BY <1>4, <1>5, <1>6
  <2>2. Find(s, Comma, comma + 1) = 0 /\ From(s, comma + 1) = param
    BY <1>5, <1>6, <2>1
  <2>3. ~TooLong(name1) /\ comma # 0 /\ colon = 0 /\ Find(s, Comma, comma + 1) = 0 =>
          parseGcRequest(s) = Request(name1, 0, 0, From(s, comma + 1))
    BY DEF parseGcRequest
  <2> HIDE DEF comma, name1, colon
  <2> QED
    BY <1>7, <2>1, <2>2, <2>3
<1>9. /\ parseGcRequest(s).error = 0 /\ parseGcRequest(s).command = command
      /\ parseGcRequest(s).param = param
  BY <1>8 DEF Request
<1> QED
  BY <1>9 DEF s, command, param, name

LEMMA BlinkDoes ==
  /\ Blink(NoParam) = <<<<"setState", "IDENTIFY">>>>
  /\ Blink(<<"1">>) = <<<<"setState", "IDENTIFY">>>>
  /\ Blink(<<"0">>) = <<<<"setState", "NORMAL">>>>
<1>1. <<"0">> # <<"1">> /\ <<"0">> # NoParam /\ <<"1">> # NoParam
  BY DEF NoParam
<1> QED
  BY <1>1, Zenon DEF Blink

(***************************************************************************)
(* Each request that is written as globalcache.hpp lists it does what it   *)
(* asks for, a sendir with any number of pulses included: the three        *)
(* functions that take it apart agree on its fields.                       *)
(***************************************************************************)
THEOREM KnownRequestsDo ==
  ASSUME NEW r \in Requests, KnownRequest(r)
  PROVE  Obey(r.text) = r.asks
<1> DEFINE s   == r.text
           req == parseGcRequest(s)
<1>1. s \in Seq(StreamTokens)
  BY ClientAssumption
<1>2. CASE (s = <<>> \/ s[1] \notin Commands) /\ r.asks = <<>>
  <2>1. s = <<>> => ~(Len(s) >= 1)
    BY <1>1
  <2> QED
    BY <1>1, <1>2, <2>1, ObeyedAreCommands
<1>3. CASE \E commas \in 8 .. Len(s) :
             /\ SendirRequest(s, commas)
             /\ r.asks = <<<<"sendGC", NumberOf[s[5]], NumberOf[s[7]], SendirValues(s, commas)>>>>
  <2>1. PICK commas \in 8 .. Len(s) :
             /\ SendirRequest(s, commas)
             /\ r.asks = <<<<"sendGC", NumberOf[s[5]], NumberOf[s[7]], SendirValues(s, commas)>>>>
    BY <1>3
  <2>2. commas \in Nat
    BY <1>1
  <2> QED
    BY <1>1, <2>1, <2>2, SendirObeyed
<1>4. CASE Addressed(s) /\ s[1] = "stopir" /\ r.asks = <<<<"stopSend">>>>
  <2>1. req.error = 0 /\ req.command = <<"stopir">>
    BY <1>1, <1>4, AddressedParsed
  <2> QED
    BY <1>4, <2>1 DEF Obey
<1>5. CASE s = <<"blink">> /\ r.asks = <<<<"setState", "IDENTIFY">>>>
  <2>1. req.error = 0 /\ req.command = <<"blink">> /\ req.param = NoParam
    BY <1>5, SimpleParsed DEF Commands
  <2> QED
    BY <1>5, <2>1, BlinkDoes DEF Obey
<1>6. CASE s = <<"blink", Comma, "1">> /\ r.asks = <<<<"setState", "IDENTIFY">>>>
  <2>1. "1" # Comma /\ "1" # ":"
    BY Zenon DEF Comma
  <2>2. req.error = 0 /\ req.command = <<"blink">> /\ req.param = <<"1">>
    BY <1>6, <2>1, BlinkParsed
  <2>3. r.asks = Blink(<<"1">>)
    BY <1>6, BlinkDoes
  <2> QED
    BY <2>2, <2>3 DEF Obey
<1>7. CASE s = <<"blink", Comma, "0">> /\ r.asks = <<<<"setState", "NORMAL">>>>
  <2>1. "0" # Comma /\ "0" # ":"
    BY Zenon DEF Comma
  <2>2. req.error = 0 /\ req.command = <<"blink">> /\ req.param = <<"0">>
    BY <1>7, <2>1, BlinkParsed
  <2>3. r.asks = Blink(<<"0">>)
    BY <1>7, BlinkDoes
  <2> QED
    BY <2>2, <2>3 DEF Obey
<1>8. CASE s = <<"get_IRL">> /\ r.asks = <<<<"startIrLearn">>>>
  <2>1. req.error = 0 /\ req.command = <<"get_IRL">>
    BY <1>8, SimpleParsed DEF Commands
  <2> QED
    BY <1>8, <2>1 DEF Obey
<1>9. CASE s = <<"stop_IRL">> /\ r.asks = <<<<"stopIrLearn">>>>
  <2>1. req.error = 0 /\ req.command = <<"stop_IRL">>
    BY <1>9, SimpleParsed DEF Commands
  <2> QED
    BY <1>9, <2>1 DEF Obey
<1> QED
  BY <1>2, <1>3, <1>4, <1>5, <1>6, <1>7, <1>8, <1>9 DEF KnownRequest

LEMMA CommandsAreNoSpace ==
  ASSUME NEW t \in Commands
  PROVE  t \notin White
BY Zenon DEF Commands, White

(* A buffer that holds one request and its line end: the request is obeyed *)
(* as a whole, and white space alone is no request.                        *)
LEMMA HandleWhole ==
  ASSUME NEW r \in Requests, NEW e \in LineEnds, KnownRequest(r)
  PROVE  Handle(r.text \o e) = r.asks
<1> DEFINE s       == r.text
           n       == Len(s)
           buffer  == s \o e
           end     == Find(buffer, "CR", 1)
           request == SubSeq(buffer, 1, end - 1)
<1>1. s \in Seq(StreamTokens) /\ \A m \in DOMAIN s : s[m] # "CR"
  BY ClientAssumption
<1>2. e \in Seq(StreamTokens) /\ e # <<>> /\ e[1] = "CR"
  BY ClientAssumption
<1>3. Obey(s) = r.asks
  BY KnownRequestsDo
<1> HIDE DEF s
<1>4. n \in Nat /\ 1 \in 1 .. Len(e)
  BY <1>1, <1>2
<1>5. /\ buffer \in Seq(StreamTokens) /\ Len(buffer) = n + Len(e)
      /\ \A m \in 1 .. n : buffer[m] = s[m]
      /\ buffer[n + 1] = "CR"
  <2>1. /\ buffer \in Seq(StreamTokens) /\ Len(buffer) = n + Len(e)
        /\ \A m \in 1 .. n : buffer[m] = s[m]
    BY <1>1, <1>2
  <2>2. buffer[n + 1] = e[1]
    BY <1>1, <1>2, <1>4
  <2> QED
    BY <1>2, <2>1, <2>2
<1> HIDE DEF buffer, n
<1>6. end = n + 1
  <2>1. 1 \in Nat /\ n + 1 \in 1 .. Len(buffer) /\ Len(buffer) \in Nat
    BY <1>2, <1>4, <1>5
  <2>2. \A m \in 1 .. (n + 1) - 1 : buffer[m] # "CR"
    BY <1>1, <1>4, <1>5 DEF n
  <2> QED
    BY <1>5, <2>1, <2>2, FoundAt
<1>7. request = s
  <2> DEFINE g == SubSeq(buffer, 1, n)
  <2>1. request = g
    BY <1>4, <1>6
  <2>2. n <= Len(buffer) /\ \A i \in 1 .. n : buffer[i] \in StreamTokens
    BY <1>2, <1>4, <1>5
  <2>3. g \in Seq(StreamTokens) /\ Len(g) = n /\ \A m \in 1 .. n : g[m] = buffer[m]
    BY <1>4, <2>2, SubSeqProperties
  <2> HIDE DEF g, request
  <2>4. Len(g) = Len(s) /\ \A m \in 1 .. Len(g) : g[m] = s[m]
    BY <1>5, <2>3 DEF n
  <2>5. g = s
    BY <1>1, <2>3, <2>4, SeqEqual
  <2> QED
    BY <2>1, <2>5
<1>8. Handle(buffer) = IF end = 0 \/ FirstOf(request, 1) = 0 THEN <<>> ELSE Obey(request)
  BY Zenon DEF Handle
<1>9. CASE FirstOf(s, 1) = 0
  <2>1. \A k \in 1 .. Len(s) : s[k] \in White
    BY <1>1, <1>9, FirstOfFirst
  <2>2. Obey(s) = <<>>
    BY <1>1, <2>1, ObeyedAreCommands, CommandsAreNoSpace
  <2> QED
    BY <1>3, <1>7, <1>8, <1>9, <2>2 DEF buffer, s
<1>10. CASE FirstOf(s, 1) # 0
  <2>1. end # 0
    BY <1>4, <1>6
  <2> QED
    BY <1>3, <1>7, <1>8, <1>10, <2>1 DEF buffer, s
<1> QED
  BY <1>9, <1>10

(***************************************************************************)
(* A request that arrives alone in a buffer does what it asks for, for any *)
(* client that writes its requests as globalcache.hpp lists them.          *)
(***************************************************************************)
THEOREM WholeRequestsAlwaysObeyed ==
  ASSUME \A r \in Requests : KnownRequest(r)
  PROVE  Spec => WholeRequestsObeyed
<1> DEFINE Obeyed == \A r \in Requests, e \in LineEnds :
                       rx' = r.text \o e /\ Len(wire') < Len(wire) => done' = done \o r.asks
<1>1. RequestsUnderstood
  BY KnownRequestsDo DEF RequestsUnderstood
<1>2. StreamInv /\ [Next]_vars => [Obeyed]_vars
  <2> SUFFICES ASSUME StreamInv, [Next]_vars, NEW r \in Requests, NEW e \in LineEnds,
                      rx' = r.text \o e, Len(wire') < Len(wire)
               PROVE  done' = done \o r.asks
    OBVIOUS
  <2>1. wire \in Seq(StreamTokens)
    BY DEF StreamInv
  <2>2. ASSUME NEW q \in Requests, NEW f \in LineEnds, Ask(q, f) PROVE FALSE
    <3>1. wire' = wire \o q.text \o f
      BY <2>2 DEF Ask
    <3>2. q.text \in Seq(StreamTokens) /\ f \in Seq(StreamTokens)
      BY ClientAssumption
    <3>3. Len(wire') = Len(wire) + Len(q.text) + Len(f)
      BY <2>1, <3>1, <3>2
    <3> QED
      BY <2>1, <3>2, <3>3
  <2>3. CASE Recv
    <3>1. done' = done \o Handle(rx')
      BY <2>3 DEF Recv
    <3> QED
      BY <3>1, HandleWhole
  <2>4. CASE Leave
    <3>1. rx' = <<>>
      BY <2>4 DEF Leave
    <3>2. r.text \in Seq(StreamTokens) /\ e \in Seq(StreamTokens) /\ e # <<>>
      BY ClientAssumption
    <3>3. Len(r.text \o e) = Len(r.text) + Len(e) /\ Len(e) # 0
      BY <3>2
    <3>4. Len(rx') = 0
      BY <3>1
    <3> QED
      BY <3>2, <3>3, <3>4
  <2>5. ASSUME wire' = wire PROVE FALSE
    BY <2>1, <2>5
  <2>6. ASSUME NEW token, Compose(token) PROVE FALSE
    BY <2>5, <2>6 DEF Compose
  <2>7. CASE SendIr
    BY <2>5, <2>7 DEF SendIr
  <2>8. CASE UNCHANGED vars
    BY <2>5, <2>8 DEF vars
  <2> QED
    BY <2>2, <2>3, <2>4, <2>6, <2>7, <2>8 DEF Next
<1> QED
  BY <1>1, <1>2, StreamInvariant, PTL DEF Spec, WholeRequestsObeyed

(***************************************************************************)
(* The same clients: what the dock does was asked for, in this order.      *)
(***************************************************************************)
THEOREM KnownRequestsAreNoPhantoms ==
  ASSUME \A r \in Requests : KnownRequest(r)
  PROVE  Spec => []ExecutedWereSent
<1>1. RequestsUnderstood
  BY KnownRequestsDo DEF RequestsUnderstood
<1> QED
  BY <1>1, NoPhantomRequest
=============================================================================

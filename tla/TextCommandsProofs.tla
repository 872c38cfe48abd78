------------------------- MODULE TextCommandsProofs -------------------------
(***************************************************************************)
(* The command line stays in step, for every size of its buffer and every  *)
(* set of lines that a user types ahead.                                   *)
(*                                                                         *)
(* The argument: while a line is read, the stream is the rest of that line *)
(* and the lines behind it, and the index of the buffer is the one that    *)
(* the characters read so far lead to (Cursor), so that the loop ends with *)
(* the last character of the line and with no other.                       *)
(***************************************************************************)
EXTENDS TextCommands, FlattenTheorems

-----------------------------------------------------------------------------
(***************************************************************************)
(* The lines in the stream.                                                *)
(***************************************************************************)

LEMMA LineType ==
    ASSUME NEW l \in Lines
    PROVE  l.text \in Seq(Characters) /\ Len(l.text) \in Nat \ {0}
<1>1. l.text \in Seq(STRING) /\ l.text # <<>>
  BY LineAssumption, Zenon
<1>2. ToSet(l.text) \subseteq Characters
  BY Zenon DEF Characters
<1>3. PICK n \in Nat \ {0} : n = Len(l.text) /\ DOMAIN l.text = 1..n
  BY <1>1, EmptySeq
<1>4. \A k \in 1..n : l.text[k] \in Characters
  BY <1>2, <1>3 DEF ToSet
<1>5. l.text \in Seq(Characters)
  BY <1>1, <1>3, <1>4
<1>. QED
  BY <1>3, <1>5

TextsByLine == [l \in Lines |-> l.text]

LEMMA TextsAre ==
    /\ Gives(TextsByLine, Lines, Characters)
    /\ \A s \in Seq(Lines) : Texts(s) = FlatMap(TextsByLine, s)
<1>1. ASSUME NEW s \in Seq(Lines)
      PROVE  Texts(s) = FlatMap(TextsByLine, s)
  <2>1. \A k \in DOMAIN s : s[k] \in Lines
    OBVIOUS
  <2>2. [k \in DOMAIN s |-> s[k].text] = [k \in DOMAIN s |-> TextsByLine[s[k]]]
    BY <2>1, Zenon DEF TextsByLine
  <2>. QED
    BY <2>2 DEF Texts, FlatMap, Pieces
<1>. QED
  BY <1>1, LineType DEF TextsByLine, Gives

LEMMA TextsEmpty == Texts(<<>>) = <<>>
<1>1. <<>> \in Seq(Lines)
  OBVIOUS
<1>. QED
  BY <1>1, TextsAre, FlatMapEmpty

LEMMA TextsType ==
    ASSUME NEW s \in Seq(Lines)
    PROVE  Texts(s) \in Seq(Characters)
BY TextsAre, FlatMapType

\* One more line comes behind the others.
LEMMA TextsAppend ==
    ASSUME NEW s \in Seq(Lines), NEW l \in Lines
    PROVE  Texts(Append(s, l)) = Texts(s) \o l.text
<1>1. Append(s, l) \in Seq(Lines)
  BY AppendProperties
<1>2. FlatMap(TextsByLine, Append(s, l)) = FlatMap(TextsByLine, s) \o TextsByLine[l]
  BY TextsAre, FlatMapAppend
<1>. QED
  BY <1>1, <1>2, TextsAre DEF TextsByLine

\* The first line and the others.
LEMMA TextsHeadTail ==
    ASSUME NEW s \in Seq(Lines), s # <<>>
    PROVE  Texts(s) = Head(s).text \o Texts(Tail(s))
<1>1. Head(s) \in Lines /\ Tail(s) \in Seq(Lines)
  BY HeadTailProperties
<1>2. FlatMap(TextsByLine, s) = TextsByLine[Head(s)] \o FlatMap(TextsByLine, Tail(s))
  BY TextsAre, FlatMapHeadTail
<1>. QED
  BY <1>1, <1>2, TextsAre DEF TextsByLine

-----------------------------------------------------------------------------
(***************************************************************************)
(* The loops over characters.                                              *)
(***************************************************************************)

\* The index in the buffer after k characters, from the one before.
LEMMA CursorStep ==
    ASSUME NEW text \in Seq(Characters)
    PROVE  /\ Cursor(text)[0] = 0
           /\ \A k \in 1..Len(text) :
                Cursor(text)[k] = CursorAfter(Cursor(text)[k - 1], text[k])
<1>. DEFINE f == [p \in Nat \X Nat |-> CursorAfter(p[1], text[p[2]])]
            Rule(v) == [k \in 0..Len(text) |->
                            IF k = 0 THEN 0 ELSE CursorAfter(v[k - 1], text[k])]
<1>1. f \in [Nat \X Nat -> Nat] /\ Len(text) \in Nat
  BY DEF CursorAfter
<1>2. \A m \in Nat, k \in Nat : f[<<m, k>>] = CursorAfter(m, text[k])
  OBVIOUS
<1>3. PICK v : Loop(f, 0, Len(text), v)
  <2>. HIDE DEF f
  <2>. QED
    BY <1>1, LoopExists
<1>4. /\ v[0] = 0
      /\ \A k \in 1..Len(text) : v[k] = f[<<v[k - 1], k>>]
      /\ \A k \in 0..Len(text) : v[k] \in Nat
  <2>. HIDE DEF f
  <2>. QED
    BY <1>1, <1>3, LoopType
<1>5. ASSUME NEW k \in 0..Len(text)
      PROVE  v[k] = IF k = 0 THEN 0 ELSE CursorAfter(v[k - 1], text[k])
  <2>1. CASE k = 0
    BY <1>4, <2>1
  <2>2. CASE k # 0
    <3>1. k \in 1..Len(text) /\ k - 1 \in 0..Len(text) /\ k \in Nat
      BY <2>2
    <3>2. v[k] = f[<<v[k - 1], k>>] /\ v[k - 1] \in Nat
      BY <1>4, <3>1
    <3>. HIDE DEF f
    <3>. QED
      BY <1>2, <2>2, <3>1, <3>2
  <2>. QED
    BY <2>1, <2>2
<1>6. v = Rule(v)
  <2>1. v = [k \in 0..Len(text) |-> v[k]]
    BY <1>3 DEF Loop
  <2>. QED
    BY <1>5, <2>1
<1>7. PICK after : after = Rule(after) /\ Cursor(text) = after
  BY <1>6 DEF Cursor
<1>8. \A k \in 0..Len(text) :
         after[k] = IF k = 0 THEN 0 ELSE CursorAfter(after[k - 1], text[k])
  BY <1>7, Zenon
<1>9. 0 \in 0..Len(text) /\ \A k \in 1..Len(text) : k \in 0..Len(text) /\ k # 0
  BY <1>1
<1>. QED
  BY <1>7, <1>8, <1>9, Zenon

LEMMA IntRange == IntSize \div 2 = 32768 /\ Ints = (-32768)..32767
<1>1. 65536 \div 2 = 32768
  OBVIOUS
<1>2. 32768 - 1 = 32767
  OBVIOUS
<1>. QED
  BY <1>1, <1>2 DEF Ints, IntSize

LEMMA InInts ==
    ASSUME NEW n \in Int, -32768 <= n, n <= 32767
    PROVE  n \in Ints
<1>. DEFINE low == -32768
<1>1. low \in Int /\ low <= n
  OBVIOUS
<1>. HIDE DEF low
<1>2. n \in low..32767
  BY <1>1
<1>. QED
  BY <1>2, IntRange DEF low

LEMMA Int16Type ==
    ASSUME NEW n \in Int
    PROVE  Int16(n) \in Ints
<1>1. PICK low \in 0..65535 : low = n % 65536
  OBVIOUS
<1>2. Int16(n) = IF low < 32768 THEN low ELSE low - 65536
  BY <1>1, IntRange DEF Int16, IntSize
<1>. QED
  BY <1>2, InInts

LEMMA DigitType ==
    ASSUME NEW c, IsDigit(c)
    PROVE  Digit(c) \in 0..15
<1>1. PICK k \in 1..16 : Digits[k] = c
  BY DEF IsDigit, Contains, Digits
<1>2. k - 1 \in 0..15 /\ Digits[(k - 1) + 1] = c
  BY <1>1
<1>3. \E d \in 0..15 : Digits[d + 1] = c
  BY <1>2
<1>. QED
  BY <1>3, Zenon DEF Digit

\* getCommandParamHexadecimal() returns an int, however many digits there are.
LEMMA HexValueType ==
    ASSUME NEW s \in Seq(Characters)
    PROVE  HexValue(s) \in Ints
<1>1. CASE ~(\A k \in DOMAIN s : s[k] \in Skipped \/ IsDigit(s[k]))
  <2>1. HexValue(s) = -1
    BY <1>1, Zenon DEF HexValue
  <2>. QED
    BY <2>1 DEF Ints, IntSize
<1>2. CASE \A k \in DOMAIN s : s[k] \in Skipped \/ IsDigit(s[k])
  <2>. DEFINE f == [p \in Ints \X Nat |->
                        IF p[2] \in DOMAIN s THEN HexDigit(p[1], s[p[2]]) ELSE p[1]]
              Rule(v) == [k \in 0..Len(s) |-> IF k = 0 THEN 0 ELSE HexDigit(v[k - 1], s[k])]
  <2>1. 0 \in Ints /\ Len(s) \in Nat /\ DOMAIN s = 1..Len(s)
    BY DEF Ints, IntSize
  <2>2. \A n \in Ints, k \in DOMAIN s : HexDigit(n, s[k]) \in Ints
    <3>1. ASSUME NEW n \in Ints, NEW k \in DOMAIN s
          PROVE  HexDigit(n, s[k]) \in Ints
      <4>1. CASE s[k] \in Skipped
        BY <4>1 DEF HexDigit
      <4>2. CASE s[k] \notin Skipped
        <5>1. Digit(s[k]) \in 0..15
          BY <1>2, <4>2, DigitType
        <5>2. PICK d \in 0..15 : d = Digit(s[k])
          BY <5>1
        <5>3. n \in Int /\ n * 16 + d \in Int
          <6>1. n \in Int
            BY IntRange
          <6>. QED
            BY <6>1
        <5>. QED
          BY <4>2, <5>2, <5>3, Int16Type DEF HexDigit
      <4>. QED
        BY <4>1, <4>2
    <3>. QED
      BY <3>1
  <2>3. f \in [Ints \X Nat -> Ints]
    BY <2>2, Zenon
  <2>4. \A n \in Ints, k \in DOMAIN s : f[<<n, k>>] = HexDigit(n, s[k])
    BY <2>1
  <2>5. PICK v : Loop(f, 0, Len(s), v)
    <3>. HIDE DEF f
    <3>. QED
      BY <2>1, <2>3, LoopExists
  <2>6. /\ v[0] = 0
        /\ \A k \in 1..Len(s) : v[k] = f[<<v[k - 1], k>>]
        /\ \A k \in 0..Len(s) : v[k] \in Ints
    <3>. HIDE DEF f
    <3>. QED
      BY <2>1, <2>3, <2>5, LoopType
  <2>7. ASSUME NEW k \in 0..Len(s)
        PROVE  v[k] = IF k = 0 THEN 0 ELSE HexDigit(v[k - 1], s[k])
    <3>1. CASE k = 0
      BY <2>6, <3>1
    <3>2. CASE k # 0
      <4>1. k \in DOMAIN s /\ k - 1 \in 0..Len(s)
        BY <2>1, <3>2
      <4>2. v[k] = f[<<v[k - 1], k>>] /\ v[k - 1] \in Ints
        BY <2>1, <2>6, <4>1
      <4>. HIDE DEF f
      <4>. QED
        BY <2>4, <3>2, <4>1, <4>2
    <3>. QED
      BY <3>1, <3>2
  <2>8. v = Rule(v)
    <3>1. v = [k \in 0..Len(s) |-> v[k]]
      BY <2>5 DEF Loop
    <3>. QED
      BY <2>7, <3>1
  <2>9. PICK w : w = Rule(w) /\ HexValue(s) = w[Len(s)]
    BY <1>2, <2>8 DEF HexValue
  <2>10. Loop(f, 0, Len(s), w)
    <3>. DEFINE N == {k \in Nat : k \in 0..Len(s) => w[k] = v[k]}
    <3>1. \A k \in 0..Len(s) : w[k] = IF k = 0 THEN 0 ELSE HexDigit(w[k - 1], s[k])
      BY <2>9, Zenon
    <3>2. 0 \in N
      BY <2>1, <2>6, <3>1
    <3>3. ASSUME NEW k \in Nat, k \in N
          PROVE  k + 1 \in N
      <4>. SUFFICES ASSUME k + 1 \in 0..Len(s) PROVE w[k + 1] = v[k + 1]
        OBVIOUS
      <4>1. w[k] = v[k]
        BY <3>3
      <4>2. (k + 1) - 1 = k /\ k + 1 # 0
        OBVIOUS
      <4>3. w[k + 1] = HexDigit(w[k], s[k + 1]) /\ v[k + 1] = HexDigit(v[k], s[k + 1])
        BY <2>7, <3>1, <4>2
      <4>. QED
        BY <4>1, <4>3
    <3>4. Nat \subseteq N
      <4>. HIDE DEF N
      <4>. QED
        BY <3>2, <3>3, SetInduction
    <3>5. w = [k \in 0..Len(s) |-> w[k]] /\ v = [k \in 0..Len(s) |-> v[k]]
      BY <2>9, <2>8
    <3>6. \A k \in 0..Len(s) : w[k] = v[k]
      BY <2>1, <3>4
    <3>7. [k \in 0..Len(s) |-> w[k]] = [k \in 0..Len(s) |-> v[k]]
      BY <3>6, Zenon
    <3>8. w = v
      BY <3>5, <3>7, Zenon
    <3>. QED
      BY <2>5, <3>8, Zenon
  <2>11. w[Len(s)] \in Ints
    <3>1. \A k \in 0..Len(s) : w[k] \in Ints
      <4>. HIDE DEF f
      <4>. QED
        BY <2>1, <2>3, <2>10, LoopType
    <3>. QED
      BY <2>1, <3>1
  <2>. QED
    BY <2>9, <2>11
<1>. QED
  BY <1>1, <1>2

LEMMA ParamType ==
    ASSUME NEW s \in Seq(Characters)
    PROVE  ParamValues(s) \subseteq Ints
<1>1. CASE s = <<>>
  BY <1>1, LineAssumption, Zenon DEF ParamValues
<1>2. CASE s # <<>>
  BY <1>2, HexValueType, Zenon DEF ParamValues
<1>. QED
  BY <1>1, <1>2

\* The first element of a set of numbers.
LEMMA MinIsElement ==
    ASSUME NEW I \in SUBSET Nat, I # {}
    PROVE  Min(I) \in I
<1>1. PICK m \in I : \A y \in I : ~(<<y, m>> \in OpToRel(<, Nat))
  <2>1. I \subseteq Nat
    OBVIOUS
  <2>. QED
    BY <2>1, NatLessThanWellFounded, WFMin, Zenon
<1>2. \A y \in I : m <= y
  <2>. SUFFICES ASSUME NEW y \in I, y < m PROVE FALSE
    OBVIOUS
  <2>1. <<y, m>> \in OpToRel(<, Nat)
    BY DEF OpToRel
  <2>. QED
    BY <1>1, <2>1
<1>3. \E x0 \in I : \A y \in I : x0 <= y
  BY <1>2
<1>. QED
  BY <1>3 DEF Min

\* strtok() returns parts of the string.
LEMMA StrtokType ==
    ASSUME NEW text \in Seq(Characters), NEW delimiters
    PROVE  /\ Strtok(text, delimiters).token \in Seq(Characters)
           /\ Strtok(text, delimiters).rest \in Seq(Characters)
<1>. DEFINE from == SelectInSeq(text, LAMBDA c : c \notin delimiters)
            to   == SelectInSubSeq(text, from, Len(text),
                                   LAMBDA c : c \in delimiters \cup {NUL})
<1>1. Len(text) \in Nat
  OBVIOUS
<1>2. from \in 0..Len(text)
  <2>. DEFINE I == {k \in 1..Len(text) : text[k] \notin delimiters}
  <2>1. from = IF I # {} THEN Min(I) ELSE 0
    BY DEF SelectInSeq
  <2>2. I \in SUBSET Nat
    BY <1>1
  <2>3. I # {} => Min(I) \in I
    <3>. HIDE DEF I
    <3>. QED
      BY <2>2, MinIsElement
  <2>. QED
    BY <1>1, <2>1, <2>3
<1>3. to \in 0..Len(text)
  <2>. HIDE DEF from
  <2>. DEFINE I == {k \in from..Len(text) : text[k] \in delimiters \cup {NUL}}
  <2>1. to = IF I # {} THEN Min(I) ELSE 0
    BY DEF SelectInSubSeq
  <2>2. I \in SUBSET Nat
    BY <1>1, <1>2
  <2>3. I # {} => Min(I) \in I
    <3>. HIDE DEF I
    <3>. QED
      BY <2>2, MinIsElement
  <2>. QED
    BY <1>1, <1>2, <2>1, <2>3
<1>4. /\ <<>> \in Seq(Characters)
      /\ from # 0 => SubSeq(text, from, Len(text)) \in Seq(Characters)
      /\ from # 0 /\ to # 0 => SubSeq(text, from, to - 1) \in Seq(Characters)
      /\ to # 0 => SubSeq(text, to + 1, Len(text)) \in Seq(Characters)
  <2>. HIDE DEF from, to
  <2>1. ASSUME NEW m \in Nat \ {0}, NEW n \in Int, n <= Len(text)
        PROVE  SubSeq(text, m, n) \in Seq(Characters)
    <3>1. \A k \in m..n : text[k] \in Characters
      BY <2>1
    <3>. QED
      BY <3>1, SubSeqProperties
  <2>. QED
    BY <1>1, <1>2, <1>3, <2>1
<1>5. /\ Strtok(text, delimiters).token =
             CASE from = 0 \/ to = from -> <<>>
               [] from # 0 /\ to = 0    -> SubSeq(text, from, Len(text))
               [] OTHER                 -> SubSeq(text, from, to - 1)
      /\ Strtok(text, delimiters).rest =
             CASE from = 0 \/ to = from -> <<>>
               [] from # 0 /\ to = 0    -> <<>>
               [] OTHER -> IF text[to] = NUL THEN <<>> ELSE SubSeq(text, to + 1, Len(text))
  BY DEF Strtok
<1>. QED
  <2>. HIDE DEF from, to
  <2>. QED
    BY <1>4, <1>5

-----------------------------------------------------------------------------
(***************************************************************************)
(* The parts of the invariant.                                             *)
(***************************************************************************)

Steps == {"prompt", "read", "split", "execute", "receive", "binary"}

Numbers ==
    /\ pc \in Steps
    /\ x \in 0..LineSize
    /\ command \in Commands \cup {None}
    /\ Len(sent) <= 3
    /\ Len(typed) <= MaxAhead
    /\ session \in 0..MaxLines

LEMMA Sizes == LineSize \in Nat \ {0} /\ MaxAhead \in Nat /\ MaxLines \in Nat
BY LineAssumption, Zenon

LEMMA TypesOf ==
    ASSUME TextInv
    PROVE  Numbers /\ TextValues /\ debugEnabled \in BOOLEAN /\ LinePlace
BY Zenon DEF TextInv, TextTypeOK, Numbers, Steps

LEMMA TypesMake ==
    ASSUME Numbers', TextValues', debugEnabled' \in BOOLEAN
    PROVE  TextTypeOK'
<1>1. \A n \in Nat : \A b \in [1..n -> Characters] : b \in Seq(Characters) /\ Len(b) = n
  OBVIOUS
<1>2. Len(commandBuffer') = LineSize
  BY <1>1, Sizes DEF TextValues
<1>3. \A k \in DOMAIN addresses' : addresses'[k] \in 0..(IntSize \div 2 - 1)
  <2>. DEFINE R == 0..(IntSize \div 2 - 1)
  <2>1. addresses' \in [poll : R, select : R, device : R]
    BY Zenon DEF TextValues
  <2>. HIDE DEF R
  <2>2. \A k \in DOMAIN addresses' : addresses'[k] \in R
    BY <2>1
  <2>. QED
    BY <2>2, Zenon DEF R
<1>. QED
  BY <1>2, <1>3, Zenon DEF TextTypeOK, Numbers, Steps

LEMMA FrameTypes ==
    /\ ResetFrame \in Seq(Nat)
    /\ ScreenFrame \in Seq(Nat)
    /\ \A cu \in Nat, device \in Nat : AddressFrame(cu, device) \in Seq(Nat)
<1>1. Opening \in Seq(Nat)
  BY DEF Opening, PAD, LPAD, SYN
<1>2. <<SYN, EOT, PAD>> \in Seq(Nat)
  BY DEF SYN, EOT, PAD
<1>3. HelloWorld \in Seq(Nat)
  BY DEF HelloWorld
<1>4. <<SYN, DLE, STX>> \in Seq(Nat) /\ <<DLE, ETX, 108, 22, PAD>> \in Seq(Nat)
  BY DEF SYN, DLE, STX, ETX, PAD
<1>5. ASSUME NEW cu \in Nat, NEW device \in Nat
      PROVE  <<SYN, cu, cu, device, device, ENQ, PAD>> \in Seq(Nat)
  BY DEF SYN, ENQ, PAD
<1>6. \A s \in Seq(Nat), t \in Seq(Nat) : s \o t \in Seq(Nat)
  OBVIOUS
<1>. QED
  BY <1>1, <1>2, <1>3, <1>4, <1>5, <1>6, Zenon DEF ResetFrame, ScreenFrame, AddressFrame

\* The next character of a line that others follow.
LEMMA NextChar ==
    ASSUME NEW text \in Seq(Characters), NEW k \in 1..Len(text), NEW r \in Seq(Characters),
           NEW s, s = SubSeq(text, k, Len(text)) \o r
    PROVE  /\ Head(s) = text[k] /\ text[k] \in Characters
           /\ Tail(s) = SubSeq(text, k + 1, Len(text)) \o r
<1>1. PICK n \in Nat : n = Len(text)
  OBVIOUS
<1>2. k \in Nat \ {0} /\ k <= n
  BY <1>1
<1>3. PICK t \in Seq(Characters) : t = SubSeq(text, k + 1, n)
  <2>1. \A j \in (k + 1)..n : text[j] \in Characters
    BY <1>1, <1>2
  <2>2. k + 1 \in Int /\ n \in Int
    BY <1>2
  <2>3. SubSeq(text, k + 1, n) \in Seq(Characters)
    BY <2>1, <2>2, SubSeqProperties, Zenon
  <2>. QED
    BY <2>3
<1>4. text[k] \in Characters
  BY <1>1
<1>5. SubSeq(text, k, n) = Join(<<text[k]>>, t)
  BY <1>1, <1>2, <1>3, <1>4 DEF Join
<1>6. <<text[k]>> \in Seq(Characters) /\ Join(t, r) \in Seq(Characters)
  BY <1>4 DEF Join
<1>7. s = Join(<<text[k]>>, Join(t, r))
  <2>1. s = Join(Join(<<text[k]>>, t), r)
    BY <1>1, <1>5, Zenon DEF Join
  <2>2. Join(Join(<<text[k]>>, t), r) = Join(<<text[k]>>, Join(t, r))
    <3>1. \A u, v, w \in Seq(Characters) : Join(Join(u, v), w) = Join(u, Join(v, w))
      BY JoinAssociative
    <3>. QED
      BY <1>3, <1>6, <3>1, Zenon
  <2>. QED
    BY <2>1, <2>2, Zenon
<1>8. Head(s) = text[k] /\ Tail(s) = Join(t, r)
  BY <1>4, <1>6, <1>7, FirstElement, Zenon DEF Join
<1>. QED
  BY <1>1, <1>3, <1>4, <1>8, Zenon DEF Join

LEMMA LineEnds ==
    ASSUME NEW l \in Lines, NEW k \in 1..Len(l.text)
    PROVE  /\ k # Len(l.text) => l.text[k] # NL /\ Cursor(l.text)[k] < LineSize
           /\ k = Len(l.text) => l.text[k] = NL \/ Cursor(l.text)[k] = LineSize
<1>1. PICK n \in Nat : n = Len(l.text)
  BY LineType
<1>2. k # n => k \in 1..(n - 1)
  BY <1>1
<1>3. Last(l.text) = l.text[n]
  BY <1>1 DEF Last
<1>4. /\ \A j \in 1..(n - 1) : l.text[j] # NL /\ Cursor(l.text)[j] < LineSize
      /\ Last(l.text) = NL \/ Cursor(l.text)[n] = LineSize
  BY <1>1, LineAssumption, Zenon
<1>. QED
  BY <1>1, <1>2, <1>3, <1>4, Zenon

\* readCommand() has read k characters of the first line, the last of them
\* now, and x is still the index before it.
Reads(k) ==
    LET text == Head(typed).text IN
    /\ typed # <<>> /\ k \in 1..Len(text)
    /\ Head(toDongle) = text[k] /\ text[k] \in Characters
    /\ Tail(toDongle) = SubSeq(text, k + 1, Len(text)) \o Texts(Tail(typed))
    /\ Cursor(text)[k] = CursorAfter(x, text[k])
    /\ k # Len(text) => text[k] # NL
    /\ k = Len(text) => text[k] = NL \/ Cursor(text)[k] = LineSize

LEMMA FirstLine ==
    ASSUME TextValues, typed # <<>>
    PROVE  /\ Head(typed) \in Lines /\ Tail(typed) \in Seq(Lines)
           /\ Head(typed).text \in Seq(Characters) /\ Len(Head(typed).text) \in Nat \ {0}
           /\ Texts(Tail(typed)) \in Seq(Characters)
<1>1. typed \in Seq(Lines)
  BY Zenon DEF TextValues
<1>2. Head(typed) \in Lines /\ Tail(typed) \in Seq(Lines)
  BY <1>1, HeadTailProperties
<1>. QED
  BY <1>2, LineType, TextsType

LEMMA ReadsOne ==
    ASSUME TextInv, ReadChar
    PROVE  \E k \in 1..Len(Head(typed).text) : Reads(k)
<1>1. TextValues /\ x \in 0..LineSize /\ LineSize \in Nat /\ x < LineSize /\ pc = "read"
  BY TypesOf, Sizes, Zenon DEF Numbers, ReadChar
<1>2. toDongle # <<>>
  BY Zenon DEF ReadChar
<1>3. ASSUME typed # <<>>, NEW k \in 1..Len(Head(typed).text),
             x = Cursor(Head(typed).text)[k - 1],
             toDongle = SubSeq(Head(typed).text, k, Len(Head(typed).text))
                            \o Texts(Tail(typed))
      PROVE  Reads(k)
  <2>1. PICK text \in Seq(Characters) : text = Head(typed).text
    BY <1>1, <1>3, FirstLine
  <2>2. Texts(Tail(typed)) \in Seq(Characters) /\ Head(typed) \in Lines
    BY <1>1, <1>3, FirstLine
  <2>3. k \in 1..Len(text)
    BY <2>1
  <2>4. /\ Head(toDongle) = text[k] /\ text[k] \in Characters
        /\ Tail(toDongle) = SubSeq(text, k + 1, Len(text)) \o Texts(Tail(typed))
    <3>1. toDongle = SubSeq(text, k, Len(text)) \o Texts(Tail(typed))
      BY <1>3, <2>1, Zenon
    <3>2. PICK r \in Seq(Characters) : r = Texts(Tail(typed))
      BY <2>2
    <3>3. toDongle = SubSeq(text, k, Len(text)) \o r
      BY <3>1, <3>2, Zenon
    <3>4. /\ Head(toDongle) = text[k] /\ text[k] \in Characters
          /\ Tail(toDongle) = SubSeq(text, k + 1, Len(text)) \o r
      BY <2>3, <3>3, NextChar
    <3>. QED
      BY <3>2, <3>4, Zenon
  <2>5. Cursor(text)[k] = CursorAfter(x, text[k])
    BY <1>3, <2>1, <2>3, CursorStep, Zenon
  <2>6. /\ k # Len(text) => text[k] # NL
        /\ k = Len(text) => text[k] = NL \/ Cursor(text)[k] = LineSize
    BY <2>1, <2>2, <2>3, LineEnds, Zenon
  <2>. QED
    BY <1>3, <2>1, <2>3, <2>4, <2>5, <2>6, Zenon DEF Reads
<1>4. CASE LineBegins
  <2>1. typed # <<>>
    BY <1>2, <1>4, TextsEmpty, Zenon DEF LineBegins
  <2>2. PICK text \in Seq(Characters), n \in Nat \ {0} :
              text = Head(typed).text /\ n = Len(text)
    BY <1>1, <2>1, FirstLine
  <2>3. x = 0 /\ toDongle = text \o Texts(Tail(typed))
    BY <1>1, <1>4, <2>1, <2>2, TextsHeadTail, Zenon DEF LineBegins, TextValues
  <2>4. Cursor(text)[0] = 0 /\ 1 - 1 = 0 /\ 1 \in 1..n
    BY <2>2, CursorStep
  <2>5. SubSeq(text, 1, n) = text
    BY <2>2
  <2>. QED
    BY <1>3, <2>1, <2>2, <2>3, <2>4, <2>5, Zenon
<1>5. CASE \E j \in 1..Len(Head(typed).text) : InLine(j)
  <2>1. PICK j \in 1..Len(Head(typed).text) : InLine(j)
    BY <1>5
  <2>2. typed # <<>>
    BY <2>1, Zenon DEF InLine
  <2>3. PICK text \in Seq(Characters), n \in Nat \ {0} :
              text = Head(typed).text /\ n = Len(text)
    BY <1>1, <2>2, FirstLine
  <2>4. /\ x = Cursor(text)[j]
        /\ toDongle = SubSeq(text, j + 1, n) \o Texts(Tail(typed))
        /\ j = n => x = LineSize
    BY <2>1, <2>3, Zenon DEF InLine
  <2>5. j \in Nat /\ j # n /\ j <= n
    BY <1>1, <2>1, <2>3, <2>4
  <2>6. j + 1 \in 1..n /\ (j + 1) - 1 = j
    BY <2>3, <2>5
  <2>. QED
    BY <1>3, <2>2, <2>3, <2>4, <2>6, Zenon
<1>. QED
  BY <1>1, <1>4, <1>5, TypesOf, Zenon DEF LinePlace

-----------------------------------------------------------------------------
(***************************************************************************)
(* Every step keeps the invariant.                                         *)
(***************************************************************************)

LEMMA ReadValues ==
    ASSUME TextInv, ReadChar, x' \in 0..LineSize, pc' \in Steps,
           commandBuffer' \in [1..LineSize -> Characters]
    PROVE  TextTypeOK' /\ TextValues'
<1>1. Numbers /\ TextValues /\ debugEnabled \in BOOLEAN
  BY TypesOf
<1>2. /\ toDongle' = Tail(toDongle) /\ toDongle # <<>> /\ command' = command
      /\ rest' = rest /\ parms' = parms /\ addresses' = addresses
      /\ debugEnabled' = debugEnabled /\ sent' = sent /\ typed' = typed
      /\ session' = session
  BY Zenon DEF ReadChar, parseVars, objectVars
<1>3. toDongle' \in Seq(Characters)
  <2>1. toDongle \in Seq(Characters)
    BY <1>1, Zenon DEF TextValues
  <2>. QED
    BY <1>2, <2>1
<1>4. Numbers'
  BY <1>1, <1>2, Zenon DEF Numbers
<1>5. TextValues'
  BY <1>1, <1>2, <1>3, Zenon DEF TextValues
<1>6. debugEnabled' \in BOOLEAN
  BY <1>1, <1>2, Zenon
<1>. QED
  BY <1>4, <1>5, <1>6, TypesMake, Zenon

\* In the buffer.
LEMMA Stores ==
    ASSUME TextInv, x < LineSize, NEW c \in Characters, Store(c)
    PROVE  /\ x' \in 0..LineSize /\ x' = x + 1
           /\ commandBuffer' \in [1..LineSize -> Characters]
<1>1. x \in 0..LineSize /\ LineSize \in Nat /\ commandBuffer \in [1..LineSize -> Characters]
  BY TypesOf, Sizes, Zenon DEF Numbers, TextValues
<1>2. x + 1 \in 1..LineSize
  BY <1>1
<1>3. x' = x + 1 /\ x' \in 0..LineSize
  BY <1>1, <1>2 DEF Store
<1>4. commandBuffer' = [commandBuffer EXCEPT ![x + 1] = c]
  BY Zenon DEF Store
<1>. QED
  BY <1>1, <1>2, <1>3, <1>4

\* Inside the line, or at its end because it fills the buffer.
LEMMA StaysInLine ==
    ASSUME TextInv, ReadChar, pc' = "read", x' \in 0..LineSize,
           NEW k \in 1..Len(Head(typed).text), Reads(k), Head(typed).text[k] # NL,
           x' = CursorAfter(x, Head(typed).text[k])
    PROVE  LinePlace'
<1>1. typed' = typed /\ toDongle' = Tail(toDongle)
  BY Zenon DEF ReadChar
<1>2. /\ typed' # <<>> /\ x' = Cursor(Head(typed').text)[k]
      /\ toDongle' = SubSeq(Head(typed').text, k + 1, Len(Head(typed').text))
                        \o Texts(Tail(typed'))
      /\ k = Len(Head(typed').text) => x' = LineSize
      /\ k \in 1..Len(Head(typed').text)
  BY <1>1, Zenon DEF Reads
<1>3. \E j \in 1..Len(Head(typed').text) : InLine(j)'
  BY <1>2, Zenon DEF InLine
<1>4. pc' \notin {"prompt", "binary", "split", "execute", "receive"}
  OBVIOUS
<1>. QED
  BY <1>3, <1>4, Zenon DEF LinePlace

LEMMA ReadKeeps ==
    ASSUME TextInv, CarriageReturn \/ NewLine \/ BackSpace \/ OtherChar
    PROVE  TextInv'
<1>1. ReadChar
  BY Zenon DEF CarriageReturn, NewLine, BackSpace, OtherChar
<1>2. PICK k \in 1..Len(Head(typed).text) : Reads(k)
  BY <1>1, ReadsOne
<1>3. PICK c \in Characters : c = Head(typed).text[k] /\ c = Head(toDongle)
  BY <1>2, Zenon DEF Reads
<1>4. /\ x \in 0..LineSize /\ LineSize \in Nat /\ x < LineSize /\ pc = "read"
      /\ commandBuffer \in [1..LineSize -> Characters]
      /\ "read" \in Steps /\ "split" \in Steps
  BY <1>1, TypesOf, Sizes, Zenon DEF Numbers, TextValues, ReadChar, Steps
<1>5. CR # NL /\ BS # NL /\ CR # BS
  BY DEF CR, NL, BS
<1>6. CASE CarriageReturn
  <2>1. c = CR /\ pc' = pc /\ x' = x /\ commandBuffer' = commandBuffer
    BY <1>3, <1>6, Zenon DEF CarriageReturn, lineVars
  <2>2. x' = CursorAfter(x, c) /\ c # NL
    BY <1>5, <2>1, Zenon DEF CursorAfter
  <2>3. x' \in 0..LineSize /\ pc' = "read" /\ pc' \in Steps
        /\ commandBuffer' \in [1..LineSize -> Characters]
    BY <1>4, <2>1, Zenon
  <2>. QED
    BY <1>1, <1>2, <1>3, <2>2, <2>3, ReadValues, StaysInLine, Zenon DEF TextInv
<1>7. CASE BackSpace
  <2>1. c = BS /\ pc' = pc /\ x' = (IF x > 0 THEN x - 1 ELSE x)
        /\ commandBuffer' = commandBuffer
    BY <1>3, <1>7, Zenon DEF BackSpace
  <2>2. x' = CursorAfter(x, c) /\ c # NL
    BY <1>5, <2>1 DEF CursorAfter
  <2>3. x' \in 0..LineSize
    BY <1>4, <2>1
  <2>4. pc' = "read" /\ pc' \in Steps /\ commandBuffer' \in [1..LineSize -> Characters]
    BY <1>4, <2>1, Zenon
  <2>. QED
    BY <1>1, <1>2, <1>3, <2>2, <2>3, <2>4, ReadValues, StaysInLine, Zenon DEF TextInv
<1>8. CASE OtherChar
  <2>1. c \notin {CR, NL, BS} /\ pc' = pc /\ Store(Upper(c))
    BY <1>3, <1>8, Zenon DEF OtherChar
  <2>2. Upper(c) \in Characters
    BY Zenon DEF Upper, Characters
  <2>3. /\ x' \in 0..LineSize /\ x' = x + 1
        /\ commandBuffer' \in [1..LineSize -> Characters]
    BY <1>4, <2>1, <2>2, Stores
  <2>4. x' = CursorAfter(x, c) /\ c # NL
    BY <2>1, <2>3 DEF CursorAfter
  <2>5. pc' = "read" /\ pc' \in Steps
    BY <1>4, <2>1, Zenon
  <2>. QED
    BY <1>1, <1>2, <1>3, <2>3, <2>4, <2>5, ReadValues, StaysInLine, Zenon DEF TextInv
<1>9. CASE NewLine
  <2>1. c = NL /\ pc' = "split" /\ Store(NUL)
    BY <1>3, <1>9, Zenon DEF NewLine
  <2>2. NUL \in Characters
    BY Zenon DEF Characters
  <2>3. x' \in 0..LineSize /\ commandBuffer' \in [1..LineSize -> Characters]
    BY <1>4, <2>1, <2>2, Stores
  <2>4. /\ typed # <<>> /\ k = Len(Head(typed).text)
        /\ Tail(toDongle) = SubSeq(Head(typed).text, k + 1, Len(Head(typed).text))
                                \o Texts(Tail(typed))
    BY <1>2, <1>3, <2>1, Zenon DEF Reads
  <2>5. /\ Head(typed).text \in Seq(Characters) /\ Len(Head(typed).text) \in Nat
        /\ Texts(Tail(typed)) \in Seq(Characters)
    BY <2>4, TypesOf, FirstLine
  <2>6. SubSeq(Head(typed).text, k + 1, Len(Head(typed).text)) = <<>>
    BY <2>4, <2>5, SubSeqEmpty
  <2>7. Tail(toDongle) = Texts(Tail(typed))
    BY <2>4, <2>5, <2>6
  <2>8. LineEnded'
    <3>1. typed' = typed /\ toDongle' = Tail(toDongle)
      BY <1>1, Zenon DEF ReadChar
    <3>. QED
      BY <2>4, <2>7, <3>1, Zenon DEF LineEnded
  <2>9. LinePlace'
    BY <2>1, <2>8 DEF LinePlace
  <2>. QED
    BY <1>1, <1>4, <2>1, <2>3, <2>9, ReadValues, Zenon DEF TextInv
<1>. QED
  BY <1>6, <1>7, <1>8, <1>9

LEMMA UserTypesKeeps ==
    ASSUME TextInv, NEW l \in Lines, UserTypes(l)
    PROVE  TextInv'
<1>1. /\ Numbers /\ TextValues /\ debugEnabled \in BOOLEAN /\ LinePlace
      /\ l.text \in Seq(Characters) /\ typed \in Seq(Lines)
      /\ toDongle \in Seq(Characters) /\ Texts(typed) \in Seq(Characters)
  BY TypesOf, LineType, TextsType, Zenon DEF TextValues
<1>2. /\ toDongle' = toDongle \o l.text /\ typed' = Append(typed, l)
      /\ Len(typed) < MaxAhead /\ pc # "binary"
      /\ pc' = pc /\ x' = x /\ commandBuffer' = commandBuffer /\ command' = command
      /\ rest' = rest /\ parms' = parms /\ addresses' = addresses
      /\ debugEnabled' = debugEnabled /\ sent' = sent
  BY Zenon DEF UserTypes, lineVars, parseVars, objectVars
<1>3. session' \in 0..MaxLines
  <2>1. session \in 0..MaxLines /\ MaxLines \in Nat
    BY <1>1, Sizes, Zenon DEF Numbers
  <2>2. session' = session \/ (session < MaxLines /\ session' = session + 1)
    BY Zenon DEF UserTypes
  <2>. QED
    BY <2>1, <2>2
<1>4. typed' \in Seq(Lines) /\ Len(typed') = Len(typed) + 1 /\ Len(typed) \in Nat
  BY <1>1, <1>2, AppendProperties
<1>5. toDongle' \in Seq(Characters)
  BY <1>1, <1>2
<1>6. Numbers'
  <2>1. Len(typed') <= MaxAhead
    BY <1>2, <1>4, Sizes
  <2>. QED
    BY <1>1, <1>2, <1>3, <2>1, Zenon DEF Numbers
<1>7. TextValues'
  BY <1>1, <1>2, <1>4, <1>5, Zenon DEF TextValues
<1>8. debugEnabled' \in BOOLEAN
  BY <1>1, <1>2, Zenon
<1>9. ASSUME typed # <<>>
      PROVE  /\ typed' # <<>> /\ Head(typed') = Head(typed)
             /\ Texts(Tail(typed')) = Texts(Tail(typed)) \o l.text
  <2>1. /\ typed' # <<>> /\ Head(typed') = Head(typed)
        /\ Tail(typed') = Append(Tail(typed), l)
    BY <1>1, <1>2, <1>9
  <2>2. Tail(typed) \in Seq(Lines)
    BY <1>1, <1>9
  <2>. QED
    BY <2>1, <2>2, TextsAppend, Zenon
<1>10. LineBegins => LineBegins'
  <2>1. Texts(typed') = Texts(typed) \o l.text
    BY <1>1, <1>2, TextsAppend, Zenon
  <2>. QED
    BY <1>2, <2>1, Zenon DEF LineBegins
<1>11. LineEnded => LineEnded'
  BY <1>2, <1>9, Zenon DEF LineEnded
<1>12. ASSUME NEW k \in 1..Len(Head(typed).text), InLine(k)
       PROVE  \E j \in 1..Len(Head(typed').text) : InLine(j)'
  <2>1. typed # <<>>
    BY <1>12, Zenon DEF InLine
  <2>2. PICK text \in Seq(Characters), r \in Seq(Characters) :
              text = Head(typed).text /\ r = Texts(Tail(typed))
    BY <1>1, <2>1, FirstLine
  <2>3. PICK s \in Seq(Characters) : s = SubSeq(text, k + 1, Len(text))
    <3>1. k + 1 \in Nat \ {0} /\ Len(text) \in Nat
      BY <2>2
    <3>2. \A j \in (k + 1)..Len(text) : text[j] \in Characters
      BY <3>1
    <3>3. SubSeq(text, k + 1, Len(text)) \in Seq(Characters)
      BY <3>1, <3>2, SubSeqProperties
    <3>. QED
      BY <3>3
  <2>4. toDongle = Join(s, r)
    BY <1>12, <2>2, <2>3, Zenon DEF InLine, Join
  <2>5. toDongle' = Join(s, Join(r, l.text))
    <3>1. toDongle' = Join(Join(s, r), l.text)
      BY <1>2, <2>4, Zenon DEF Join
    <3>2. \A u, v, w \in Seq(Characters) : Join(Join(u, v), w) = Join(u, Join(v, w))
      BY JoinAssociative
    <3>3. Join(Join(s, r), l.text) = Join(s, Join(r, l.text))
      <4>1. l.text \in Seq(Characters) /\ r \in Seq(Characters) /\ s \in Seq(Characters)
        BY <1>1
      <4>. QED
        BY <3>2, <4>1
    <3>. QED
      BY <3>1, <3>3, Zenon
  <2>6. /\ typed' # <<>> /\ Head(typed').text = text /\ Texts(Tail(typed')) = Join(r, l.text)
        /\ k \in 1..Len(Head(typed').text)
    BY <1>9, <2>1, <2>2, Zenon DEF Join
  <2>7. toDongle' = SubSeq(text, k + 1, Len(text)) \o Texts(Tail(typed'))
    BY <2>3, <2>5, <2>6, Zenon DEF Join
  <2>8. x' = Cursor(text)[k] /\ (k = Len(text) => x' = LineSize)
    BY <1>2, <1>12, <2>2, Zenon DEF InLine
  <2>9. InLine(k)'
    BY <2>6, <2>7, <2>8, Zenon DEF InLine
  <2>. QED
    BY <2>6, <2>9, Zenon
<1>13. LinePlace'
  BY <1>1, <1>2, <1>10, <1>11, <1>12, Zenon DEF LinePlace
<1>. QED
  BY <1>6, <1>7, <1>8, <1>13, TypesMake, Zenon DEF TextInv

LEMMA PromptKeeps ==
    ASSUME TextInv, Prompt
    PROVE  TextInv'
<1>1. Numbers /\ TextValues /\ debugEnabled \in BOOLEAN /\ LinePlace
  BY TypesOf
<1>2. /\ pc = "prompt" /\ pc' = "read" /\ toDongle' = toDongle /\ typed' = typed
      /\ x' = x /\ commandBuffer' = commandBuffer /\ command' = command
      /\ rest' = rest /\ parms' = parms /\ addresses' = addresses
      /\ debugEnabled' = debugEnabled /\ sent' = sent /\ session' = session
  BY Zenon DEF Prompt, lineVars, parseVars, objectVars
<1>3. Numbers'
  BY <1>1, <1>2, Zenon DEF Numbers, Steps
<1>4. TextValues'
  BY <1>1, <1>2, Zenon DEF TextValues
<1>5. debugEnabled' \in BOOLEAN
  BY <1>1, <1>2, Zenon
<1>6. LineBegins
  BY <1>1, <1>2, Zenon DEF LinePlace
<1>7. LineBegins'
  BY <1>2, <1>6, Zenon DEF LineBegins
<1>8. pc' \notin {"prompt", "binary", "split", "execute", "receive"}
  BY <1>2
<1>9. LinePlace'
  BY <1>7, <1>8, Zenon DEF LinePlace
<1>. QED
  BY <1>3, <1>4, <1>5, <1>9, TypesMake, Zenon DEF TextInv

\* The line has been read and its command is not finished.
Behind == {"split", "execute", "receive"}

LEMMA StaysBehind ==
    ASSUME TextInv, pc \in Behind, pc' \in Behind,
           toDongle' = toDongle, typed' = typed
    PROVE  LinePlace'
<1>1. LineEnded
  BY TypesOf, Zenon DEF LinePlace, Behind
<1>2. LineEnded'
  BY <1>1, Zenon DEF LineEnded
<1>3. pc' \notin {"prompt", "binary", "read"}
  BY DEF Behind
<1>. QED
  BY <1>2, <1>3, Zenon DEF LinePlace

\* The command is finished.
LEMMA FinishKeeps ==
    ASSUME TextInv, LineEnded, Forget, typed' = Tail(typed), toDongle' = toDongle,
           commandBuffer' = commandBuffer, session' = session, debugEnabled' \in BOOLEAN,
           pc' \in {"prompt", "binary"},
           addresses' \in [poll : 0..(IntSize \div 2 - 1), select : 0..(IntSize \div 2 - 1),
                           device : 0..(IntSize \div 2 - 1)]
    PROVE  TextInv'
<1>1. Numbers /\ TextValues
  BY TypesOf
<1>2. x' = 0 /\ command' = None /\ rest' = <<>> /\ parms' = <<>> /\ sent' = <<>>
  BY Zenon DEF Forget
<1>3. typed' \in Seq(Lines) /\ Len(typed') <= MaxAhead
  <2>1. typed \in Seq(Lines) /\ typed # <<>> /\ Len(typed) <= MaxAhead /\ MaxAhead \in Nat
    BY <1>1, Sizes, Zenon DEF Numbers, TextValues, LineEnded
  <2>2. Tail(typed) \in Seq(Lines) /\ Len(Tail(typed)) = Len(typed) - 1 /\ Len(typed) \in Nat
    BY <2>1, HeadTailProperties
  <2>. QED
    BY <2>1, <2>2
<1>4. Len(<<>>) <= 3 /\ 0 \in 0..LineSize
  BY Sizes
<1>5. Numbers'
  <2>1. pc' \in Steps
    BY DEF Steps
  <2>2. session' \in 0..MaxLines /\ Len(sent') <= 3 /\ x' \in 0..LineSize
        /\ command' \in Commands \cup {None}
    BY <1>1, <1>2, <1>4, Zenon DEF Numbers
  <2>. QED
    BY <1>3, <2>1, <2>2, Zenon DEF Numbers
<1>6. TextValues'
  <2>1. <<>> \in Seq(Characters) /\ <<>> \in Seq(Ints) /\ <<>> \in Seq(Seq(Nat))
    OBVIOUS
  <2>. QED
    BY <1>1, <1>2, <1>3, <2>1, Zenon DEF TextValues
<1>7. LineBegins'
  BY <1>2, Zenon DEF LineBegins, LineEnded
<1>8. pc' \notin {"read", "split", "execute", "receive"}
  OBVIOUS
<1>9. LinePlace'
  BY <1>7, <1>8, Zenon DEF LinePlace
<1>. QED
  BY <1>5, <1>6, <1>9, TypesMake, Zenon DEF TextInv

\* A buffer that is full has the whole line, for the lines of a user.
LEMMA TooLongKeeps ==
    ASSUME TextInv, CommandTooLong
    PROVE  TextInv'
<1>1. /\ Numbers /\ TextValues /\ debugEnabled \in BOOLEAN /\ LinePlace
      /\ addresses \in [poll : 0..(IntSize \div 2 - 1), select : 0..(IntSize \div 2 - 1),
                        device : 0..(IntSize \div 2 - 1)]
  BY TypesOf, Zenon DEF TextValues
<1>2. /\ pc \in {"read", "split"} /\ x >= LineSize /\ pc' = "prompt" /\ Forget
      /\ typed' = Tail(typed) /\ session' = session /\ toDongle' = toDongle
      /\ commandBuffer' = commandBuffer /\ debugEnabled' = debugEnabled
      /\ addresses' = addresses
  BY Zenon DEF CommandTooLong, Done, objectVars
<1>3. x = LineSize /\ x # 0
  <2>1. x \in 0..LineSize
    BY <1>1, Zenon DEF Numbers
  <2>. QED
    BY <1>2, <2>1, Sizes
<1>4. LineEnded
  <2>1. CASE pc = "split"
    BY <1>1, <2>1, Zenon DEF LinePlace
  <2>2. CASE pc = "read"
    <3>1. PICK k \in 1..Len(Head(typed).text) : InLine(k)
      BY <1>1, <1>3, <2>2, Zenon DEF LinePlace, LineBegins
    <3>2. typed # <<>>
      BY <3>1, Zenon DEF InLine
    <3>3. PICK text \in Seq(Characters), r \in Seq(Characters), n \in Nat \ {0} :
                text = Head(typed).text /\ r = Texts(Tail(typed)) /\ n = Len(text)
      BY <1>1, <3>2, FirstLine
    <3>4. x = Cursor(text)[k] /\ toDongle = SubSeq(text, k + 1, n) \o r
      BY <3>1, <3>3, Zenon DEF InLine
    <3>5. k = n
      <4>1. Head(typed) \in Lines
        BY <1>1, <3>2, FirstLine
      <4>2. k # n => Cursor(text)[k] < LineSize
        BY <3>3, <4>1, LineEnds
      <4>. QED
        BY <1>3, <3>4, <4>2, Sizes
    <3>6. SubSeq(text, k + 1, n) = <<>>
      BY <3>5, SubSeqEmpty
    <3>7. toDongle = r
      <4>1. \A u \in Seq(Characters) : <<>> \o u = u
        OBVIOUS
      <4>. QED
        BY <3>3, <3>4, <3>6, <4>1, Zenon
    <3>. QED
      BY <3>2, <3>3, <3>7, Zenon DEF LineEnded
  <2>. QED
    BY <1>2, <2>1, <2>2
<1>. QED
  BY <1>1, <1>2, <1>4, FinishKeeps, Zenon

LEMMA SplitKeeps ==
    ASSUME TextInv, Split
    PROVE  TextInv'
<1>1. Numbers /\ TextValues /\ debugEnabled \in BOOLEAN
  BY TypesOf
<1>2. PICK first : /\ first = Strtok(commandBuffer, {" ", ","})
                   /\ command' \in CommandsOf(first.token) /\ rest' = first.rest
  BY Zenon DEF Split
<1>3. /\ pc = "split" /\ pc' = "execute" /\ toDongle' = toDongle /\ typed' = typed
      /\ x' = x /\ commandBuffer' = commandBuffer /\ parms' = parms
      /\ addresses' = addresses /\ debugEnabled' = debugEnabled /\ sent' = sent
      /\ session' = session
  BY Zenon DEF Split, lineVars, objectVars
<1>4. rest' \in Seq(Characters)
  <2>1. \A n \in Nat : \A b \in [1..n -> Characters] : b \in Seq(Characters)
    OBVIOUS
  <2>2. commandBuffer \in Seq(Characters)
    BY <1>1, <2>1, Sizes DEF TextValues
  <2>. QED
    BY <1>2, <2>2, StrtokType, Zenon
<1>5. command' \in Commands \cup {None}
  BY <1>2, Zenon DEF CommandsOf, Commands
<1>6. Numbers'
  BY <1>1, <1>3, <1>5, Zenon DEF Numbers, Steps
<1>7. TextValues'
  BY <1>1, <1>3, <1>4, Zenon DEF TextValues
<1>8. debugEnabled' \in BOOLEAN
  BY <1>1, <1>3, Zenon
<1>9. LinePlace'
  BY <1>3, StaysBehind, Zenon DEF Behind
<1>. QED
  BY <1>6, <1>7, <1>8, <1>9, TypesMake, Zenon DEF TextInv

LEMMA GetParamKeeps ==
    ASSUME TextInv, GetParam
    PROVE  TextInv'
<1>1. Numbers /\ TextValues /\ debugEnabled \in BOOLEAN
  BY TypesOf
<1>2. PICK next : /\ next = Strtok(rest, {","}) /\ rest' = next.rest
                  /\ \E parm \in ParamValues(next.token) : parms' = Append(parms, parm)
  BY Zenon DEF GetParam
<1>3. PICK parm \in ParamValues(next.token) : parms' = Append(parms, parm)
  BY <1>2
<1>4. /\ pc = "execute" /\ pc' = pc /\ toDongle' = toDongle /\ typed' = typed
      /\ x' = x /\ commandBuffer' = commandBuffer /\ command' = command
      /\ addresses' = addresses /\ debugEnabled' = debugEnabled /\ sent' = sent
      /\ session' = session
  BY Zenon DEF GetParam, lineVars, objectVars
<1>5. next.token \in Seq(Characters) /\ rest' \in Seq(Characters)
  <2>1. rest \in Seq(Characters)
    BY <1>1, Zenon DEF TextValues
  <2>. QED
    BY <1>2, <2>1, StrtokType, Zenon
<1>6. parms' \in Seq(Ints)
  <2>1. parm \in Ints
    BY <1>5, ParamType, Zenon
  <2>2. parms \in Seq(Ints)
    BY <1>1, Zenon DEF TextValues
  <2>. QED
    BY <1>3, <2>1, <2>2, AppendProperties
<1>7. Numbers'
  BY <1>1, <1>4, Zenon DEF Numbers
<1>8. TextValues'
  BY <1>1, <1>4, <1>5, <1>6, Zenon DEF TextValues
<1>9. debugEnabled' \in BOOLEAN
  BY <1>1, <1>4, Zenon
<1>10. LinePlace'
  BY <1>4, StaysBehind, Zenon DEF Behind
<1>. QED
  BY <1>7, <1>8, <1>9, <1>10, TypesMake, Zenon DEF TextInv

LEMMA IsAddress ==
    ASSUME NEW v \in Int, 0 <= v, v <= 32767
    PROVE  v \in 0..(IntSize \div 2 - 1)
<1>1. PICK h \in Int : h = IntSize \div 2 /\ h = 32768
  BY IntRange
<1>2. v \in 0..(h - 1)
  BY <1>1
<1>. QED
  BY <1>1, <1>2

LEMMA SendsKeeps ==
    ASSUME TextInv, pc \in Behind, pc' \in Behind, NEW frame \in Seq(Nat),
           Len(sent) <= 2, Sends(frame)
    PROVE  TextInv'
<1>1. Numbers /\ TextValues /\ debugEnabled \in BOOLEAN
  BY TypesOf
<1>2. /\ sent' = Append(sent, frame) /\ toDongle' = toDongle /\ typed' = typed
      /\ x' = x /\ commandBuffer' = commandBuffer /\ command' = command
      /\ rest' = rest /\ parms' = parms /\ addresses' = addresses
      /\ debugEnabled' = debugEnabled /\ session' = session
  BY Zenon DEF Sends, lineVars, parseVars, objectVars
<1>3. sent' \in Seq(Seq(Nat)) /\ Len(sent') <= 3
  <2>1. sent \in Seq(Seq(Nat))
    BY <1>1, Zenon DEF TextValues
  <2>2. sent' \in Seq(Seq(Nat)) /\ Len(sent') = Len(sent) + 1 /\ Len(sent) \in Nat
    BY <1>2, <2>1, AppendProperties
  <2>. QED
    BY <2>2
<1>4. pc' \in Steps
  BY DEF Steps, Behind
<1>5. Numbers'
  BY <1>1, <1>2, <1>3, <1>4, Zenon DEF Numbers
<1>6. TextValues'
  BY <1>1, <1>2, <1>3, Zenon DEF TextValues
<1>7. debugEnabled' \in BOOLEAN
  BY <1>1, <1>2, Zenon
<1>8. LinePlace'
  BY <1>2, StaysBehind, Zenon
<1>. QED
  BY <1>5, <1>6, <1>7, <1>8, TypesMake, Zenon DEF TextInv

LEMMA FramesKeep ==
    ASSUME TextInv, ExecReset \/ ExecPoll \/ ExecSelect \/ ExecWrite
    PROVE  TextInv'
<1>1. /\ addresses.poll % 256 \in Nat /\ addresses.select % 256 \in Nat
      /\ addresses.device % 256 \in Nat
  <2>1. addresses \in [poll : 0..(IntSize \div 2 - 1), select : 0..(IntSize \div 2 - 1),
                       device : 0..(IntSize \div 2 - 1)]
    BY TypesOf, Zenon DEF TextValues
  <2>2. \A v \in 0..(IntSize \div 2 - 1) : v % 256 \in Nat
    BY IntRange
  <2>. QED
    BY <2>1, <2>2
<1>2. /\ AddressFrame(addresses.poll % 256, addresses.device % 256) \in Seq(Nat)
      /\ AddressFrame(addresses.select % 256, addresses.device % 256) \in Seq(Nat)
      /\ ResetFrame \in Seq(Nat) /\ ScreenFrame \in Seq(Nat)
  BY <1>1, FrameTypes, Zenon
<1>3. pc \in Behind /\ pc' \in Behind
  <2>1. pc = "execute" /\ (pc' = pc \/ pc' = "receive")
    BY Zenon DEF ExecReset, ExecPoll, ExecSelect, ExecWrite, Execute
  <2>. QED
    BY <2>1, Zenon DEF Behind
<1>4. CASE ExecReset
  <2>1. Len(sent) <= 2
    BY <1>4 DEF ExecReset
  <2>. QED
    BY <1>2, <1>3, <1>4, <2>1, SendsKeeps, Zenon DEF ExecReset
<1>5. CASE ExecPoll
  <2>1. Len(sent) <= 2
    BY <1>5 DEF ExecPoll
  <2>. QED
    BY <1>2, <1>3, <1>5, <2>1, SendsKeeps, Zenon DEF ExecPoll
<1>6. CASE ExecSelect
  <2>1. Len(sent) <= 2
    BY <1>6 DEF ExecSelect
  <2>. QED
    BY <1>2, <1>3, <1>6, <2>1, SendsKeeps, Zenon DEF ExecSelect
<1>7. CASE ExecWrite
  <2>1. Len(sent) <= 2
    BY <1>7 DEF ExecWrite
  <2>. QED
    BY <1>2, <1>3, <1>7, <2>1, SendsKeeps, Zenon DEF ExecWrite
<1>. QED
  BY <1>4, <1>5, <1>6, <1>7

LEMMA CommandsKeep ==
    ASSUME TextInv, \/ InvalidCommand \/ DebugCommand \/ AddrCommand
                    \/ ExecRead \/ PrintCommand \/ BinCommand
    PROVE  TextInv'
<1>. DEFINE Address == 0..(IntSize \div 2 - 1)
            Addresses == [poll : Address, select : Address, device : Address]
<1>1. /\ debugEnabled \in BOOLEAN /\ LinePlace /\ parms \in Seq(Ints)
      /\ addresses \in Addresses
  BY TypesOf, Zenon DEF TextValues
<1>2. pc \in {"execute", "receive"}
  BY DEF InvalidCommand, DebugCommand, AddrCommand, ExecRead, PrintCommand, BinCommand,
         Execute
<1>3. LineEnded
  <2>1. pc \in {"split", "execute", "receive"}
    BY <1>2
  <2>. QED
    BY <1>1, <2>1, Zenon DEF LinePlace
<1>4. /\ Forget /\ typed' = Tail(typed) /\ toDongle' = toDongle
      /\ commandBuffer' = commandBuffer /\ session' = session
      /\ pc' = "prompt" \/ pc' = "binary"
  BY Zenon DEF InvalidCommand, DebugCommand, AddrCommand, ExecRead, PrintCommand,
               BinCommand, Executed, Done
<1>5. debugEnabled' \in BOOLEAN
  <2>1. debugEnabled' = debugEnabled \/ debugEnabled' = (parms[1] # 0)
    BY Zenon DEF InvalidCommand, DebugCommand, AddrCommand, ExecRead, PrintCommand,
                 BinCommand, objectVars
  <2>. QED
    BY <1>1, <2>1, Zenon
<1>6. addresses' \in Addresses
  <2>1. CASE AddrCommand
    <3>1. CASE \A k \in 1..3 : parms[k] >= 0
      <4>1. addresses' = [poll |-> parms[1], select |-> parms[2], device |-> parms[3]]
        BY <2>1, <3>1, Zenon DEF AddrCommand
      <4>2. \A k \in 1..3 : parms[k] \in Address
        <5>1. ASSUME NEW k \in 1..3
              PROVE  parms[k] \in Address
          <6>1. Len(parms) = 3
            BY <2>1, Zenon DEF AddrCommand
          <6>2. PICK v \in Ints : v = parms[k]
            <7>1. k \in 1..Len(parms)
              BY <6>1
            <7>. HIDE DEF Address
            <7>2. parms[k] \in Ints
              BY <1>1, <7>1
            <7>. QED
              BY <7>2
          <6>3. v \in Int /\ v <= 32767
            BY DEF Ints, IntSize
          <6>4. 0 <= v
            BY <3>1, <6>2, <6>3
          <6>5. v \in Address
            BY <6>3, <6>4, IsAddress
          <6>. QED
            BY <6>2, <6>5, Zenon
        <5>. QED
          BY <5>1
      <4>3. 1 \in 1..3 /\ 2 \in 1..3 /\ 3 \in 1..3
        OBVIOUS
      <4>4. parms[1] \in Address /\ parms[2] \in Address /\ parms[3] \in Address
        BY <4>2, <4>3, Zenon
      <4>. HIDE DEF Address
      <4>. QED
        BY <4>1, <4>4
    <3>2. CASE ~(\A k \in 1..3 : parms[k] >= 0)
      BY <1>1, <2>1, <3>2, Zenon DEF AddrCommand
    <3>. QED
      BY <3>1, <3>2
  <2>2. CASE ~AddrCommand
    <3>1. addresses' = addresses
      BY <2>2, Zenon DEF InvalidCommand, DebugCommand, ExecRead, PrintCommand,
                         BinCommand, objectVars
    <3>. QED
      BY <1>1, <3>1, Zenon
  <2>. QED
    BY <2>1, <2>2
<1>7. pc' \in {"prompt", "binary"}
  BY <1>4
<1>. QED
  BY <1>3, <1>4, <1>5, <1>6, <1>7, FinishKeeps, Zenon

LEMMA SettingsType ==
    NewSettings \in [poll : 0..(IntSize \div 2 - 1), select : 0..(IntSize \div 2 - 1),
                     device : 0..(IntSize \div 2 - 1)]
<1>. DEFINE Address == 0..(IntSize \div 2 - 1)
<1>1. 64 \in Address /\ 96 \in Address
  BY IsAddress
<1>. HIDE DEF Address
<1>2. NewSettings \in [poll : Address, select : Address, device : Address]
  BY <1>1 DEF NewSettings
<1>. QED
  BY <1>2 DEF Address

LEMMA FreshType == FreshBuffer \subseteq [1..LineSize -> Characters]
<1>1. NUL \in Characters /\ "?" \in Characters
  BY Zenon DEF Characters
<1>. QED
  BY <1>1 DEF FreshBuffer

LEMMA TextModeKeeps ==
    ASSUME TextInv, TextMode
    PROVE  TextInv'
<1>1. Numbers /\ TextValues /\ LinePlace
  BY TypesOf
<1>2. /\ pc = "binary" /\ pc' = "prompt" /\ addresses' = NewSettings
      /\ debugEnabled' = TRUE /\ commandBuffer' \in FreshBuffer /\ session' = 0
      /\ toDongle' = toDongle /\ x' = x /\ command' = command /\ rest' = rest
      /\ parms' = parms /\ sent' = sent /\ typed' = typed
  BY Zenon DEF TextMode, parseVars
<1>3. session' \in 0..MaxLines /\ commandBuffer' \in [1..LineSize -> Characters]
  BY <1>2, Sizes, FreshType
<1>4. Numbers'
  BY <1>1, <1>2, <1>3, Zenon DEF Numbers, Steps
<1>5. TextValues'
  BY <1>1, <1>2, <1>3, SettingsType, Zenon DEF TextValues
<1>6. debugEnabled' \in BOOLEAN
  BY <1>2, Zenon
<1>7. LineBegins'
  BY <1>1, <1>2, Zenon DEF LinePlace, LineBegins
<1>8. pc' \notin {"read", "split", "execute", "receive"}
  BY <1>2
<1>9. LinePlace'
  BY <1>7, <1>8, Zenon DEF LinePlace
<1>. QED
  BY <1>4, <1>5, <1>6, <1>9, TypesMake, Zenon DEF TextInv

LEMMA InvHoldsFirst == Init => TextInv
<1>. SUFFICES ASSUME Init PROVE TextInv
  OBVIOUS
<1>1. /\ session = 0 /\ toDongle = <<>> /\ typed = <<>> /\ sent = <<>> /\ rest = <<>>
      /\ parms = <<>> /\ pc = "prompt" /\ commandBuffer \in FreshBuffer /\ x = 0
      /\ command = None /\ addresses = NewSettings /\ debugEnabled = TRUE
  BY Zenon DEF Init
<1>2. commandBuffer \in [1..LineSize -> Characters]
  BY <1>1, FreshType
<1>3. Len(commandBuffer) = LineSize
  <2>1. \A n \in Nat : \A b \in [1..n -> Characters] : Len(b) = n
    OBVIOUS
  <2>. QED
    BY <1>2, <2>1, Sizes
<1>4. TextValues
  <2>1. /\ <<>> \in Seq(Characters) /\ <<>> \in Seq(Ints) /\ <<>> \in Seq(Seq(Nat))
        /\ <<>> \in Seq(Lines)
    OBVIOUS
  <2>. QED
    BY <1>1, <1>2, <2>1, SettingsType, Zenon DEF TextValues
<1>5. TextTypeOK
  <2>1. \A k \in DOMAIN addresses : addresses[k] \in 0..(IntSize \div 2 - 1)
    <3>. DEFINE Address == 0..(IntSize \div 2 - 1)
    <3>1. 64 \in Address /\ 96 \in Address
      BY IsAddress
    <3>. HIDE DEF Address
    <3>2. \A k \in DOMAIN NewSettings : NewSettings[k] \in Address
      BY <3>1 DEF NewSettings
    <3>. QED
      BY <1>1, <3>2, Zenon DEF Address
  <2>2. 0 \in 0..LineSize /\ 0 \in 0..MaxLines /\ Len(<<>>) <= 3 /\ Len(<<>>) <= MaxAhead
    BY Sizes
  <2>. QED
    BY <1>1, <1>3, <2>1, <2>2, Zenon DEF TextTypeOK
<1>6. LinePlace
  <2>1. LineBegins
    BY <1>1, TextsEmpty, Zenon DEF LineBegins
  <2>2. pc \notin {"read", "split", "execute", "receive"}
    BY <1>1
  <2>. QED
    BY <2>1, <2>2, Zenon DEF LinePlace
<1>. QED
  BY <1>4, <1>5, <1>6 DEF TextInv

LEMMA InvIsKept == TextInv /\ [Next]_vars => TextInv'
<1>. SUFFICES ASSUME TextInv, [Next]_vars PROVE TextInv'
  OBVIOUS
<1>1. ASSUME NEW l \in Lines, UserTypes(l)
      PROVE  TextInv'
  BY <1>1, UserTypesKeeps
<1>2. CASE Dongle
  <2>1. CASE Prompt
    BY <2>1, PromptKeeps
  <2>2. CASE CarriageReturn \/ NewLine \/ BackSpace \/ OtherChar
    BY <2>2, ReadKeeps
  <2>3. CASE CommandTooLong
    BY <2>3, TooLongKeeps
  <2>4. CASE Split
    BY <2>4, SplitKeeps
  <2>5. CASE GetParam
    BY <2>5, GetParamKeeps
  <2>6. CASE ExecReset \/ ExecPoll \/ ExecSelect \/ ExecWrite
    BY <2>6, FramesKeep
  <2>7. CASE \/ InvalidCommand \/ DebugCommand \/ AddrCommand
             \/ ExecRead \/ PrintCommand \/ BinCommand
    BY <2>7, CommandsKeep
  <2>. QED
    BY <1>2, <2>1, <2>2, <2>3, <2>4, <2>5, <2>6, <2>7, Zenon DEF Dongle
<1>3. CASE TextMode
  BY <1>3, TextModeKeeps
<1>4. CASE UNCHANGED vars
  <2>1. /\ toDongle' = toDongle /\ pc' = pc /\ commandBuffer' = commandBuffer /\ x' = x
        /\ command' = command /\ rest' = rest /\ parms' = parms
        /\ addresses' = addresses /\ debugEnabled' = debugEnabled /\ sent' = sent
        /\ typed' = typed /\ session' = session
    BY <1>4, Zenon DEF vars, lineVars, parseVars, objectVars
  <2>2. TextTypeOK'
    BY <2>1, Zenon DEF TextInv, TextTypeOK
  <2>3. TextValues'
    BY <2>1, Zenon DEF TextInv, TextValues
  <2>4. LinePlace'
    BY <2>1, Zenon DEF TextInv, LinePlace, LineBegins, LineEnded, InLine
  <2>. QED
    BY <2>2, <2>3, <2>4, Zenon DEF TextInv
<1>. QED
  BY <1>1, <1>2, <1>3, <1>4, Zenon DEF Next

-----------------------------------------------------------------------------
(***************************************************************************)
(* What the invariant gives.                                               *)
(***************************************************************************)

LEMMA TextInvAlways == Spec => []TextInv
BY InvHoldsFirst, InvIsKept, PTL DEF Spec

\* The buffer, its index, the addresses and the frames of a command keep
\* their ranges (readCommand, getAndProcessCommand), whatever is typed.
THEOREM TextTypesCorrect == Spec => []TextTypeOK
<1>1. TextInv => TextTypeOK
  BY Zenon DEF TextInv
<1>. QED
  BY <1>1, TextInvAlways, PTL

\* A command leaves nothing of its line in the stream and takes nothing of
\* the next one, however much the user types ahead (readCommand).
THEOREM LinesStayInStep == Spec => []LinesInStep
<1>1. TextInv => LinesInStep
  BY Zenon DEF TextInv, LinePlace, LineBegins, LinesInStep, Texts
<1>. QED
  BY <1>1, TextInvAlways, PTL
=============================================================================

------------------------ MODULE BinaryCommandsProofs ------------------------
(***************************************************************************)
(* The command protocol stays in step, for every size of a byte and every  *)
(* list of commands that a host sends ahead.                               *)
(*                                                                         *)
(* The argument: at every place of getCommand(), the stream is what is     *)
(* left of one command (LeftOver) and the commands behind it; each read    *)
(* takes the first byte of what is left, and the next place is the one     *)
(* with the rest.                                                          *)
(*                                                                         *)
(* With it every step is one of CommandServer or a stutter: an answer is   *)
(* given when the first command is taken off the list, and not otherwise.  *)
(***************************************************************************)
EXTENDS BinaryCommands, FlattenTheorems

-----------------------------------------------------------------------------
(***************************************************************************)
(* Numbers of two digits.                                                  *)
(***************************************************************************)

\* The two bytes of a length give it back.
LEMMA LengthBytes ==
    ASSUME NEW B \in Nat \ {0, 1}, NEW n \in 0..(B * B - 1)
    PROVE  /\ n \div B \in 0..(B - 1) /\ n % B \in 0..(B - 1)
           /\ (n \div B) % B = n \div B
           /\ B * (n \div B) + (n % B) = n
<1>1. n % B \in 0..(B - 1) /\ n \div B \in Int
  OBVIOUS
<1>2. PICK q \in Int, r \in 0..(B - 1) : q = n \div B /\ r = n % B
  BY <1>1
<1>3. B * q + r = n
  BY <1>2
<1>4. PICK p \in Int, s \in Int : p = B * q /\ s = B * B
  OBVIOUS
<1>5. p + r = n /\ n <= s - 1 /\ n >= 0
  BY <1>3, <1>4
<1>6. q <= -1 => p <= -B
  BY <1>4
<1>7. q >= B => p >= s
  BY <1>4
<1>8. q >= 0
  BY <1>5, <1>6
<1>9. q < B
  BY <1>5, <1>7
<1>10. q % B = q
  BY <1>8, <1>9
<1>. QED
  BY <1>2, <1>3, <1>8, <1>9, <1>10

-----------------------------------------------------------------------------
(***************************************************************************)
(* The commands in the stream.                                             *)
(***************************************************************************)

\* ByteSize and the lengths that an int can hold.
LEMMA Sizes ==
    /\ ByteSize \in Nat \ {0, 1} /\ IntSize = ByteSize * ByteSize
    /\ IntSize \in Nat /\ IntSize \div 2 \in Nat /\ IntSize >= 4
    /\ IntSize \div 2 <= IntSize - 2 /\ IntSize \div 2 >= 2
<1>1. ByteSize \in Nat \ {0, 1} /\ IntSize = ByteSize * ByteSize
  BY HostAssumption DEF IntSize
<1>2. PICK n \in Int : n = ByteSize * ByteSize
  BY <1>1
<1>3. n >= 4
  <2>1. ByteSize >= 2 => n >= 2 * ByteSize
    BY <1>1, <1>2
  <2>. QED
    BY <1>1, <2>1
<1>. QED
  BY <1>1, <1>2, <1>3

\* The bytes of a command's header.
LEMMA HeaderOf ==
    ASSUME NEW r \in Requests
    PROVE  /\ r.code \in Codes /\ r.code \in Nat
           /\ r.data \in Seq(0..(ByteSize - 1)) /\ r.data \in Seq(Nat)
           /\ Len(r.data) \in Nat /\ Len(r.data) < IntSize \div 2
           /\ Len(r.data) \div ByteSize \in 0..(ByteSize - 1)
           /\ Len(r.data) % ByteSize \in 0..(ByteSize - 1)
           /\ ByteSize * (Len(r.data) \div ByteSize) + (Len(r.data) % ByteSize)
              = Len(r.data)
<1>1. /\ r.code \in Codes /\ r.data \in Seq(0..(ByteSize - 1))
      /\ Len(r.data) < IntSize \div 2
  BY HostAssumption
<1>2. r.code \in Nat
  BY <1>1 DEF Codes, CMD_UNKNOWN, CMD_WRITE, CMD_READ, CMD_WRITE_READ, CMD_DEBUG,
              CMD_RESET, CMD_TEXTMODE
<1>3. r.data \in Seq(Nat) /\ Len(r.data) \in Nat
  BY <1>1, Sizes
<1>4. PICK n \in 0..(ByteSize * ByteSize - 1) : n = Len(r.data)
  BY <1>1, <1>3, Sizes
<1>. QED
  BY <1>1, <1>2, <1>3, <1>4, Sizes, LengthBytes

\* Three elements in front are one, and one, and one.
LEMMA ThreeBytes ==
    ASSUME NEW a \in Nat, NEW b \in Nat, NEW c \in Nat, NEW w \in Seq(Nat)
    PROVE  Join(<<a, b, c>>, w) = Join(<<a>>, Join(<<b>>, Join(<<c>>, w)))
<1>1. PICK t \in Seq(Nat), u \in Seq(Nat), x \in Seq(Nat), y \in Seq(Nat) :
          t = <<c>> \o w /\ u = <<b>> \o t /\ x = <<a>> \o u /\ y = <<a, b, c>> \o w
  <2>1. <<c>> \o w \in Seq(Nat)
    BY FirstElement
  <2>2. <<b>> \o (<<c>> \o w) \in Seq(Nat)
    BY <2>1, FirstElement
  <2>3. <<a>> \o (<<b>> \o (<<c>> \o w)) \in Seq(Nat)
    BY <2>2, FirstElement
  <2>4. <<a, b, c>> \o w \in Seq(Nat)
    <3>1. <<a, b, c>> \in Seq(Nat)
      OBVIOUS
    <3>. QED
      BY <3>1, ConcatProperties
  <2>. QED
    BY <2>1, <2>2, <2>3, <2>4, Zenon
<1>2. PICK n \in Nat : n = Len(w)
  OBVIOUS
<1>3. /\ Len(t) = n + 1
      /\ \A k \in 1..(n + 1) : t[k] = IF k = 1 THEN c ELSE w[k - 1]
  <2>1. <<c>> \in Seq(Nat) /\ Len(<<c>>) = 1 /\ <<c>>[1] = c
    OBVIOUS
  <2>. QED
    BY <1>1, <1>2, <2>1, ConcatProperties
<1>4. /\ Len(u) = n + 2
      /\ \A k \in 1..(n + 2) : u[k] = IF k = 1 THEN b ELSE t[k - 1]
  <2>1. <<b>> \in Seq(Nat) /\ Len(<<b>>) = 1 /\ <<b>>[1] = b
    OBVIOUS
  <2>. QED
    <3>1. /\ Len(<<b>> \o t) = 1 + Len(t)
          /\ \A k \in 1..(1 + Len(t)) :
                (<<b>> \o t)[k] = IF k <= 1 THEN b ELSE t[k - 1]
      BY <2>1, ConcatProperties
    <3>2. /\ Len(u) = 1 + Len(t)
          /\ \A k \in 1..(1 + Len(t)) : u[k] = IF k <= 1 THEN b ELSE t[k - 1]
      BY <1>1, <3>1, Zenon
    <3>. QED
      BY <1>3, <3>2
<1>5. /\ Len(x) = n + 3
      /\ \A k \in 1..(n + 3) : x[k] = IF k = 1 THEN a ELSE u[k - 1]
  <2>1. <<a>> \in Seq(Nat) /\ Len(<<a>>) = 1 /\ <<a>>[1] = a
    OBVIOUS
  <2>. QED
    <3>1. /\ Len(<<a>> \o u) = 1 + Len(u)
          /\ \A k \in 1..(1 + Len(u)) :
                (<<a>> \o u)[k] = IF k <= 1 THEN a ELSE u[k - 1]
      BY <2>1, ConcatProperties
    <3>2. /\ Len(x) = 1 + Len(u)
          /\ \A k \in 1..(1 + Len(u)) : x[k] = IF k <= 1 THEN a ELSE u[k - 1]
      BY <1>1, <3>1, Zenon
    <3>. QED
      BY <1>4, <3>2
<1>6. /\ Len(y) = n + 3
      /\ \A k \in 1..(n + 3) : y[k] = IF k <= 3 THEN <<a, b, c>>[k] ELSE w[k - 3]
  <2>1. <<a, b, c>> \in Seq(Nat) /\ Len(<<a, b, c>>) = 3
    OBVIOUS
  <2>. QED
    BY <1>1, <1>2, <2>1, ConcatProperties
<1>7. ASSUME NEW k \in 1..(n + 3) PROVE x[k] = y[k]
  <2>1. CASE k = 1
    BY <1>5, <1>6, <2>1
  <2>2. CASE k = 2
    BY <1>4, <1>5, <1>6, <2>2
  <2>3. CASE k = 3
    BY <1>3, <1>4, <1>5, <1>6, <2>3
  <2>4. CASE k > 3
    <3>1. y[k] = w[k - 3]
      BY <1>6, <2>4
    <3>2. x[k] = u[k - 1]
      BY <1>5, <2>4
    <3>3. u[k - 1] = t[(k - 1) - 1]
      BY <1>4, <2>4
    <3>4. t[(k - 1) - 1] = w[((k - 1) - 1) - 1]
      BY <1>3, <2>4
    <3>5. ((k - 1) - 1) - 1 = k - 3
      OBVIOUS
    <3>. QED
      BY <3>1, <3>2, <3>3, <3>4, <3>5
  <2>5. k = 1 \/ k = 2 \/ k = 3 \/ k > 3
    OBVIOUS
  <2>. QED
    BY <2>1, <2>2, <2>3, <2>4, <2>5, Zenon
<1>8. x = y
  BY <1>5, <1>6, <1>7, SeqEqual
<1>. QED
  BY <1>1, <1>8 DEF Join

\* The length and the data.
LEMMA HeaderTyped ==
    ASSUME NEW r \in Requests
    PROVE  /\ r.code \in Nat
           /\ Len(r.data) \div ByteSize \in Nat /\ Len(r.data) % ByteSize \in Nat
           /\ <<Len(r.data) % ByteSize>> \o r.data \in Seq(Nat)
           /\ <<Len(r.data) \div ByteSize>>
                \o (<<Len(r.data) % ByteSize>> \o r.data) \in Seq(Nat)
<1>1. PICK b \in Nat, c \in Nat, w \in Seq(Nat) :
          b = Len(r.data) \div ByteSize /\ c = Len(r.data) % ByteSize /\ w = r.data
  <2>1. /\ r.data \in Seq(Nat)
        /\ Len(r.data) \div ByteSize \in 0..(ByteSize - 1)
        /\ Len(r.data) % ByteSize \in 0..(ByteSize - 1)
    BY HeaderOf
  <2>2. \A k \in 0..(ByteSize - 1) : k \in Nat
    BY Sizes
  <2>. QED
    BY <2>1, <2>2
<1>2. <<c>> \o w \in Seq(Nat)
  BY FirstElement
<1>3. <<b>> \o (<<c>> \o w) \in Seq(Nat)
  BY <1>2, FirstElement
<1>. QED
  BY <1>1, <1>2, <1>3, HeaderOf

\* A command on the wire: its code, its length, its data.
LEMMA WireOf ==
    ASSUME NEW r \in Requests
    PROVE  /\ Wire(r) \in Seq(Nat) /\ Wire(r) # <<>>
           /\ Wire(r) = <<r.code>> \o (<<Len(r.data) \div ByteSize>>
                            \o (<<Len(r.data) % ByteSize>> \o r.data))
<1>1. PICK a \in Nat, b \in Nat, c \in Nat, w \in Seq(Nat) :
          /\ a = r.code /\ b = Len(r.data) \div ByteSize
          /\ c = Len(r.data) % ByteSize /\ w = r.data
  <2>1. /\ r.code \in Nat /\ r.data \in Seq(Nat)
        /\ Len(r.data) \div ByteSize \in 0..(ByteSize - 1)
        /\ Len(r.data) % ByteSize \in 0..(ByteSize - 1)
    BY HeaderOf
  <2>2. \A k \in 0..(ByteSize - 1) : k \in Nat
    BY Sizes
  <2>. QED
    BY <2>1, <2>2
<1>2. <<a, b, c>> \o w = <<a>> \o (<<b>> \o (<<c>> \o w))
  <2>1. Join(<<a, b, c>>, w) = Join(<<a>>, Join(<<b>>, Join(<<c>>, w)))
    BY ThreeBytes
  <2>. QED
    BY <2>1, Zenon DEF Join
<1>4. <<b>> \o (<<c>> \o w) \in Seq(Nat)
  BY <1>1, HeaderTyped
<1>5. /\ <<a>> \o (<<b>> \o (<<c>> \o w)) \in Seq(Nat)
      /\ <<a>> \o (<<b>> \o (<<c>> \o w)) # <<>>
  BY <1>4, FirstElement
<1>. QED
  BY <1>1, <1>2, <1>5 DEF Wire

\* The commands that are sent ahead, each a sequence of bytes.
Wires == [r \in Requests |-> Wire(r)]

LEMMA StreamIs ==
    /\ Gives(Wires, Requests, Nat)
    /\ \A s \in Seq(Requests) : Stream(s) = FlatMap(Wires, s)
<1>1. ASSUME NEW s \in Seq(Requests)
      PROVE  Stream(s) = FlatMap(Wires, s)
  <2>1. \A k \in DOMAIN s : s[k] \in Requests
    OBVIOUS
  <2>2. [k \in DOMAIN s |-> Wire(s[k])] = [k \in DOMAIN s |-> Wires[s[k]]]
    BY <2>1, Zenon DEF Wires
  <2>. QED
    BY <2>2 DEF Stream, FlatMap, Pieces
<1>. QED
  BY <1>1, WireOf DEF Wires, Gives

LEMMA StreamEmpty == Stream(<<>>) = <<>>
<1>1. <<>> \in Seq(Requests)
  OBVIOUS
<1>. QED
  BY <1>1, StreamIs, FlatMapEmpty

LEMMA StreamType ==
    ASSUME NEW s \in Seq(Requests)
    PROVE  Stream(s) \in Seq(Nat)
BY StreamIs, FlatMapType

\* One more command comes behind the others.
LEMMA StreamAppend ==
    ASSUME NEW s \in Seq(Requests), NEW r \in Requests
    PROVE  Stream(Append(s, r)) = Stream(s) \o Wire(r)
<1>1. Append(s, r) \in Seq(Requests)
  BY AppendProperties
<1>2. FlatMap(Wires, Append(s, r)) = FlatMap(Wires, s) \o Wires[r]
  BY StreamIs, FlatMapAppend
<1>. QED
  BY <1>1, <1>2, StreamIs DEF Wires

\* The first command and the others.
LEMMA StreamHeadTail ==
    ASSUME NEW s \in Seq(Requests), s # <<>>
    PROVE  Stream(s) = Wire(Head(s)) \o Stream(Tail(s))
<1>1. Head(s) \in Requests /\ Tail(s) \in Seq(Requests)
  BY HeadTailProperties
<1>2. FlatMap(Wires, s) = Wires[Head(s)] \o FlatMap(Wires, Tail(s))
  BY StreamIs, FlatMapHeadTail
<1>. QED
  BY <1>1, <1>2, StreamIs DEF Wires

-----------------------------------------------------------------------------
(***************************************************************************)
(* The messages to the host.                                               *)
(***************************************************************************)

\* A message says the length that it has.
LEMMA MessageInStep ==
    ASSUME NEW c \in 0..255, NEW n \in 0..(IntSize - 1)
    PROVE  Message(c, n) \in HostMessages
<1>1. ByteSize \in Nat \ {0, 1} /\ n \in 0..(ByteSize * ByteSize - 1)
  BY Sizes
<1>2. /\ n \div ByteSize \in 0..(ByteSize - 1) /\ n % ByteSize \in 0..(ByteSize - 1)
      /\ (n \div ByteSize) % ByteSize = n \div ByteSize
      /\ ByteSize * (n \div ByteSize) + (n % ByteSize) = n
  BY <1>1, LengthBytes
<1>3. PICK h \in 0..(ByteSize - 1), l \in 0..(ByteSize - 1) :
          h = n \div ByteSize /\ l = n % ByteSize
  BY <1>2
<1>4. Message(c, n) = [code |-> c, high |-> h, low |-> l, payload |-> n]
  BY <1>2, <1>3, Zenon DEF Message
<1>5. ByteSize * h + l = n
  BY <1>2, <1>3
<1>6. [code |-> c, high |-> h, low |-> l, payload |-> n] \in HostMessages
  BY <1>5 DEF HostMessages
<1>. QED
  BY <1>4, <1>6

LEMMA DebugMessages ==
    ASSUME NEW e
    PROVE  Debug(e) \in Seq(HostMessages)
<1>1. RESP_BIT + CMD_DEBUG \in 0..255 /\ DebugLength \in 0..(IntSize - 1)
  BY HostAssumption, Sizes DEF RESP_BIT, CMD_DEBUG
<1>2. PICK m \in HostMessages : m = Message(RESP_BIT + CMD_DEBUG, DebugLength)
  BY <1>1, MessageInStep
<1>3. <<m>> \in Seq(HostMessages) /\ <<>> \in Seq(HostMessages)
  OBVIOUS
<1>. QED
  BY <1>2, <1>3, Zenon DEF Debug

\* The last message of a command takes the command from those not answered.
LEMMA Responded ==
    ASSUME toHost \in Seq(HostMessages), asked \in Seq(Requests), asked # <<>>,
           NEW messages \in Seq(HostMessages), NEW c \in 0..255,
           NEW n \in 0..(IntSize - 1), Respond(messages, c, n)
    PROVE  toHost' \in Seq(HostMessages) /\ asked' = Tail(asked)
<1>1. PICK m \in HostMessages : m = Message(c, n)
  BY MessageInStep
<1>2. toHost \o messages \in Seq(HostMessages) /\ <<m>> \in Seq(HostMessages)
  BY ConcatProperties
<1>3. (toHost \o messages) \o <<m>> \in Seq(HostMessages)
  BY <1>2, ConcatProperties
<1>4. toHost' = toHost \o messages \o <<m>>
  BY <1>1, Zenon DEF Respond
<1>5. asked' = Tail(asked)
  BY TailIsSubSeq DEF Respond
<1>. QED
  BY <1>3, <1>4, <1>5, Zenon

-----------------------------------------------------------------------------
(***************************************************************************)
(* Every step keeps the invariant.                                         *)
(***************************************************************************)

Objects ==
    debugEnabled \in BOOLEAN /\ syncControl \in BOOLEAN /\ linesReset \in BOOLEAN

Numbers ==
    /\ pc \in Steps
    /\ commandCode \in Codes
    /\ commandDataLength \in (-(IntSize \div 2))..(IntSize \div 2 - 1)
    /\ i \in 0..(IntSize \div 2)
    /\ sent \in Seq(0..(ByteSize - 1))
    /\ asked \in Seq(Requests)

LEMMA TypesOf ==
    ASSUME BinInv
    PROVE  /\ Objects /\ Numbers /\ toHost \in Seq(HostMessages)
           /\ toDongle \in Seq(Nat) /\ StreamInStep /\ CommandInStep
BY DEF BinInv, BinTypeOK, Objects, Numbers

LEMMA InvFrom ==
    ASSUME Objects', Numbers', (toHost \in Seq(HostMessages))',
           (toDongle \in Seq(Nat))', StreamInStep', CommandInStep'
    PROVE  BinInv'
<1>1. \A m \in ToSet(toHost)' :
          /\ m.code \in 0..255
          /\ m.high \in 0..(ByteSize - 1) /\ m.low \in 0..(ByteSize - 1)
  <2>1. ToSet(toHost)' \subseteq HostMessages
    BY DEF ToSet
  <2>. QED
    BY <2>1 DEF HostMessages
<1>2. BinTypeOK'
  BY <1>1, Zenon DEF BinTypeOK, Objects, Numbers
<1>. QED
  BY <1>2 DEF BinInv

\* A byte is taken from the front of what is left of the command.
LEMMA NextByte ==
    ASSUME NEW b \in Nat, NEW w \in Seq(Nat), NEW rest \in Seq(Nat),
           toDongle = (<<b>> \o w) \o rest, ReadByte
    PROVE  /\ Head(toDongle) = b /\ toDongle' = w \o rest
           /\ toDongle' \in Seq(Nat)
<1>1. PICK u \in Seq(Nat) : u = w \o rest
  BY ConcatProperties
<1>2. toDongle = <<b>> \o u
  <2>1. <<b>> \in Seq(Nat)
    OBVIOUS
  <2>. QED
    BY <1>1, <2>1, ConcatAssociative
<1>3. Head(<<b>> \o u) = b /\ Tail(<<b>> \o u) = u
  BY FirstElement
<1>. QED
  BY <1>1, <1>2, <1>3 DEF ReadByte

\* The command that is read, and the commands behind it.
LEMMA AtCommand ==
    ASSUME BinInv, InCommand
    PROVE  /\ asked \in Seq(Requests) /\ asked # <<>> /\ Command \in Requests
           /\ Tail(asked) \in Seq(Requests) /\ Stream(Tail(asked)) \in Seq(Nat)
           /\ toDongle = LeftOver \o Stream(Tail(asked))
           /\ commandCode = Command.code
<1>1. asked \in Seq(Requests) /\ asked # <<>> /\ commandCode = Command.code
  BY TypesOf DEF Numbers, CommandInStep
<1>2. Command \in Requests /\ Tail(asked) \in Seq(Requests)
  BY <1>1, HeadTailProperties DEF Command
<1>3. toDongle = LeftOver \o Stream(Tail(asked))
  BY DEF BinInv, StreamInStep
<1>. QED
  BY <1>1, <1>2, <1>3, StreamType

LEMMA ReadCodeKeeps ==
    ASSUME BinInv, ReadCode
    PROVE  BinInv'
<1>1. /\ pc = "code" /\ asked \in Seq(Requests) /\ toDongle = Stream(asked)
      /\ toDongle # <<>>
  BY TypesOf DEF ReadCode, ReadByte, Numbers, StreamInStep, InCommand
<1>2. asked # <<>>
  BY <1>1, StreamEmpty
<1>3. PICK r \in Requests, rest \in Seq(Nat) :
          r = Command /\ rest = Stream(Tail(asked))
  <2>1. Head(asked) \in Requests /\ Tail(asked) \in Seq(Requests)
    BY <1>1, <1>2, HeadTailProperties
  <2>. QED
    BY <2>1, StreamType DEF Command
<1>4. PICK b \in Nat, w \in Seq(Nat) :
          /\ b = r.code
          /\ w = <<Len(r.data) \div ByteSize>>
                    \o (<<Len(r.data) % ByteSize>> \o r.data)
  BY HeaderTyped
<1>5. toDongle = (<<b>> \o w) \o rest
  <2>1. Stream(asked) = Wire(Head(asked)) \o Stream(Tail(asked))
    BY <1>1, <1>2, StreamHeadTail
  <2>2. Wire(r) = <<b>> \o w
    BY <1>4, WireOf
  <2>. QED
    BY <1>1, <1>3, <2>1, <2>2 DEF Command
<1>6. Head(toDongle) = b /\ toDongle' = w \o rest /\ toDongle' \in Seq(Nat)
  BY <1>5, NextByte DEF ReadCode
<1>7. asked' = asked /\ pc' = "high" /\ commandCode' = b
  BY <1>6 DEF ReadCode
<1>8. Command' = r /\ Stream(Tail(asked))' = rest
  BY <1>3, <1>7 DEF Command
<1>9. StreamInStep'
  <2>1. LeftOver' = w
    BY <1>4, <1>7, <1>8 DEF LeftOver
  <2>. QED
    BY <1>6, <1>7, <1>8, <2>1 DEF StreamInStep, InCommand
<1>10. CommandInStep'
  BY <1>2, <1>4, <1>7, <1>8 DEF CommandInStep
<1>11. Numbers'
  <2>1. b \in Codes
    BY <1>4, HeaderOf
  <2>. QED
    BY <1>7, <2>1, TypesOf DEF Numbers, Steps, ReadCode
<1>12. Objects'
  BY TypesOf, Zenon DEF Objects, ReadCode, objectVars
<1>13. (toHost \in Seq(HostMessages))'
  BY TypesOf DEF ReadCode
<1>. QED
  BY <1>6, <1>9, <1>10, <1>11, <1>12, <1>13, InvFrom

LEMMA ReadHighKeeps ==
    ASSUME BinInv, ReadHigh
    PROVE  BinInv'
<1>1. pc = "high" /\ InCommand
  BY DEF ReadHigh, InCommand
<1>2. PICK r \in Requests, rest \in Seq(Nat) :
          r = Command /\ rest = Stream(Tail(asked))
  BY <1>1, AtCommand
<1>3. PICK b \in Nat, w \in Seq(Nat) :
          /\ b = Len(r.data) \div ByteSize
          /\ w = <<Len(r.data) % ByteSize>> \o r.data
  BY HeaderTyped
<1>4. toDongle = (<<b>> \o w) \o rest
  <2>1. LeftOver = <<b>> \o w
    BY <1>1, <1>2, <1>3 DEF LeftOver
  <2>. QED
    BY <1>1, <1>2, <2>1, AtCommand
<1>5. Head(toDongle) = b /\ toDongle' = w \o rest /\ toDongle' \in Seq(Nat)
  BY <1>4, NextByte DEF ReadHigh
<1>6. /\ asked' = asked /\ pc' = "low" /\ commandDataLength' = b
      /\ commandCode' = commandCode
  BY <1>5 DEF ReadHigh
<1>7. Command' = r /\ Stream(Tail(asked))' = rest
  BY <1>2, <1>6 DEF Command
<1>8. StreamInStep'
  <2>1. LeftOver' = w
    BY <1>3, <1>6, <1>7 DEF LeftOver
  <2>. QED
    BY <1>5, <1>6, <1>7, <2>1 DEF StreamInStep, InCommand
<1>9. CommandInStep'
  BY <1>1, <1>2, <1>3, <1>6, <1>7, AtCommand DEF CommandInStep
<1>10. Numbers'
  <2>1. b \in (-(IntSize \div 2))..(IntSize \div 2 - 1)
    <3>1. PICK n \in Nat, p \in Int, l \in Nat :
              n = Len(r.data) /\ p = ByteSize * b /\ l = Len(r.data) % ByteSize
      <4>1. ByteSize * b \in Int /\ Len(r.data) \in Nat
        BY Sizes, HeaderOf
      <4>. QED
        BY <4>1, HeaderTyped
    <3>2. p + l = n /\ n < IntSize \div 2
      BY <1>3, <3>1, HeaderOf
    <3>3. p >= b
      BY <3>1, Sizes
    <3>. QED
      BY <3>2, <3>3, Sizes
  <2>. QED
    BY <1>6, <2>1, TypesOf DEF Numbers, Steps, ReadHigh
<1>11. Objects'
  BY TypesOf, Zenon DEF Objects, ReadHigh, objectVars
<1>12. (toHost \in Seq(HostMessages))'
  BY TypesOf DEF ReadHigh
<1>. QED
  BY <1>5, <1>8, <1>9, <1>10, <1>11, <1>12, InvFrom

LEMMA ReadLowKeeps ==
    ASSUME BinInv, ReadLow
    PROVE  BinInv'
<1>1. pc = "low" /\ InCommand
  BY DEF ReadLow, InCommand
<1>2. PICK r \in Requests, rest \in Seq(Nat) :
          r = Command /\ rest = Stream(Tail(asked))
  BY <1>1, AtCommand
<1>3. PICK b \in Nat, w \in Seq(Nat), n \in Nat :
          b = Len(r.data) % ByteSize /\ w = r.data /\ n = Len(r.data)
  <2>1. r.data \in Seq(Nat) /\ Len(r.data) \in Nat
    BY HeaderOf
  <2>. QED
    BY <2>1, HeaderTyped
<1>4. toDongle = (<<b>> \o w) \o rest
  <2>1. LeftOver = <<b>> \o w
    BY <1>1, <1>2, <1>3 DEF LeftOver
  <2>. QED
    BY <1>1, <1>2, <2>1, AtCommand
<1>5. Head(toDongle) = b /\ toDongle' = w \o rest /\ toDongle' \in Seq(Nat)
  BY <1>4, NextByte DEF ReadLow
<1>6. commandDataLength' = n
  <2>1. PICK h \in Nat : h = Len(r.data) \div ByteSize
    BY HeaderTyped
  <2>2. commandDataLength = h
    BY <1>1, <1>2, <2>1, TypesOf DEF CommandInStep
  <2>3. h * ByteSize + b = n
    <3>1. ByteSize * h + b = n
      BY <1>3, <2>1, HeaderOf
    <3>2. h * ByteSize = ByteSize * h
      BY Sizes
    <3>. QED
      BY <3>1, <3>2
  <2>4. Signed(n) = n
    BY <1>3, HeaderOf DEF Signed
  <2>. QED
    BY <1>5, <2>2, <2>3, <2>4 DEF ReadLow
<1>7. /\ asked' = asked /\ commandCode' = commandCode /\ i' = 0 /\ sent' = <<>>
      /\ pc' = AfterHeader(commandCode) /\ commandCode = r.code
  BY <1>1, <1>2, AtCommand DEF ReadLow
<1>8. Command' = r /\ Stream(Tail(asked))' = rest
  BY <1>2, <1>7 DEF Command
<1>9. /\ pc' \in {"data", "value", "execute"}
      /\ pc' = "data" => r.code \in {CMD_WRITE, CMD_WRITE_READ}
      /\ pc' = "value" => r.code = CMD_DEBUG
      /\ pc' = "execute" => w = <<>> /\ r.code \notin {CMD_WRITE, CMD_WRITE_READ}
  <2>1. r.code \in Codes
    BY HeaderOf
  <2>2. r.code \in {CMD_UNKNOWN, CMD_READ, CMD_RESET, CMD_TEXTMODE} => w = <<>>
    BY <1>3, HostAssumption
  <2>. QED
    BY <1>7, <2>1, <2>2 DEF AfterHeader, Codes, CMD_UNKNOWN, CMD_WRITE, CMD_READ,
          CMD_WRITE_READ, CMD_DEBUG, CMD_RESET, CMD_TEXTMODE
<1>10. StreamInStep'
  <2>1. LeftOver' = w
    <3>1. CASE pc' = "data"
      <4>1. LeftOver' = SubSeq(w, 0 + 1, n)
        BY <1>3, <1>7, <1>8, <3>1 DEF LeftOver
      <4>. QED
        BY <1>3, <4>1, SubSeqFull
    <3>2. CASE pc' = "value"
      BY <1>3, <1>8, <3>2 DEF LeftOver
    <3>3. CASE pc' = "execute"
      BY <1>9, <3>3 DEF LeftOver
    <3>. QED
      BY <1>9, <3>1, <3>2, <3>3
  <2>2. InCommand'
    BY <1>9 DEF InCommand
  <2>. QED
    BY <1>5, <1>8, <2>1, <2>2, Zenon DEF StreamInStep
<1>11. CommandInStep'
  <2>1. SubSeq(w, 1, 0) = <<>>
    BY SubSeqEmpty
  <2>2. asked # <<>>
    BY <1>1, AtCommand
  <2>. QED
    BY <1>3, <1>6, <1>7, <1>8, <1>9, <2>1, <2>2 DEF CommandInStep
<1>12. Numbers'
  <2>1. n \in (-(IntSize \div 2))..(IntSize \div 2 - 1) /\ 0 \in 0..(IntSize \div 2)
    <3>1. PICK m \in Nat : m = IntSize \div 2
      BY Sizes
    <3>2. n < m
      BY <1>3, <3>1, HeaderOf
    <3>3. n \in (-m)..(m - 1) /\ 0 \in 0..m
      BY <3>2
    <3>. QED
      BY <3>1, <3>3
  <2>2. <<>> \in Seq(0..(ByteSize - 1))
    OBVIOUS
  <2>3. commandCode' \in Codes /\ asked' \in Seq(Requests)
    BY <1>7, TypesOf DEF Numbers
  <2>4. pc' \in Steps
    BY <1>9 DEF Steps
  <2>. QED
    BY <1>6, <1>7, <2>1, <2>2, <2>3, <2>4, Zenon DEF Numbers
<1>13. Objects'
  <2>1. linesReset' = FALSE
    BY DEF ReadLow
  <2>. QED
    BY <2>1, TypesOf, Zenon DEF Objects, ReadLow, objectVars
<1>14. (toHost \in Seq(HostMessages))'
  BY TypesOf DEF ReadLow
<1>. QED
  BY <1>5, <1>10, <1>11, <1>12, <1>13, <1>14, InvFrom

LEMMA CopyByteKeeps ==
    ASSUME BinInv, CopyByte
    PROVE  BinInv'
<1>1. pc = "data" /\ InCommand
  BY DEF CopyByte, InCommand
<1>2. PICK r \in Requests, rest \in Seq(Nat) :
          r = Command /\ rest = Stream(Tail(asked))
  BY <1>1, AtCommand
<1>3. PICK d \in Seq(Nat), n \in Nat :
          d = r.data /\ n = Len(d) /\ n < IntSize \div 2
  BY HeaderOf
<1>4. /\ commandDataLength = n /\ sent = SubSeq(d, 1, i)
      /\ commandCode \in {CMD_WRITE, CMD_WRITE_READ}
  BY <1>1, <1>2, <1>3, TypesOf DEF CommandInStep
<1>5. PICK j \in 1..n : j = i + 1 /\ i = j - 1
  <2>1. i < n /\ i \in 0..(IntSize \div 2)
    BY <1>4, TypesOf DEF Numbers, CopyByte
  <2>. QED
    BY <2>1, Sizes
<1>6. PICK b \in Nat, w \in Seq(Nat) : b = d[j] /\ w = SubSeq(d, j + 1, n)
  <2>1. \A k \in (j + 1)..n : d[k] \in Nat
    BY <1>3
  <2>2. SubSeq(d, j + 1, n) \in Seq(Nat)
    BY <2>1, SubSeqProperties
  <2>3. j \in DOMAIN d
    BY <1>3
  <2>4. d[j] \in Nat
    BY <2>3
  <2>. QED
    BY <2>2, <2>4
<1>7. toDongle = (<<b>> \o w) \o rest
  <2>1. LeftOver = SubSeq(d, j, n)
    BY <1>1, <1>2, <1>3, <1>5 DEF LeftOver
  <2>2. SubSeq(d, j, n) = <<b>> \o w
    <3>1. j \in 1..Len(d) /\ n \in j..Len(d)
      BY <1>3
    <3>2. SubSeq(d, j, n) = <<d[j]>> \o SubSeq(d, j + 1, n)
      BY <3>1, SubSeqRecursiveFirst
    <3>. QED
      BY <1>6, <3>2, Zenon
  <2>. QED
    BY <1>1, <1>2, <2>1, <2>2, AtCommand
<1>8. Head(toDongle) = b /\ toDongle' = w \o rest /\ toDongle' \in Seq(Nat)
  BY <1>7, NextByte DEF CopyByte
<1>9. /\ asked' = asked /\ commandCode' = commandCode /\ pc' = "data" /\ i' = j
      /\ commandDataLength' = n /\ sent' = Append(sent, b)
  BY <1>1, <1>4, <1>5, <1>8 DEF CopyByte
<1>10. Command' = r /\ Stream(Tail(asked))' = rest
  BY <1>2, <1>9 DEF Command
<1>11. StreamInStep'
  <2>1. LeftOver' = w
    BY <1>3, <1>6, <1>9, <1>10 DEF LeftOver
  <2>2. InCommand'
    BY <1>9 DEF InCommand
  <2>. QED
    BY <1>8, <1>10, <2>1, <2>2, Zenon DEF StreamInStep
<1>12. sent' = SubSeq(d, 1, j)
  <2>1. SubSeq(d, 1, j) = SubSeq(d, 1, j - 1) \o <<d[j]>>
    BY <1>3, SubSeqRecursiveSecond
  <2>2. sent \in Seq(0..(ByteSize - 1))
    BY TypesOf DEF Numbers
  <2>3. sent \in Seq(Nat)
    BY <2>2, Sizes
  <2>4. Append(sent, b) = sent \o <<b>>
    BY <2>3, AppendIsConcat
  <2>. QED
    BY <1>4, <1>5, <1>6, <1>9, <2>1, <2>4
<1>13. CommandInStep'
  <2>1. asked # <<>> /\ commandCode = r.code
    BY <1>1, <1>2, AtCommand
  <2>. QED
    BY <1>3, <1>4, <1>5, <1>9, <1>10, <1>12, <2>1 DEF CommandInStep
<1>14. Numbers'
  <2>1. j \in 0..(IntSize \div 2)
    BY <1>3, Sizes
  <2>2. b \in 0..(ByteSize - 1)
    <3>1. PICK Bytes : Bytes = 0..(ByteSize - 1)
      OBVIOUS
    <3>2. d \in Seq(Bytes) /\ j \in 1..Len(d)
      BY <1>3, <3>1, HeaderOf
    <3>3. d[j] \in Bytes
      BY <3>2
    <3>. QED
      BY <1>6, <3>1, <3>3
  <2>3. sent' \in Seq(0..(ByteSize - 1))
    BY <1>9, <2>2, TypesOf, AppendProperties DEF Numbers
  <2>. QED
    BY <1>1, <1>4, <1>9, <2>1, <2>3, TypesOf, Zenon DEF Numbers
<1>15. Objects'
  BY TypesOf, Zenon DEF Objects, CopyByte, objectVars
<1>16. (toHost \in Seq(HostMessages))'
  BY TypesOf DEF CopyByte
<1>. QED
  BY <1>8, <1>11, <1>13, <1>14, <1>15, <1>16, InvFrom

LEMMA CopiedKeeps ==
    ASSUME BinInv, Copied
    PROVE  BinInv'
<1>1. pc = "data" /\ InCommand
  BY DEF Copied, InCommand
<1>2. PICK r \in Requests, rest \in Seq(Nat) :
          r = Command /\ rest = Stream(Tail(asked))
  BY <1>1, AtCommand
<1>3. PICK d \in Seq(Nat), n \in Nat :
          d = r.data /\ n = Len(d) /\ n < IntSize \div 2
  BY HeaderOf
<1>4. i = n /\ sent = SubSeq(d, 1, i)
  <2>1. /\ commandDataLength = n /\ i <= n /\ sent = SubSeq(d, 1, i)
        /\ i \in 0..(IntSize \div 2)
    BY <1>1, <1>2, <1>3, TypesOf DEF CommandInStep, Numbers
  <2>2. i >= commandDataLength
    BY DEF Copied
  <2>. QED
    BY <2>1, <2>2
<1>5. SubSeq(d, n + 1, n) = <<>> /\ sent = d
  BY <1>3, <1>4, SubSeqEmpty, SubSeqFull
<1>6. /\ asked' = asked /\ commandCode' = commandCode /\ pc' = "execute"
      /\ sent' = sent /\ toDongle' = toDongle
  BY DEF Copied, commandVars
<1>7. Command' = r /\ Stream(Tail(asked))' = rest
  BY <1>2, <1>6 DEF Command
<1>8. StreamInStep'
  <2>1. LeftOver = <<>> /\ LeftOver' = <<>>
    BY <1>1, <1>2, <1>3, <1>4, <1>5, <1>6 DEF LeftOver
  <2>2. InCommand'
    BY <1>6 DEF InCommand
  <2>3. toDongle = LeftOver \o rest
    BY <1>1, <1>2, AtCommand
  <2>. QED
    BY <1>6, <1>7, <2>1, <2>2, <2>3, Zenon DEF StreamInStep
<1>9. CommandInStep'
  <2>1. asked # <<>> /\ commandCode = r.code
    BY <1>1, <1>2, AtCommand
  <2>. QED
    BY <1>3, <1>5, <1>6, <1>7, <2>1 DEF CommandInStep
<1>10. Numbers'
  <2>1. "execute" \in Steps
    BY DEF Steps
  <2>. QED
    BY <1>6, <2>1, TypesOf, Zenon DEF Numbers, Copied, commandVars
<1>11. Objects'
  BY TypesOf, Zenon DEF Objects, Copied, objectVars, commandVars
<1>12. (toHost \in Seq(HostMessages))' /\ (toDongle \in Seq(Nat))'
  BY TypesOf DEF Copied
<1>. QED
  BY <1>8, <1>9, <1>10, <1>11, <1>12, InvFrom

LEMMA LeftOverType ==
    ASSUME BinInv, InCommand
    PROVE  LeftOver \in Seq(Nat)
<1>1. PICK r \in Requests : r = Command
  BY AtCommand
<1>2. PICK d \in Seq(Nat), n \in Nat : d = r.data /\ n = Len(d)
  BY HeaderOf
<1>3. CASE pc \in {"high", "low", "value"}
  BY <1>1, <1>3, HeaderOf, HeaderTyped DEF LeftOver
<1>4. CASE pc = "data"
  <2>1. i + 1 \in Int /\ i + 1 >= 1
    BY TypesOf DEF Numbers
  <2>2. \A k \in (i + 1)..n : d[k] \in Nat
    BY <1>2, <2>1
  <2>3. SubSeq(d, i + 1, n) \in Seq(Nat)
    BY <2>1, <2>2, SubSeqProperties
  <2>. QED
    BY <1>1, <1>2, <1>4, <2>3 DEF LeftOver
<1>5. CASE pc \notin {"high", "low", "value", "data"}
  <2>1. LeftOver = <<>>
    BY <1>5 DEF LeftOver
  <2>. QED
    BY <2>1
<1>. QED
  BY <1>3, <1>4, <1>5

LEMMA HostSendsKeeps ==
    ASSUME BinInv, NEW r \in Requests, HostSends(r)
    PROVE  BinInv'
<1>1. PICK w \in Seq(Nat) : w = Wire(r)
  BY WireOf
<1>2. /\ asked' = Append(asked, r) /\ toDongle' = toDongle \o w
      /\ pc' = pc /\ i' = i /\ sent' = sent /\ commandCode' = commandCode
      /\ commandDataLength' = commandDataLength /\ toHost' = toHost
  BY <1>1 DEF HostSends, commandVars
<1>3. asked \in Seq(Requests) /\ asked' \in Seq(Requests)
  BY <1>2, TypesOf, AppendProperties DEF Numbers
<1>4. Numbers'
  BY <1>2, <1>3, TypesOf, Zenon DEF Numbers
<1>5. Objects'
  BY TypesOf, Zenon DEF Objects, HostSends, commandVars, objectVars
<1>6. (toHost \in Seq(HostMessages))' /\ (toDongle \in Seq(Nat))'
  BY <1>2, TypesOf, ConcatProperties
<1>7. CASE ~InCommand
  <2>1. ~InCommand'
    BY <1>2, <1>7 DEF InCommand
  <2>2. toDongle = Stream(asked)
    BY <1>7 DEF BinInv, StreamInStep
  <2>3. toDongle' = Stream(Append(asked, r))
    BY <1>1, <1>2, <1>3, <2>2, StreamAppend
  <2>. QED
    <3>1. StreamInStep' /\ CommandInStep'
      BY <1>2, <2>1, <2>3 DEF StreamInStep, CommandInStep
    <3>. QED
      BY <1>4, <1>5, <1>6, <3>1, InvFrom
<1>8. CASE InCommand
  <2>1. InCommand'
    BY <1>2, <1>8 DEF InCommand
  <2>2. PICK q \in Seq(Requests), v \in Seq(Nat), u \in Seq(Nat) :
            q = Tail(asked) /\ v = LeftOver /\ u = Stream(q)
    BY <1>8, AtCommand, LeftOverType
  <2>3. asked # <<>>
    BY <1>8, AtCommand
  <2>4. Head(asked') = Head(asked) /\ Tail(asked') = Append(q, r)
    BY <1>2, <1>3, <2>2, <2>3, HeadTailAppend
  <2>5. Command' = Command
    BY <2>4 DEF Command
  <2>6. LeftOver' = LeftOver
    BY <1>2, <2>5, Zenon DEF LeftOver
  <2>7. Stream(Append(q, r)) = u \o w
    BY <1>1, <2>2, StreamAppend
  <2>8. toDongle = v \o u
    BY <1>8, <2>2, AtCommand
  <2>9. (v \o u) \o w = v \o (u \o w)
    BY ConcatAssociative
  <2>10. toDongle' = LeftOver' \o Stream(Tail(asked'))
    BY <1>2, <2>2, <2>4, <2>6, <2>7, <2>8, <2>9, Zenon
  <2>11. StreamInStep'
    BY <2>1, <2>10 DEF StreamInStep
  <2>12. asked' # <<>>
    BY <1>2, <1>3, AppendProperties
  <2>13. CommandInStep'
    BY <1>2, <1>8, <2>5, <2>12, TypesOf DEF CommandInStep
  <2>. QED
    BY <1>4, <1>5, <1>6, <2>11, <2>13, InvFrom
<1>. QED
  BY <1>7, <1>8

\* Steps that leave the command and the stream as they are.
LEMMA SameCommandKeeps ==
    ASSUME BinInv, Objects', (toHost \in Seq(HostMessages))', pc' = pc,
           UNCHANGED <<toDongle, asked, commandCode, commandDataLength, i, sent>>
    PROVE  BinInv'
<1>1. Command' = Command
  BY DEF Command
<1>2. LeftOver' = LeftOver /\ (InCommand' <=> InCommand)
  BY <1>1, Zenon DEF LeftOver, InCommand
<1>3. Stream(Tail(asked))' = Stream(Tail(asked)) /\ Stream(asked)' = Stream(asked)
  OBVIOUS
<1>4. StreamInStep'
  BY <1>2, <1>3, TypesOf, Zenon DEF StreamInStep
<1>5. CommandInStep'
  BY <1>1, <1>2, TypesOf DEF CommandInStep
<1>6. Numbers'
  BY TypesOf, Zenon DEF Numbers
<1>7. (toDongle \in Seq(Nat))'
  BY TypesOf
<1>. QED
  BY <1>4, <1>5, <1>6, <1>7, InvFrom

LEMMA HostTakesKeeps ==
    ASSUME BinInv, HostTakes
    PROVE  BinInv'
<1>1. toHost' \in Seq(HostMessages)
  BY TypesOf, HeadTailProperties DEF HostTakes
<1>2. Objects'
  BY TypesOf, Zenon DEF Objects, HostTakes, objectVars, commandVars
<1>. QED
  BY <1>1, <1>2, SameCommandKeeps DEF HostTakes, commandVars

\* After the data the stream holds the next commands.
LEMMA Executed ==
    ASSUME BinInv, pc \in {"execute", "receive", "reset"}
    PROVE  toDongle = Stream(Tail(asked))
<1>1. InCommand
  BY DEF InCommand
<1>2. LeftOver = <<>>
  BY DEF LeftOver
<1>. QED
  BY <1>1, <1>2, AtCommand, ConcatEmptySeq

\* A step inside a command that has been read.
LEMMA ContinueKeeps ==
    ASSUME BinInv, pc = "execute", pc' \in {"receive", "reset"}, Objects',
           pc' = "receive" => commandCode \in {CMD_READ, CMD_WRITE_READ},
           pc' = "reset" => commandCode = CMD_RESET,
           (toHost \in Seq(HostMessages))',
           UNCHANGED <<toDongle, asked, commandCode, commandDataLength, i, sent>>
    PROVE  BinInv'
<1>1. Command' = Command
  BY DEF Command
<1>2. LeftOver' = <<>> /\ LeftOver = <<>>
  BY DEF LeftOver
<1>3. InCommand' /\ InCommand
  BY DEF InCommand
<1>4. Stream(Tail(asked))' = Stream(Tail(asked))
  OBVIOUS
<1>5. StreamInStep'
  BY <1>2, <1>3, <1>4, TypesOf, Zenon DEF StreamInStep
<1>6. CommandInStep'
  BY <1>1, <1>3, TypesOf DEF CommandInStep
<1>7. Numbers'
  <2>1. pc' \in Steps
    BY DEF Steps
  <2>. QED
    BY <2>1, TypesOf, Zenon DEF Numbers
<1>8. (toDongle \in Seq(Nat))'
  BY TypesOf
<1>. QED
  BY <1>5, <1>6, <1>7, <1>8, InvFrom

\* The response to a command, and the next one.
LEMMA AnswerKeeps ==
    ASSUME BinInv, InCommand, pc' \in {"code", "text"}, Objects',
           toDongle' = Stream(Tail(asked)),
           NEW messages \in Seq(HostMessages), NEW c \in 0..255,
           NEW n \in 0..(IntSize - 1), Respond(messages, c, n),
           UNCHANGED <<commandCode, commandDataLength, i, sent>>
    PROVE  BinInv'
<1>1. /\ asked \in Seq(Requests) /\ asked # <<>> /\ Tail(asked) \in Seq(Requests)
      /\ Stream(Tail(asked)) \in Seq(Nat)
  BY AtCommand
<1>2. toHost' \in Seq(HostMessages) /\ asked' = Tail(asked)
  BY <1>1, TypesOf, Responded
<1>3. ~InCommand'
  BY DEF InCommand
<1>4. StreamInStep' /\ CommandInStep'
  BY <1>2, <1>3 DEF StreamInStep, CommandInStep
<1>5. Numbers'
  <2>1. pc' \in Steps
    BY DEF Steps
  <2>2. asked' \in Seq(Requests)
    BY <1>1, <1>2
  <2>. QED
    BY <2>1, <2>2, TypesOf, Zenon DEF Numbers
<1>. QED
  BY <1>1, <1>2, <1>4, <1>5, InvFrom

\* The codes of the messages are bytes.
LEMMA AnswerCodes ==
    ASSUME BinInv
    PROVE  /\ RESP_BIT + commandCode \in 0..255
           /\ RESP_BIT + commandCode + CMD_RESPONSE_TIMEOUT \in 0..255
           /\ RESP_BIT + CMD_WRITE \in 0..255 /\ RESP_BIT + CMD_DEBUG \in 0..255
           /\ RESP_BIT + CMD_RESET \in 0..255 /\ RESP_BIT + CMD_TEXTMODE \in 0..255
           /\ FREE_RAM \in 0..255
           /\ 0 \in 0..(IntSize - 1) /\ 2 \in 0..(IntSize - 1)
<1>1. commandCode \in Codes
  BY TypesOf DEF Numbers
<1>2. commandCode \in 0..48
  BY <1>1 DEF Codes, CMD_UNKNOWN, CMD_WRITE, CMD_READ, CMD_WRITE_READ, CMD_DEBUG,
              CMD_RESET, CMD_TEXTMODE
<1>3. 0 \in 0..(IntSize - 1) /\ 2 \in 0..(IntSize - 1)
  BY Sizes
<1>. QED
  BY <1>2, <1>3 DEF RESP_BIT, CMD_RESPONSE_TIMEOUT, CMD_WRITE, CMD_DEBUG, CMD_RESET,
                    CMD_TEXTMODE, FREE_RAM

LEMMA ExecuteKeeps ==
    ASSUME BinInv,
           \/ WriteCommand \/ FrameReceived \/ ReceiveTimeout \/ ResetDone
           \/ TextModeCommand \/ UnrecognizedCommand
    PROVE  BinInv'
<1>1. /\ pc \in {"execute", "receive", "reset"} /\ pc' \in {"code", "text"}
      /\ toDongle' = toDongle
      /\ UNCHANGED <<commandCode, commandDataLength, i, sent>>
      /\ linesReset' = linesReset
  BY DEF WriteCommand, FrameReceived, ReceiveTimeout, ResetDone, TextModeCommand,
         UnrecognizedCommand, commandVars
<1>2. InCommand /\ toDongle' = Stream(Tail(asked))
  BY <1>1, Executed DEF InCommand
<1>3. Debug(debugEnabled) \in Seq(HostMessages) /\ <<>> \in Seq(HostMessages)
  BY DebugMessages
<1>4. CASE WriteCommand
  <2>1. Objects'
    BY <1>1, <1>4, TypesOf, Zenon DEF Objects, WriteCommand, objectVars
  <2>2. Respond(Debug(debugEnabled), RESP_BIT + CMD_WRITE, 0)
    BY <1>4, Zenon DEF WriteCommand
  <2>. QED
    BY <1>1, <1>2, <1>3, <2>1, <2>2, AnswerCodes, AnswerKeeps
<1>5. CASE FrameReceived
  <2>1. Objects'
    BY <1>1, <1>5, TypesOf, Zenon DEF Objects, FrameReceived, objectVars
  <2>2. PICK n \in FrameLengths : Respond(<<>>, RESP_BIT + commandCode, n)
    BY <1>5, Zenon DEF FrameReceived
  <2>3. n \in 0..(IntSize - 1)
    BY HostAssumption, Sizes
  <2>. QED
    BY <1>1, <1>2, <1>3, <2>1, <2>2, <2>3, AnswerCodes, AnswerKeeps
<1>6. CASE ReceiveTimeout
  <2>1. Objects'
    BY <1>1, <1>6, TypesOf, Zenon DEF Objects, ReceiveTimeout, objectVars
  <2>2. Respond(<<>>, RESP_BIT + commandCode + CMD_RESPONSE_TIMEOUT, 0)
    BY <1>6, Zenon DEF ReceiveTimeout
  <2>. QED
    BY <1>1, <1>2, <1>3, <2>1, <2>2, AnswerCodes, AnswerKeeps
<1>7. CASE ResetDone
  <2>1. Objects'
    BY <1>1, <1>7, TypesOf, Zenon DEF Objects, ResetDone, objectVars
  <2>2. Respond(Debug(debugEnabled), RESP_BIT + CMD_RESET, 0)
    BY <1>7, Zenon DEF ResetDone
  <2>. QED
    BY <1>1, <1>2, <1>3, <2>1, <2>2, AnswerCodes, AnswerKeeps
<1>8. CASE TextModeCommand
  <2>1. Objects'
    BY <1>1, <1>8, TypesOf, Zenon DEF Objects, TextModeCommand, NewProcessor
  <2>2. Respond(Debug(debugEnabled), RESP_BIT + CMD_TEXTMODE, 0)
    BY <1>8, Zenon DEF TextModeCommand
  <2>. QED
    BY <1>1, <1>2, <1>3, <2>1, <2>2, AnswerCodes, AnswerKeeps
<1>9. CASE UnrecognizedCommand
  <2>1. Objects'
    BY <1>1, <1>9, TypesOf, Zenon DEF Objects, UnrecognizedCommand, objectVars
  <2>2. Respond(Debug(debugEnabled), RESP_BIT + ERROR_BIT + commandCode, 0)
    BY <1>9, Zenon DEF UnrecognizedCommand
  <2>3. RESP_BIT + ERROR_BIT + commandCode \in 0..255
    BY <1>9 DEF UnrecognizedCommand, RESP_BIT, ERROR_BIT, CMD_UNKNOWN
  <2>. QED
    BY <1>1, <1>2, <1>3, <2>1, <2>2, <2>3, AnswerCodes, AnswerKeeps
<1>. QED
  BY <1>4, <1>5, <1>6, <1>7, <1>8, <1>9

LEMMA DebugCommandKeeps ==
    ASSUME BinInv, DebugCommand
    PROVE  BinInv'
<1>1. pc = "value" /\ InCommand /\ pc' = "code"
  BY DEF DebugCommand, InCommand
<1>2. PICK r \in Requests, rest \in Seq(Nat) :
          r = Command /\ rest = Stream(Tail(asked))
  BY <1>1, AtCommand
<1>3. r.code = CMD_DEBUG
  BY <1>1, <1>2, TypesOf DEF CommandInStep
<1>4. PICK d \in Seq(Nat) : d = r.data /\ Len(d) = 1
  BY <1>3, HeaderOf, HostAssumption
<1>5. PICK b \in Nat : d = <<b>> \o <<>>
  <2>1. PICK b \in Nat : b = d[1]
    BY <1>4
  <2>2. d = <<b>>
    BY <1>4, <2>1
  <2>3. <<b>> \in Seq(Nat)
    OBVIOUS
  <2>. QED
    BY <2>2, <2>3, ConcatEmptySeq
<1>6. toDongle = (<<b>> \o <<>>) \o rest
  <2>1. LeftOver = d
    BY <1>1, <1>2, <1>4 DEF LeftOver
  <2>. QED
    BY <1>1, <1>2, <1>5, <2>1, AtCommand
<1>7. toDongle' = rest
  <2>1. <<>> \in Seq(Nat) /\ ReadByte
    BY DEF DebugCommand
  <2>2. toDongle' = <<>> \o rest
    BY <1>6, <2>1, NextByte
  <2>. QED
    BY <2>2, ConcatEmptySeq
<1>8. Objects'
  <2>1. /\ debugEnabled' = (Head(toDongle) # 0) /\ syncControl' = syncControl
        /\ linesReset' = linesReset
    BY Zenon DEF DebugCommand, commandVars
  <2>2. debugEnabled' \in BOOLEAN
    BY <2>1
  <2>. QED
    BY <2>1, <2>2, TypesOf, Zenon DEF Objects
<1>9. PICK messages \in Seq(HostMessages) :
          messages = Debug(debugEnabled') \o <<Message(FREE_RAM, 2)>>
  <2>1. PICK m \in HostMessages : m = Message(FREE_RAM, 2)
    BY AnswerCodes, MessageInStep
  <2>2. <<m>> \in Seq(HostMessages) /\ Debug(debugEnabled') \in Seq(HostMessages)
    BY DebugMessages
  <2>3. Debug(debugEnabled') \o <<m>> \in Seq(HostMessages)
    BY <2>2, ConcatProperties
  <2>. QED
    BY <2>1, <2>3
<1>10. Respond(messages, RESP_BIT + CMD_DEBUG, 0)
  BY <1>9, Zenon DEF DebugCommand
<1>11. UNCHANGED <<commandCode, commandDataLength, i, sent>>
  BY DEF DebugCommand, commandVars
<1>. QED
  BY <1>1, <1>2, <1>7, <1>8, <1>10, <1>11, AnswerCodes, AnswerKeeps

LEMMA WaitsKeep ==
    ASSUME BinInv, WriteReadCommand \/ ReadCommand \/ DeviceReset
    PROVE  BinInv'
<1>1. /\ pc = "execute" /\ pc' \in {"receive", "reset"}
      /\ UNCHANGED <<toDongle, asked, commandCode, commandDataLength, i, sent>>
      /\ debugEnabled' = debugEnabled /\ syncControl' = syncControl
  BY DEF WriteReadCommand, ReadCommand, DeviceReset, commandVars, objectVars
<1>2. linesReset' \in BOOLEAN
  <2>1. CASE WriteReadCommand \/ ReadCommand
    <3>1. linesReset' = linesReset
      BY <2>1 DEF WriteReadCommand, ReadCommand, commandVars
    <3>. QED
      BY <3>1, TypesOf, Zenon DEF Objects
  <2>2. CASE DeviceReset
    BY <2>2 DEF DeviceReset
  <2>. QED
    BY <2>1, <2>2
<1>3. Objects'
  BY <1>1, <1>2, TypesOf, Zenon DEF Objects
<1>4. toHost' \in Seq(HostMessages)
  <2>1. PICK d \in Seq(HostMessages) : d = Debug(debugEnabled)
    BY DebugMessages
  <2>2. toHost \in Seq(HostMessages)
    BY TypesOf
  <2>3. toHost \o d \in Seq(HostMessages)
    BY <2>2, ConcatProperties
  <2>4. (toHost \o d) \o d \in Seq(HostMessages)
    BY <2>3, ConcatProperties
  <2>5. toHost' = (toHost \o d) \o d \/ toHost' = toHost \o d \/ toHost' = toHost
    BY <2>1, Zenon DEF WriteReadCommand, ReadCommand, DeviceReset
  <2>. QED
    BY <2>2, <2>3, <2>4, <2>5
<1>5. /\ pc' = "receive" => commandCode \in {CMD_READ, CMD_WRITE_READ}
      /\ pc' = "reset" => commandCode = CMD_RESET
  BY DEF WriteReadCommand, ReadCommand, DeviceReset
<1>. QED
  BY <1>1, <1>3, <1>4, <1>5, ContinueKeeps

LEMMA BinaryModeKeeps ==
    ASSUME BinInv, BinaryMode
    PROVE  BinInv'
<1>1. /\ pc = "text" /\ pc' = "code"
      /\ UNCHANGED <<toDongle, toHost, asked, commandCode, commandDataLength, i, sent,
                     linesReset>>
  BY DEF BinaryMode, commandVars
<1>2. ~InCommand /\ ~InCommand'
  BY <1>1 DEF InCommand
<1>3. Stream(asked)' = Stream(asked)
  BY <1>1
<1>4. StreamInStep' /\ CommandInStep'
  BY <1>1, <1>2, <1>3, TypesOf DEF StreamInStep, CommandInStep
<1>5. Numbers'
  <2>1. pc' \in Steps
    BY <1>1 DEF Steps
  <2>. QED
    BY <1>1, <2>1, TypesOf, Zenon DEF Numbers
<1>6. Objects'
  <2>1. debugEnabled' \in BOOLEAN /\ syncControl' \in BOOLEAN
    BY DEF BinaryMode, NewProcessor
  <2>. QED
    BY <1>1, <2>1, TypesOf, Zenon DEF Objects
<1>7. (toHost \in Seq(HostMessages))' /\ (toDongle \in Seq(Nat))'
  BY <1>1, TypesOf
<1>. QED
  BY <1>4, <1>5, <1>6, <1>7, InvFrom

LEMMA BinInvAtFirst ==
    ASSUME Init
    PROVE  BinInv
<1>1. toHost \in Seq(HostMessages) /\ ToSet(toHost) = {} /\ toDongle \in Seq(Nat)
  BY DEF Init, ToSet
<1>2. StreamInStep /\ CommandInStep
  BY StreamEmpty DEF Init, StreamInStep, CommandInStep, InCommand
<1>3. /\ pc \in Steps /\ commandCode \in Codes
      /\ commandDataLength \in (-(IntSize \div 2))..(IntSize \div 2 - 1)
      /\ i \in 0..(IntSize \div 2)
      /\ sent \in Seq(0..(ByteSize - 1)) /\ asked \in Seq(Requests)
  BY Sizes DEF Init, Steps, Codes
<1>4. debugEnabled \in BOOLEAN /\ syncControl \in BOOLEAN /\ linesReset \in BOOLEAN
  BY DEF Init
<1>5. \A m \in ToSet(toHost) :
          /\ m.code \in 0..255
          /\ m.high \in 0..(ByteSize - 1) /\ m.low \in 0..(ByteSize - 1)
  BY <1>1
<1>6. BinTypeOK
  BY <1>1, <1>3, <1>4, <1>5, Zenon DEF BinTypeOK
<1>. QED
  BY <1>1, <1>2, <1>6 DEF BinInv

LEMMA BinInvKept ==
    ASSUME BinInv, [Next]_vars
    PROVE  BinInv'
<1>1. CASE Dongle
  <2>1. CASE ReadCode
    BY <2>1, ReadCodeKeeps
  <2>2. CASE ReadHigh
    BY <2>2, ReadHighKeeps
  <2>3. CASE ReadLow
    BY <2>3, ReadLowKeeps
  <2>4. CASE CopyByte
    BY <2>4, CopyByteKeeps
  <2>5. CASE Copied
    BY <2>5, CopiedKeeps
  <2>6. CASE \/ WriteCommand \/ FrameReceived \/ ReceiveTimeout \/ ResetDone
             \/ TextModeCommand \/ UnrecognizedCommand
    BY <2>6, ExecuteKeeps
  <2>7. CASE DebugCommand
    BY <2>7, DebugCommandKeeps
  <2>8. CASE WriteReadCommand \/ ReadCommand \/ DeviceReset
    BY <2>8, WaitsKeep
  <2>. QED
    BY <1>1, <2>1, <2>2, <2>3, <2>4, <2>5, <2>6, <2>7, <2>8, Zenon DEF Dongle
<1>2. CASE \E r \in Requests : HostSends(r)
  BY <1>2, HostSendsKeeps
<1>3. CASE HostTakes
  BY <1>3, HostTakesKeeps
<1>4. CASE BinaryMode
  BY <1>4, BinaryModeKeeps
<1>5. CASE UNCHANGED vars
  <2>1. /\ UNCHANGED <<toDongle, toHost, pc, asked, commandCode, commandDataLength, i,
                       sent, linesReset>>
        /\ UNCHANGED objectVars
    BY <1>5 DEF vars, commandVars
  <2>2. Objects'
    BY <2>1, TypesOf, Zenon DEF Objects, objectVars
  <2>3. (toHost \in Seq(HostMessages))'
    BY <2>1, TypesOf
  <2>. QED
    BY <2>1, <2>2, <2>3, SameCommandKeeps
<1>. QED
  BY <1>1, <1>2, <1>3, <1>4, <1>5, Zenon DEF Next

LEMMA BinInvAlways == Spec => []BinInv
<1>1. Init => BinInv
  BY BinInvAtFirst
<1>2. BinInv /\ [Next]_vars => BinInv'
  BY BinInvKept
<1>. QED
  BY <1>1, <1>2, PTL DEF Spec

-----------------------------------------------------------------------------
(***************************************************************************)
(* For every size of a byte, every list of commands, every length of a     *)
(* frame and every bound on what is pending.                               *)
(***************************************************************************)

\* Every variable of the command processor keeps its type: the length of a
\* command stays what an int can hold, the index of the copy loop never
\* runs past the data, and what the host gets is made of bytes.
THEOREM BinaryTypesCorrect == Spec => []BinTypeOK
<1>1. BinInv => BinTypeOK
  BY DEF BinInv
<1>. QED
  BY <1>1, BinInvAlways, PTL

\* getCommand() and the copy loop take exactly a command from the stream:
\* whenever the dongle waits for a code, the stream is the unanswered
\* commands, from the first byte of the first one on.
THEOREM StreamStaysInStep == Spec => []RequestsInStep
<1>1. BinInv => RequestsInStep
  BY DEF BinInv, StreamInStep, InCommand, RequestsInStep, Stream
<1>. QED
  BY <1>1, BinInvAlways, PTL

\* The send engine is given the data of the command that the host waits for,
\* whole and in order, however many commands were sent ahead.
THEOREM DataReachesSender == Spec => []DataAsSent
<1>1. BinInv => DataAsSent
  BY DEF BinInv, CommandInStep, InCommand, Command, DataAsSent
<1>. QED
  BY <1>1, BinInvAlways, PTL

\* The two length bytes that sendResponse() writes are the length of what
\* follows them, for every length that a message can have.
THEOREM HostStaysInStep == Spec => []ResponsesInStep
<1>1. BinInv => ResponsesInStep
  <2>. SUFFICES ASSUME toHost \in Seq(HostMessages), NEW k \in DOMAIN toHost
                PROVE  ByteSize * toHost[k].high + toHost[k].low = toHost[k].payload
    BY DEF BinInv, ResponsesInStep
  <2>1. toHost[k] \in HostMessages
    OBVIOUS
  <2>. QED
    BY <2>1 DEF HostMessages
<1>. QED
  BY <1>1, BinInvAlways, PTL

-----------------------------------------------------------------------------
(***************************************************************************)
(* The dongle is a CommandServer, step by step.                            *)
(***************************************************************************)

\* The answers among the messages.
CodesByMessage == [m \in HostMessages |-> AnswerCode(m)]

LEMMA AnswersAre ==
    /\ Gives(CodesByMessage, HostMessages, 0..255)
    /\ \A s \in Seq(HostMessages) : AnswerCodesIn(s) = FlatMap(CodesByMessage, s)
<1>1. ASSUME NEW s \in Seq(HostMessages)
      PROVE  AnswerCodesIn(s) = FlatMap(CodesByMessage, s)
  <2>1. \A k \in DOMAIN s : s[k] \in HostMessages
    OBVIOUS
  <2>2. [k \in DOMAIN s |-> AnswerCode(s[k])] = [k \in DOMAIN s |-> CodesByMessage[s[k]]]
    BY <2>1, Zenon DEF CodesByMessage
  <2>. QED
    BY <2>2 DEF AnswerCodesIn, FlatMap, Pieces
<1>2. ASSUME NEW m \in HostMessages
      PROVE  AnswerCode(m) \in Seq(0..255)
  <2>1. PICK c \in 0..255 : c = m.code
    BY DEF HostMessages
  <2>2. <<c>> \in Seq(0..255) /\ <<>> \in Seq(0..255)
    OBVIOUS
  <2>. QED
    BY <2>1, <2>2, Zenon DEF AnswerCode
<1>. QED
  BY <1>1, <1>2 DEF CodesByMessage, Gives

LEMMA AnswersEmpty == AnswerCodesIn(<<>>) = <<>>
<1>1. <<>> \in Seq(HostMessages)
  OBVIOUS
<1>. QED
  BY <1>1, AnswersAre, FlatMapEmpty

LEMMA AnswersType ==
    ASSUME NEW s \in Seq(HostMessages)
    PROVE  AnswerCodesIn(s) \in Seq(0..255)
BY AnswersAre, FlatMapType

\* A message behind the others is one more answer or none.
LEMMA AnswersAppend ==
    ASSUME NEW s \in Seq(HostMessages), NEW m \in HostMessages
    PROVE  AnswerCodesIn(s \o <<m>>) =
               IF IsAnswer(m) THEN Append(AnswerCodesIn(s), m.code) ELSE AnswerCodesIn(s)
<1>1. s \o <<m>> = Append(s, m) /\ Append(s, m) \in Seq(HostMessages)
  BY AppendProperties
<1>2. FlatMap(CodesByMessage, Append(s, m)) =
          FlatMap(CodesByMessage, s) \o CodesByMessage[m]
  BY AnswersAre, FlatMapAppend
<1>3. PICK a \in Seq(0..255) : a = AnswerCodesIn(s)
  BY AnswersType
<1>4. AnswerCodesIn(s \o <<m>>) = a \o AnswerCode(m)
  BY <1>1, <1>2, <1>3, AnswersAre DEF CodesByMessage
<1>5. m.code \in 0..255
  BY DEF HostMessages
<1>6. a \o <<m.code>> = Append(a, m.code) /\ a \o <<>> = a
  BY <1>5
<1>. QED
  BY <1>3, <1>4, <1>6, Zenon DEF AnswerCode

\* The first message.
LEMMA AnswersHeadTail ==
    ASSUME NEW s \in Seq(HostMessages), s # <<>>
    PROVE  IF IsAnswer(Head(s))
           THEN /\ AnswerCodesIn(s) # <<>>
                /\ AnswerCodesIn(Tail(s)) = Tail(AnswerCodesIn(s))
           ELSE AnswerCodesIn(Tail(s)) = AnswerCodesIn(s)
<1>1. PICK m \in HostMessages, t \in Seq(HostMessages) : m = Head(s) /\ t = Tail(s)
  BY HeadTailProperties
<1>2. FlatMap(CodesByMessage, s) =
          CodesByMessage[Head(s)] \o FlatMap(CodesByMessage, Tail(s))
  BY AnswersAre, FlatMapHeadTail
<1>3. PICK a \in Seq(0..255) : a = AnswerCodesIn(t)
  BY AnswersType
<1>4. AnswerCodesIn(s) = AnswerCode(m) \o a
  BY <1>1, <1>2, <1>3, AnswersAre DEF CodesByMessage
<1>5. m.code \in 0..255
  BY DEF HostMessages
<1>6. /\ <<m.code>> \o a # <<>> /\ Tail(<<m.code>> \o a) = a
      /\ <<>> \o a = a
  BY <1>5, FirstElement
<1>. QED
  BY <1>1, <1>3, <1>4, <1>6, Zenon DEF AnswerCode

\* The codes of the commands the host waits for.
LEMMA CodesAppend ==
    ASSUME NEW s \in Seq(Requests), NEW r \in Requests
    PROVE  CommandCodes(Append(s, r)) = Append(CommandCodes(s), r.code)
BY DEF CommandCodes

LEMMA CodesHeadTail ==
    ASSUME NEW s \in Seq(Requests), s # <<>>
    PROVE  /\ CommandCodes(s) # <<>>
           /\ Head(CommandCodes(s)) = Head(s).code
           /\ CommandCodes(Tail(s)) = Tail(CommandCodes(s))
BY DEF CommandCodes

\* Which messages are answers.
LEMMA WhichAnswers ==
    ASSUME NEW c \in 0..255, NEW n \in 0..(IntSize - 1)
    PROVE  /\ Message(c, n).code = c
           /\ IsAnswer(Message(c, n)) <=>
                  c # FREE_RAM /\ (c = RESP_BIT + CMD_DEBUG => n = 0)
<1>1. ByteSize \in Nat \ {0, 1} /\ n \in 0..(ByteSize * ByteSize - 1)
  BY Sizes
<1>2. /\ n \div ByteSize \in 0..(ByteSize - 1) /\ n % ByteSize \in 0..(ByteSize - 1)
      /\ (n \div ByteSize) % ByteSize = n \div ByteSize
      /\ ByteSize * (n \div ByteSize) + (n % ByteSize) = n
  BY <1>1, LengthBytes
<1>3. PICK h \in 0..(ByteSize - 1), l \in 0..(ByteSize - 1) :
          h = n \div ByteSize /\ l = n % ByteSize
  BY <1>2
<1>4. Message(c, n) = [code |-> c, high |-> h, low |-> l, payload |-> n]
  BY <1>2, <1>3, Zenon DEF Message
<1>5. (h = 0 /\ l = 0) <=> n = 0
  <2>1. h = 0 /\ l = 0 => n = 0
    BY <1>1, <1>2, <1>3
  <2>2. n = 0 => h = 0 /\ l = 0
    BY <1>1, <1>3
  <2>. QED
    BY <2>1, <2>2
<1>6. /\ Message(c, n).code = c /\ Message(c, n).high = h /\ Message(c, n).low = l
  BY <1>4
<1>. QED
  BY <1>5, <1>6, Zenon DEF IsAnswer

\* A debug message is none.
LEMMA DebugIsNone ==
    ASSUME NEW s \in Seq(HostMessages), NEW e
    PROVE  AnswerCodesIn(s \o Debug(e)) = AnswerCodesIn(s)
<1>1. /\ RESP_BIT + CMD_DEBUG \in 0..255 /\ DebugLength \in 0..(IntSize - 1)
      /\ DebugLength # 0
  BY HostAssumption, Sizes DEF RESP_BIT, CMD_DEBUG
<1>2. PICK m \in HostMessages : m = Message(RESP_BIT + CMD_DEBUG, DebugLength)
  BY <1>1, MessageInStep
<1>3. ~IsAnswer(m)
  BY <1>1, <1>2, WhichAnswers, Zenon
<1>4. AnswerCodesIn(s \o <<m>>) = AnswerCodesIn(s)
  BY <1>3, AnswersAppend
<1>5. s \o <<>> = s
  BY ConcatEmptySeq
<1>. QED
  BY <1>2, <1>4, <1>5, Zenon DEF Debug

\* The last message of a command is its answer.
LEMMA AnswersOnce ==
    ASSUME BinInv, InCommand,
           NEW messages \in Seq(HostMessages),
           AnswerCodesIn(toHost \o messages) = AnswerCodesIn(toHost),
           NEW c \in 0..255, c \in PossibleAnswers[commandCode], c # FREE_RAM,
           NEW n \in 0..(IntSize - 1), c = RESP_BIT + CMD_DEBUG => n = 0,
           Respond(messages, c, n)
    PROVE  Server!Answer
<1>1. toHost \in Seq(HostMessages) /\ asked \in Seq(Requests) /\ asked # <<>>
      /\ commandCode = Head(asked).code
  BY TypesOf, AtCommand DEF Command
<1>2. PICK m \in HostMessages : m = Message(c, n)
  BY MessageInStep
<1>3. m.code = c /\ IsAnswer(m)
  BY <1>2, WhichAnswers, Zenon
<1>4. PICK s \in Seq(HostMessages) : s = toHost \o messages
  BY <1>1, ConcatProperties
<1>5. toHost' = s \o <<m>>
  BY <1>2, <1>4, Zenon DEF Respond
<1>6. AnswerCodesIn(toHost') = Append(AnswerCodesIn(toHost), c)
  BY <1>3, <1>4, <1>5, AnswersAppend
<1>7. asked' = Tail(asked)
  BY <1>1, Responded
<1>8. /\ CommandCodes(asked) # <<>> /\ Head(CommandCodes(asked)) = commandCode
      /\ CommandCodes(asked') = Tail(CommandCodes(asked))
  BY <1>1, <1>7, CodesHeadTail, Zenon
<1>9. c \in PossibleAnswers[Head(CommandCodes(asked))]
  BY <1>8, Zenon
<1>. QED
  BY <1>6, <1>8, <1>9, Zenon DEF Server!Answer

\* The codes of the responses.
Answers(c, code) ==
    /\ code \in PossibleAnswers[c] /\ code \in 0..255
    /\ code # FREE_RAM /\ code # RESP_BIT + CMD_DEBUG

LEMMA ResponseCodes ==
    /\ Answers(CMD_WRITE, RESP_BIT + CMD_WRITE)
    /\ Answers(CMD_RESET, RESP_BIT + CMD_RESET)
    /\ Answers(CMD_TEXTMODE, RESP_BIT + CMD_TEXTMODE)
    /\ Answers(CMD_UNKNOWN, RESP_BIT + ERROR_BIT + CMD_UNKNOWN)
    /\ \A c \in {CMD_READ, CMD_WRITE_READ} :
        Answers(c, RESP_BIT + c) /\ Answers(c, RESP_BIT + c + CMD_RESPONSE_TIMEOUT)
    /\ /\ RESP_BIT + CMD_DEBUG \in PossibleAnswers[CMD_DEBUG]
       /\ RESP_BIT + CMD_DEBUG \in 0..255 /\ RESP_BIT + CMD_DEBUG # FREE_RAM
BY DEF Answers, PossibleAnswers, Codes, CMD_UNKNOWN, CMD_WRITE, CMD_READ,
       CMD_WRITE_READ, CMD_DEBUG, CMD_RESET, CMD_TEXTMODE, RESP_BIT, ERROR_BIT,
       CMD_RESPONSE_TIMEOUT, FREE_RAM

LEMMA RespondsOnce ==
    ASSUME BinInv,
           \/ WriteCommand \/ FrameReceived \/ ReceiveTimeout \/ ResetDone
           \/ TextModeCommand \/ UnrecognizedCommand
    PROVE  Server!Answer
<1>1. pc \in {"execute", "receive", "reset"}
  BY DEF WriteCommand, FrameReceived, ReceiveTimeout, ResetDone, TextModeCommand,
         UnrecognizedCommand
<1>2. InCommand /\ toHost \in Seq(HostMessages) /\ CommandInStep
  BY <1>1, TypesOf DEF InCommand
<1>3. /\ pc = "receive" => commandCode \in {CMD_READ, CMD_WRITE_READ}
      /\ pc = "reset" => commandCode = CMD_RESET
  BY <1>2 DEF CommandInStep
<1>4. /\ Debug(debugEnabled) \in Seq(HostMessages) /\ <<>> \in Seq(HostMessages)
      /\ AnswerCodesIn(toHost \o Debug(debugEnabled)) = AnswerCodesIn(toHost)
      /\ AnswerCodesIn(toHost \o <<>>) = AnswerCodesIn(toHost)
  <2>1. toHost \o <<>> = toHost
    BY <1>2, ConcatEmptySeq
  <2>. QED
    BY <1>2, <2>1, DebugMessages, DebugIsNone
<1>5. 0 \in 0..(IntSize - 1)
  BY Sizes
<1>6. ASSUME NEW messages \in {<<>>, Debug(debugEnabled)}, NEW c, NEW n \in 0..(IntSize - 1),
             Answers(commandCode, c), Respond(messages, c, n)
      PROVE  Server!Answer
  <2>1. messages \in Seq(HostMessages)
        /\ AnswerCodesIn(toHost \o messages) = AnswerCodesIn(toHost)
    BY <1>4
  <2>2. c \in PossibleAnswers[commandCode] /\ c \in 0..255 /\ c # FREE_RAM
        /\ c # RESP_BIT + CMD_DEBUG
    BY <1>6, Zenon DEF Answers
  <2>. QED
    BY <1>2, <1>6, <2>1, <2>2, AnswersOnce
<1>7. CASE WriteCommand
  BY <1>5, <1>6, <1>7, ResponseCodes, Zenon DEF WriteCommand
<1>8. CASE FrameReceived
  <2>1. PICK n \in FrameLengths : Respond(<<>>, RESP_BIT + commandCode, n)
    BY <1>8, Zenon DEF FrameReceived
  <2>2. n \in 0..(IntSize - 1)
    BY HostAssumption, Sizes
  <2>3. Answers(commandCode, RESP_BIT + commandCode)
    BY <1>3, <1>8, ResponseCodes, Zenon DEF FrameReceived
  <2>. QED
    BY <1>6, <2>1, <2>2, <2>3
<1>9. CASE ReceiveTimeout
  <2>1. Answers(commandCode, RESP_BIT + commandCode + CMD_RESPONSE_TIMEOUT)
    BY <1>3, <1>9, ResponseCodes, Zenon DEF ReceiveTimeout
  <2>. QED
    BY <1>5, <1>6, <1>9, <2>1, Zenon DEF ReceiveTimeout
<1>10. CASE ResetDone
  BY <1>3, <1>5, <1>6, <1>10, ResponseCodes, Zenon DEF ResetDone
<1>11. CASE TextModeCommand
  BY <1>5, <1>6, <1>11, ResponseCodes, Zenon DEF TextModeCommand
<1>12. CASE UnrecognizedCommand
  BY <1>5, <1>6, <1>12, ResponseCodes, Zenon DEF UnrecognizedCommand
<1>. QED
  BY <1>7, <1>8, <1>9, <1>10, <1>11, <1>12

\* CMD_DEBUG: its response is told from a debug message by its length of 0.
LEMMA DebugRespondsOnce ==
    ASSUME BinInv, DebugCommand
    PROVE  Server!Answer
<1>1. InCommand /\ commandCode = CMD_DEBUG /\ toHost \in Seq(HostMessages)
  BY TypesOf DEF DebugCommand, InCommand, CommandInStep
<1>2. PICK d \in Seq(HostMessages) : d = Debug(debugEnabled')
  BY DebugMessages
<1>3. 0 \in 0..(IntSize - 1) /\ 2 \in 0..(IntSize - 1) /\ FREE_RAM \in 0..255
  BY AnswerCodes
<1>4. PICK m \in HostMessages : m = Message(FREE_RAM, 2)
  BY <1>3, MessageInStep
<1>5. ~IsAnswer(m)
  BY <1>3, <1>4, WhichAnswers, Zenon
<1>6. PICK messages \in Seq(HostMessages) : messages = d \o <<m>>
  <2>1. <<m>> \in Seq(HostMessages)
    OBVIOUS
  <2>2. d \o <<m>> \in Seq(HostMessages)
    BY <2>1, ConcatProperties
  <2>. QED
    BY <2>2
<1>7. AnswerCodesIn(toHost \o messages) = AnswerCodesIn(toHost)
  <2>1. PICK t \in Seq(HostMessages) : t = toHost \o d
    BY <1>1, ConcatProperties
  <2>2. <<m>> \in Seq(HostMessages)
    OBVIOUS
  <2>3. toHost \o messages = t \o <<m>>
    BY <1>1, <1>6, <2>1, <2>2, ConcatAssociative
  <2>4. AnswerCodesIn(t \o <<m>>) = AnswerCodesIn(t)
    BY <1>5, AnswersAppend
  <2>5. AnswerCodesIn(t) = AnswerCodesIn(toHost)
    BY <1>1, <1>2, <2>1, DebugIsNone, Zenon
  <2>. QED
    BY <2>3, <2>4, <2>5, Zenon
<1>8. Respond(messages, RESP_BIT + CMD_DEBUG, 0)
  BY <1>2, <1>4, <1>6, Zenon DEF DebugCommand
<1>. QED
  BY <1>1, <1>3, <1>7, <1>8, ResponseCodes, AnswersOnce

\* Every step of the model is one of CommandServer or leaves it alone.
LEMMA ServerStep ==
    ASSUME BinInv, [Next]_vars
    PROVE  [Server!ServerNext]_(Server!serverVars)
<1>1. toHost \in Seq(HostMessages) /\ asked \in Seq(Requests)
  BY TypesOf DEF Numbers
<1>2. ASSUME AnswerCodesIn(toHost') = AnswerCodesIn(toHost), asked' = asked
      PROVE  UNCHANGED Server!serverVars
  BY <1>2, Zenon DEF Server!serverVars
<1>3. CASE \E r \in Requests : HostSends(r)
  <2>1. PICK r \in Requests : asked' = Append(asked, r) /\ toHost' = toHost
    BY <1>3 DEF HostSends
  <2>2. CommandCodes(asked') = Append(CommandCodes(asked), r.code)
    BY <1>1, <2>1, CodesAppend
  <2>3. r.code \in Codes
    BY HostAssumption
  <2>. QED
    BY <2>1, <2>2, <2>3, Zenon DEF Server!ServerNext, Server!Submit
<1>4. CASE HostTakes
  <2>1. toHost # <<>> /\ toHost' = Tail(toHost) /\ asked' = asked
    BY <1>4 DEF HostTakes
  <2>2. CASE IsAnswer(Head(toHost))
    <3>1. /\ AnswerCodesIn(toHost) # <<>>
          /\ AnswerCodesIn(toHost') = Tail(AnswerCodesIn(toHost))
      BY <1>1, <2>1, <2>2, AnswersHeadTail
    <3>. QED
      BY <2>1, <3>1, Zenon DEF Server!ServerNext, Server!Take
  <2>3. CASE ~IsAnswer(Head(toHost))
    <3>1. AnswerCodesIn(toHost') = AnswerCodesIn(toHost)
      BY <1>1, <2>1, <2>3, AnswersHeadTail
    <3>. QED
      BY <1>2, <2>1, <3>1
  <2>. QED
    BY <2>2, <2>3
<1>5. CASE Dongle
  <2>1. CASE \/ ReadCode \/ ReadHigh \/ ReadLow \/ CopyByte \/ Copied \/ DeviceReset
    <3>1. toHost' = toHost /\ asked' = asked
      BY <2>1 DEF ReadCode, ReadHigh, ReadLow, CopyByte, Copied, DeviceReset
    <3>. QED
      BY <1>2, <3>1, Zenon
  <2>2. CASE WriteReadCommand
    <3>1. PICK t \in Seq(HostMessages) : t = toHost \o Debug(debugEnabled)
      BY <1>1, DebugMessages, ConcatProperties
    <3>2. AnswerCodesIn(t \o Debug(debugEnabled)) = AnswerCodesIn(t)
      BY DebugIsNone
    <3>3. AnswerCodesIn(t) = AnswerCodesIn(toHost)
      BY <1>1, <3>1, DebugIsNone
    <3>4. toHost' = t \o Debug(debugEnabled) /\ asked' = asked
      BY <2>2, <3>1, Zenon DEF WriteReadCommand
    <3>. QED
      BY <1>2, <3>2, <3>3, <3>4, Zenon
  <2>3. CASE ReadCommand
    <3>1. toHost' = toHost \o Debug(debugEnabled) /\ asked' = asked
      BY <2>3, Zenon DEF ReadCommand
    <3>2. AnswerCodesIn(toHost \o Debug(debugEnabled)) = AnswerCodesIn(toHost)
      BY <1>1, DebugIsNone
    <3>. QED
      BY <1>2, <3>1, <3>2, Zenon
  <2>4. CASE \/ WriteCommand \/ FrameReceived \/ ReceiveTimeout \/ ResetDone
             \/ TextModeCommand \/ UnrecognizedCommand
    BY <2>4, RespondsOnce, Zenon DEF Server!ServerNext
  <2>5. CASE DebugCommand
    BY <2>5, DebugRespondsOnce, Zenon DEF Server!ServerNext
  <2>. QED
    BY <1>5, <2>1, <2>2, <2>3, <2>4, <2>5, Zenon DEF Dongle
<1>6. CASE BinaryMode \/ UNCHANGED vars
  <2>1. toHost' = toHost /\ asked' = asked
    BY <1>6 DEF BinaryMode, vars
  <2>. QED
    BY <1>2, <2>1, Zenon
<1>. QED
  BY <1>3, <1>4, <1>5, <1>6, Zenon DEF Next

\* process() answers the commands in the order in which they came, each one
\* once and with a response that belongs to it: the safety part of
\* AnsweredInOrder.
THEOREM AnswersInOrder == Spec => Server!ServerInit /\ [][Server!ServerNext]_(Server!serverVars)
<1>1. Init => Server!ServerInit
  <2>. SUFFICES ASSUME Init PROVE Server!ServerInit
    OBVIOUS
  <2>1. asked = <<>> /\ toHost = <<>>
    BY DEF Init
  <2>2. CommandCodes(<<>>) = <<>>
    BY DEF CommandCodes
  <2>. QED
    BY <2>1, <2>2, AnswersEmpty, Zenon DEF Server!ServerInit
<1>2. BinInv /\ [Next]_vars => [Server!ServerNext]_(Server!serverVars)
  BY ServerStep
<1>. QED
  BY <1>1, <1>2, BinInvAlways, PTL DEF Spec
=============================================================================
